------------------------------- MODULE Desktop -------------------------------
(***************************************************************************)
(* What the daemon promises about who is on the desktop, as the sessions   *)
(* and the followers of the state socket read it in the seats: one client  *)
(* holds it, a connection is beside it only as that client's own second,   *)
(* and a connection gets its one turn, which it never has again once it is *)
(* over.  Desks implements this with a channel, outputs and captures.      *)
(***************************************************************************)
EXTENDS Integers

CONSTANT Clients

Nobody == 0

VARIABLES
  holder,  \* The client on the desktop.
  beside,  \* The connection beside it.
  spent    \* The connections that have had their turn, or given it up.

vars == <<holder, beside, spent>>

Init ==
  /\ holder = Nobody
  /\ beside = Nobody
  /\ spent = {}

Turn(c) ==
  /\ c \notin spent
  /\ spent' = spent \cup {c}

(* A new client takes the desktop, and the display beside goes with the    *)
(* client that had it.                                                     *)
Take(c) ==
  /\ Turn(c)
  /\ holder' = c
  /\ beside' = Nobody

(* The client on the desktop shows another output beside it: the           *)
(* connection was opened after that client's own.                          *)
Seat(c) ==
  /\ Turn(c)
  /\ holder # Nobody
  /\ holder < c
  /\ beside' = c
  /\ UNCHANGED holder

(* A connection is refused, or ends before it asked for anything; asking   *)
(* may end the one beside where there is nothing left to show.             *)
Forgo(c) ==
  /\ Turn(c)
  /\ beside' \in {beside, Nobody}
  /\ UNCHANGED holder

Vacate ==
  /\ holder # Nobody
  /\ holder' = Nobody
  /\ beside' = Nobody
  /\ UNCHANGED spent

Unseat ==
  /\ beside # Nobody
  /\ beside' = Nobody
  /\ UNCHANGED <<holder, spent>>

Next ==
  \/ \E c \in Clients : Take(c) \/ Seat(c) \/ Forgo(c)
  \/ Vacate
  \/ Unseat

Spec == Init /\ [][Next]_vars

=============================================================================
