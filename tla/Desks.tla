-------------------------------- MODULE Desks --------------------------------
(***************************************************************************)
(* The compositor thread's two desks: the desktop, which one client holds, *)
(* and the display beside it (src/compositor.rs), with what a desk drags   *)
(* along: the output it shares (src/outputs.rs), the capture of it         *)
(* (src/capture.rs), the framebuffer's picture, and what the sessions read *)
(* of it all (src/shared.rs): the seats and the list of outputs.           *)
(*                                                                         *)
(* The sessions (src/session.rs, src/main.rs) appear as what they send the *)
(* compositor thread: a join when the handshake is over, requests to share *)
(* another output, and a ClientLeft however they end.  Everything goes     *)
(* through the one command channel, in the order it is sent.               *)
(*                                                                         *)
(* An output is its name: names are ordered, since the list is sorted by   *)
(* them.  What a frame shows is the output it was captured from.           *)
(***************************************************************************)
EXTENDS Integers, Sequences

CONSTANTS
  Clients,     \* The ids Shared::next_client gives out: they only go up.
  Outputs,     \* The names an output of the compositor may have, as an order.
  Wanted,      \* The configured `output`, or NoOutput without one.
  MaxWaiting   \* Bound: no SelectOutput is sent with this many commands waiting.

NoOutput == 0
Nobody   == 0
Blank    == 0

FIRST  == 1
BESIDE == 2
Desk   == {FIRST, BESIDE}

ASSUME ClientsAssumption == Clients \subseteq Nat \ {0}
ASSUME OutputsAssumption ==
  /\ Outputs \subseteq Nat \ {0}
  /\ \A S \in SUBSET Outputs : S # {} => \E o \in S : \A p \in S : o <= p
ASSUME WantedAssumption  == Wanted \in Outputs \cup {NoOutput}
ASSUME BoundAssumption   == MaxWaiting \in Nat

VARIABLES
  session,   \* What each connection has told the compositor thread so far.
  commands,  \* The calloop channel.
  outputs,   \* The wl_outputs bound and named.
  done,      \* Those whose properties have arrived: the ones listed.
  desks,     \* The compositor thread's own state of the two desks.
  seats,     \* Shared::seats, the watch every session reads.
  displays,  \* Shared::displays, the list every session sends.
  chosen     \* History: the desktop is where a client's SelectOutput put it.

vars == <<session, commands, outputs, done, desks, seats, displays, chosen>>

-----------------------------------------------------------------------------
(* The state of one desk: its client, its output, the frame in flight with *)
(* the step the screencopy protocol is at, the timer that asks for the     *)
(* next frame, and whose pixels the framebuffer holds.                     *)

NoFrame == [of |-> NoOutput, step |-> "none"]

Frame == {NoFrame} \cup [of : Outputs, step : {"asked", "whole", "damage"}]

DeskState == [client   : Clients \cup {Nobody},
              selected : Outputs \cup {NoOutput},
              frame    : Frame,
              timer    : BOOLEAN,
              picture  : Outputs \cup {Blank}]

EmptyDesk == [client   |-> Nobody,
              selected |-> NoOutput,
              frame    |-> NoFrame,
              timer    |-> FALSE,
              picture  |-> Blank]

Command ==
  [type : {"ClientJoined", "BesideJoined", "ClientLeft"}, client : Clients]
    \cup [type : {"SelectOutput"}, client : Clients, output : Outputs]

TypeOK ==
  /\ session \in [Clients -> {"connecting", "first", "beside", "gone"}]
  /\ commands \in Seq(Command)
  /\ outputs \subseteq Outputs
  /\ done \subseteq outputs
  /\ desks \in [Desk -> DeskState]
  /\ seats \in [holder : Clients \cup {Nobody},
                beside : Clients \cup {Nobody},
                besideEnded : Clients \cup {Nobody}]
  /\ displays \in [active : [Desk -> Outputs \cup {NoOutput}],
                   entries : SUBSET Outputs]
  /\ chosen \in BOOLEAN

-----------------------------------------------------------------------------
(* The capture of one desk (start_capture, stop_capture).                  *)

Started(k, outs) ==
  IF k.client = Nobody \/ k.frame # NoFrame \/ k.selected \notin outs
  THEN k
  ELSE [k EXCEPT !.frame = [of |-> k.selected, step |-> "asked"]]

(* Mutant: the frame in flight is not destroyed. *)
StoppedMidFrame(k) == [k EXCEPT !.timer = FALSE]

Stopped(k) == [k EXCEPT !.frame = NoFrame, !.timer = FALSE]

(* What refresh_displays publishes: an id is listed while the compositor   *)
(* has the output, and a desk's active id is 0 otherwise.                  *)
Listing(D, outs, ready) ==
  [active  |-> [d \in Desk |-> IF D[d].selected \in outs THEN D[d].selected
                                                         ELSE NoOutput],
   entries |-> ready]

(* end_beside: nothing without a client there; otherwise its session ends, *)
(* and the desk gives back its output and its framebuffer.                 *)
BesideEnded(D) ==
  IF D[BESIDE].client = Nobody THEN D ELSE [D EXCEPT ![BESIDE] = EmptyDesk]

(* Mutant: the mark of the last connection that ended goes back. *)
EndSeatUnordered(s, id) ==
  [s EXCEPT !.besideEnded = id, !.beside = IF @ = id THEN Nobody ELSE @]

(* Mutant: a connection that never was beside is not marked ended. *)
EndSeatOfSeated(s, id) ==
  IF s.beside = id THEN [s EXCEPT !.besideEnded = id, !.beside = Nobody] ELSE s

(* Shared::end_beside                                                      *)
EndSeat(s, id) ==
  [s EXCEPT !.besideEnded = IF @ < id THEN id ELSE @,
            !.beside      = IF @ = id THEN Nobody ELSE @]

(* Mutant: the watch is not told that the display beside ended. *)
SeatsStand == seats

SeatsBesideEnded ==
  IF desks[BESIDE].client = Nobody THEN seats
                                   ELSE EndSeat(seats, desks[BESIDE].client)

(* Mutant: the list is left as it was. *)
ListStands == UNCHANGED displays

(* The outputs_changed of an end_beside that found somebody to end.        *)
ListBesideEnded ==
  displays' = IF desks[BESIDE].client = Nobody THEN displays
                                               ELSE Listing(desks', outputs, done)

(* Mutant: an output can be on both desks. *)
TakesNothing(d, o) == FALSE

(* share_output: an output is on one desk, so a display beside that shows  *)
(* the one the desktop goes to ends.                                       *)
TakesFromBeside(d, o) == d = FIRST /\ desks[BESIDE].selected = o

Shared(d, o, outs) ==
  LET D == IF TakesFromBeside(d, o) THEN BesideEnded(desks) ELSE desks
  IN  [D EXCEPT ![d] = Started([Stopped(D[d]) EXCEPT !.selected = o,
                                                      !.picture  = Blank],
                               outs)]

SeatsShared(d, o) ==
  IF TakesFromBeside(d, o) THEN SeatsBesideEnded ELSE seats

(* The output adopt_output goes to: the configured one where the list has  *)
(* it, otherwise the first of the list.                                    *)
First(S) == CHOOSE o \in S : \A p \in S : o <= p

(* Mutant: the configured output has no precedence. *)
AdoptFirst(ready) == First(ready)

Adoptable(ready) == IF Wanted \in ready THEN Wanted ELSE First(ready)

-----------------------------------------------------------------------------
(* Discovery leaves the desktop on the configured output where there is    *)
(* one, and otherwise on whichever the compositor announced first.         *)

Init ==
  /\ session = [c \in Clients |-> "connecting"]
  /\ commands = <<>>
  /\ outputs \in (SUBSET Outputs) \ {{}}
  /\ done = outputs
  /\ \E o \in outputs :
       /\ Wanted \in outputs => o = Wanted
       /\ desks = [d \in Desk |-> IF d = FIRST
                                  THEN [EmptyDesk EXCEPT !.selected = o]
                                  ELSE EmptyDesk]
       /\ displays = [active  |-> [d \in Desk |-> IF d = FIRST THEN o
                                                               ELSE NoOutput],
                      entries |-> outputs]
  /\ seats = [holder |-> Nobody, beside |-> Nobody, besideEnded |-> Nobody]
  /\ chosen = FALSE

-----------------------------------------------------------------------------
(* The sessions.                                                           *)

Send(command) ==
  /\ commands' = Append(commands, command)
  /\ UNCHANGED <<outputs, done, desks, seats, displays, chosen>>

(* The handshake is over, and its ClientInit took the desktop.             *)
Join(c) ==
  /\ session[c] = "connecting"
  /\ session' = [session EXCEPT ![c] = "first"]
  /\ Send([type |-> "ClientJoined", client |-> c])

(* The handshake is over, and its ClientInit asked to be beside.           *)
JoinBeside(c) ==
  /\ session[c] = "connecting"
  /\ session' = [session EXCEPT ![c] = "beside"]
  /\ Send([type |-> "BesideJoined", client |-> c])

(* SelectOutput, of an output the session's list may no longer show.       *)
Ask(c, o) ==
  /\ session[c] \in {"first", "beside"}
  /\ Len(commands) < MaxWaiting
  /\ UNCHANGED session
  /\ Send([type |-> "SelectOutput", client |-> c, output |-> o])

(* The session ends on its own: the client left, an error, a handshake     *)
(* that failed or took too long.  main.rs says so however it ended.        *)
Leave(c) ==
  /\ session[c] # "gone"
  /\ session' = [session EXCEPT ![c] = "gone"]
  /\ Send([type |-> "ClientLeft", client |-> c])

(* `superseded`, and the wait for the seat beside: a session ends on what  *)
(* it finds in the watch, when it gets to look.                            *)
Told(c) ==
  \/ session[c] = "first" /\ seats.holder > c
  \/ session[c] = "beside" /\ seats.besideEnded >= c

Superseded(c) == Told(c) /\ Leave(c)

-----------------------------------------------------------------------------
(* handle_command, one action per command.                                 *)

Received(type) ==
  /\ commands # <<>>
  /\ Head(commands).type = type
  /\ commands' = Tail(commands)
  /\ UNCHANGED session

DeskOf(c) == {d \in Desk : desks[d].client = c}

ClientJoined ==
  /\ Received("ClientJoined")
  /\ LET c        == Head(commands).client
         takeover == desks[FIRST].client # Nobody
         D        == IF takeover THEN BesideEnded(desks) ELSE desks
         S        == IF takeover THEN SeatsBesideEnded ELSE seats
     IN  /\ desks' = [D EXCEPT ![FIRST] =
                        Started([D[FIRST] EXCEPT !.client = c], outputs)]
         /\ seats' = [S EXCEPT !.holder = c]
         /\ ListBesideEnded
  /\ UNCHANGED <<outputs, done, chosen>>

(* join_beside: refused to one a later connection beside has outlived, to  *)
(* one older than the client on the desktop, and while there is no client  *)
(* or no other output.  A connection already beside makes way first, also  *)
(* where there then is no other output to show.                            *)
(* Mutant: a connection opened beside an earlier client is let in. *)
RefusedOnlyWhenEnded(c) ==
  seats.besideEnded >= c \/ desks[FIRST].client = Nobody

Refused(c) ==
  \/ seats.besideEnded >= c
  \/ desks[FIRST].client = Nobody
  \/ desks[FIRST].client > c

RefuseBeside ==
  /\ Received("BesideJoined")
  /\ Refused(Head(commands).client)
  /\ seats' = EndSeat(seats, Head(commands).client)
  /\ UNCHANGED <<outputs, done, desks, displays, chosen>>

Others == done \ {desks[FIRST].selected}

BesideJoined ==
  /\ Received("BesideJoined")
  /\ LET c == Head(commands).client
         D == BesideEnded(desks)
         S == SeatsBesideEnded
         o == First(Others)
     IN  /\ ~Refused(c)
         /\ \/ /\ Others = {}
               /\ desks' = D
               /\ seats' = EndSeat(S, c)
               /\ ListBesideEnded
            \/ /\ Others # {}
               /\ desks' = [D EXCEPT ![BESIDE] =
                              Started([D[BESIDE] EXCEPT !.client   = c,
                                                        !.selected = o,
                                                        !.picture  = Blank,
                                                        !.frame    = NoFrame,
                                                        !.timer    = FALSE],
                                      outputs)]
               /\ seats' = [S EXCEPT !.beside = c]
               /\ displays' = Listing(desks', outputs, done)
  /\ UNCHANGED <<outputs, done, chosen>>

ClientLeft ==
  /\ Received("ClientLeft")
  /\ LET c == Head(commands).client
         D == BesideEnded(desks)
     IN  \/ /\ desks[FIRST].client = c
            /\ desks' = [D EXCEPT ![FIRST] =
                           Stopped([D[FIRST] EXCEPT !.client = Nobody])]
            /\ seats' = [SeatsBesideEnded EXCEPT !.holder = Nobody]
            /\ ListBesideEnded
         \/ /\ desks[FIRST].client # c
            /\ desks[BESIDE].client = c
            /\ desks' = D
            /\ seats' = SeatsBesideEnded
            /\ ListBesideEnded
         \/ /\ DeskOf(c) = {}
            /\ UNCHANGED <<desks, seats, displays>>
  /\ UNCHANGED <<outputs, done, chosen>>

(* select_output, for the client on the desktop alone.  One that changes   *)
(* nothing is answered with the list as it is.                             *)
SelectOutput ==
  /\ Received("SelectOutput")
  /\ LET c == Head(commands).client
         o == Head(commands).output
         moves == desks[FIRST].client = c /\ o \in done /\ desks[FIRST].selected # o
     IN  \/ /\ moves
            /\ desks' = Shared(FIRST, o, outputs)
            /\ seats' = SeatsShared(FIRST, o)
            /\ displays' = Listing(desks', outputs, done)
            /\ chosen' = TRUE
         \/ /\ ~moves
            /\ displays' = IF DeskOf(c) # {} THEN Listing(desks, outputs, done)
                                             ELSE displays
            /\ UNCHANGED <<desks, seats, chosen>>
  /\ UNCHANGED <<outputs, done>>

Handle ==
  \/ ClientJoined
  \/ RefuseBeside
  \/ BesideJoined
  \/ ClientLeft
  \/ SelectOutput

-----------------------------------------------------------------------------
(* The compositor's outputs come and go.                                   *)

(* Mutant: an output is listed before the compositor has named it. *)
BindListed(o) ==
  /\ o \notin outputs
  /\ done' = done \cup {o}
  /\ UNCHANGED <<session, commands, outputs, desks, seats, displays, chosen>>

(* bind_output and the name: known, and not listed until its `done`.       *)
Bind(o) ==
  /\ o \notin outputs
  /\ outputs' = outputs \cup {o}
  /\ UNCHANGED <<session, commands, done, desks, seats, displays, chosen>>

(* wl_output.done, the first: adopted while nothing is shared, or where it *)
(* is the configured output and the desktop is elsewhere.                  *)
OutputDone(o) ==
  /\ o \in outputs \ done
  /\ done' = done \cup {o}
  /\ LET adopts == \/ desks[FIRST].selected = NoOutput
                   \/ o = Wanted /\ desks[FIRST].selected # o
         a      == Adoptable(done')
     IN  \/ /\ adopts
            /\ desks' = Shared(FIRST, a, outputs)
            /\ seats' = SeatsShared(FIRST, a)
            /\ chosen' = FALSE
         \/ /\ ~adopts
            /\ UNCHANGED <<desks, seats, chosen>>
  /\ displays' = Listing(desks', outputs, done')
  /\ UNCHANGED <<session, commands, outputs>>

(* GlobalRemove: the desktop goes to whatever is left, and stops where     *)
(* there is nothing; a display beside on it ends.                          *)
GlobalRemove(o) ==
  /\ o \in outputs
  /\ outputs' = outputs \ {o}
  /\ done' = done \ {o}
  /\ LET a    == Adoptable(done')
         bare == [desks EXCEPT ![FIRST] = [Stopped(@) EXCEPT !.selected = NoOutput]]
     IN  \/ /\ desks[FIRST].selected = o /\ done' # {}
            /\ desks' = Shared(FIRST, a, outputs')
            /\ seats' = SeatsShared(FIRST, a)
            /\ chosen' = FALSE
         \/ /\ desks[FIRST].selected = o /\ done' = {}
            /\ desks' = bare
            /\ chosen' = FALSE
            /\ UNCHANGED seats
         \/ /\ desks[FIRST].selected # o /\ desks[BESIDE].selected = o
            /\ desks' = BesideEnded(desks)
            /\ seats' = SeatsBesideEnded
            /\ UNCHANGED chosen
         \/ /\ o \notin {desks[FIRST].selected, desks[BESIDE].selected}
            /\ UNCHANGED <<desks, seats, chosen>>
  /\ displays' = Listing(desks', outputs', done')
  /\ UNCHANGED <<session, commands>>

-----------------------------------------------------------------------------
(* The capture of a desk, as the compositor's events and the timer move it *)
(* on.                                                                     *)

Capture(d, k) ==
  /\ desks' = [desks EXCEPT ![d] = k]
  /\ UNCHANGED <<session, commands, outputs, done, seats, displays, chosen>>

(* Mutant: only a change is ever asked for. *)
BufferDoneOnDamage(d) ==
  /\ desks[d].frame.step = "asked"
  /\ Capture(d, [desks[d] EXCEPT !.frame.step = "damage"])

(* Everything is asked for while the framebuffer holds no pixels, and only *)
(* the next change otherwise.                                              *)
BufferDone(d) ==
  /\ desks[d].frame.step = "asked"
  /\ Capture(d, [desks[d] EXCEPT !.frame.step =
                   IF desks[d].picture = Blank THEN "whole" ELSE "damage"])

(* Ready: the frame is copied in, and the next asked for at the pace.      *)
FrameReady(d) ==
  /\ desks[d].frame.step \in {"whole", "damage"}
  /\ Capture(d, [desks[d] EXCEPT !.frame   = NoFrame,
                                 !.picture = desks[d].frame.of,
                                 !.timer   = TRUE])

(* Mutant: a failed frame is not asked for again. *)
CaptureGivesUp(d) ==
  /\ desks[d].frame # NoFrame
  /\ Capture(d, [desks[d] EXCEPT !.frame = NoFrame])

CaptureFailed(d) ==
  /\ desks[d].frame # NoFrame
  /\ Capture(d, [desks[d] EXCEPT !.frame = NoFrame, !.timer = TRUE])

CaptureTimer(d) ==
  /\ desks[d].timer
  /\ Capture(d, Started([desks[d] EXCEPT !.timer = FALSE], outputs))

-----------------------------------------------------------------------------
Next ==
  \/ \E c \in Clients : Join(c) \/ JoinBeside(c) \/ Leave(c) \/ Superseded(c)
  \/ \E c \in Clients, o \in Outputs : Ask(c, o)
  \/ Handle
  \/ \E o \in Outputs : Bind(o) \/ OutputDone(o) \/ GlobalRemove(o)
  \/ \E d \in Desk : BufferDone(d) \/ FrameReady(d) \/ CaptureFailed(d) \/ CaptureTimer(d)

Spec == Init /\ [][Next]_vars

(* The compositor thread's loop, the timers and the sessions' tasks run.   *)
(* The compositor does not fail every frame it is asked for, and delivers  *)
(* one it was asked for outright; it owes nothing for one that waits for   *)
(* its output to change.  Clients, and outputs, owe nothing at all.        *)
Fairness ==
  /\ WF_vars(Handle)
  /\ \A c \in Clients : WF_vars(Superseded(c))
  /\ \A d \in Desk : /\ WF_vars(CaptureTimer(d))
                     /\ SF_vars(BufferDone(d))
                     /\ SF_vars(desks[d].frame.step = "whole" /\ FrameReady(d))

FairSpec == Spec /\ Fairness

-----------------------------------------------------------------------------
(* Properties.                                                             *)

(* The watch says who is on the two desks, whoever came and went in        *)
(* between: input is taken from those the sessions take to be on them.     *)
SeatsTellDesks ==
  /\ seats.holder = desks[FIRST].client
  /\ seats.beside = desks[BESIDE].client

(* A display beside is the display of the client on the desktop: it does   *)
(* not outlive that client's stay, and one opened beside an earlier client *)
(* does not come to be beside this one.                                    *)
BesideIsTheHolders ==
  desks[BESIDE].client # Nobody =>
    /\ desks[FIRST].client # Nobody
    /\ desks[FIRST].client < desks[BESIDE].client

(* An output is on one desk at a time, whatever the order in which clients *)
(* select, join beside, and outputs come and go.                           *)
OutputOnOneDesk ==
  desks[FIRST].selected # NoOutput => desks[FIRST].selected # desks[BESIDE].selected

(* What a framebuffer shows, and what is being captured into it, is the    *)
(* output its desk shares; but with no output left at all the desktop      *)
(* keeps the last picture.                                                 *)
PictureIsOfItsOutput ==
  \A d \in Desk :
    /\ desks[d].picture # Blank =>
         \/ desks[d].picture = desks[d].selected
         \/ d = FIRST /\ done = {}
    /\ desks[d].frame # NoFrame => desks[d].frame.of = desks[d].selected

(* While a client is on a desk whose output exists, a frame is asked for   *)
(* or about to be; nobody is captured for otherwise; and a blank           *)
(* framebuffer does not wait for an idle output to change.                 *)
CaptureAlive ==
  \A d \in Desk :
    LET watched == desks[d].client # Nobody /\ desks[d].selected \in outputs
        running == desks[d].frame # NoFrame \/ desks[d].timer
    IN  /\ watched <=> running
        /\ desks[d].picture = Blank => desks[d].frame.step # "damage"

(* The desktop is on an output whenever there is one to be on, and not on  *)
(* another than the configured one unless a client chose that.             *)
DesktopHasItsOutput ==
  /\ done # {} => desks[FIRST].selected \in done
  /\ Wanted \in done /\ ~chosen => desks[FIRST].selected = Wanted

(* What the sessions list is what there is: outputs and active ids.        *)
ListingIsCurrent == displays = Listing(desks, outputs, done)

(* A connection beside that was ended or refused stays so, and is never    *)
(* seated afterwards: a session that reads the watch late misses nothing.  *)
BesideVerdictStands ==
  [][\A c \in Clients : seats.besideEnded >= c =>
       /\ seats'.besideEnded >= c
       /\ seats'.beside = c => seats.beside = c]_vars

(* The seats, as the sessions and the state socket read them, follow the   *)
(* abstract Desktop: a takeover is one step, a display beside goes with    *)
(* its client in that same step, and no connection comes back.             *)
Pending(c) == \E i \in DOMAIN commands :
  /\ commands[i].client = c
  /\ commands[i].type \in {"ClientJoined", "BesideJoined"}

Spent == {c \in Clients : session[c] # "connecting" /\ ~Pending(c)}

Promise == INSTANCE Desktop WITH holder <- seats.holder,
                                 beside <- seats.beside,
                                 spent  <- Spent

FollowsDesktop == Promise!Spec

(* A client on a desk with an output is sent pixels of some output: the    *)
(* framebuffer does not stay blank under it.                               *)
Waits(d) == /\ desks[d].client # Nobody
            /\ desks[d].selected \in outputs
            /\ desks[d].picture = Blank
BlankIsPainted == \A d \in Desk : Waits(d) ~> ~Waits(d)

(* A connection that asks to be beside is seated or ended.                 *)
BesideIsAnswered ==
  \A c \in Clients :
    session[c] = "beside" ~> seats.beside = c \/ session[c] = "gone"

(* The channel has brought the join of this connection.                    *)
Heard(c) ==
  /\ session[c] = "first"
  /\ \A i \in DOMAIN commands :
       commands[i] # [type |-> "ClientJoined", client |-> c]

(* docs/architecture.md, "One session at a time": a connection that        *)
(* finishes the handshake takes the desktop, "and the connection of the    *)
(* client that held it is closed": whoever is not on the desktop any more  *)
(* can tell so from the watch.                                             *)
OustedIsTold ==
  \A c \in Clients :
    Heard(c) /\ desks[FIRST].client \notin {c, Nobody} => Told(c)
=============================================================================
