---------------------------- MODULE VirtualDisplays ----------------------------
(***************************************************************************)
(* A client's virtual displays: as many headless outputs as the client on  *)
(* the desktop asks for, made and unplugged one at a time through sway's   *)
(* IPC (src/sway.rs, src/compositor.rs).                                   *)
(*                                                                         *)
(* A call of the IPC is answered before the compositor thread goes on;     *)
(* what it did arrives on the Wayland connection, in order, later.  sway   *)
(* is external: an output is its number, and numbers only go up.  Somebody *)
(* else may unplug an output, and sway may refuse.  Outputs that are not   *)
(* headless are not in it, nor the display beside.                         *)
(***************************************************************************)
EXTENDS Integers, Sequences, FiniteSets

CONSTANTS
  MOST,        \* The most virtual displays a client may ask for.
  Preferred,   \* The configured output's number, or 0.
  MaxMade      \* Bound: the highest number of an output: sway refuses more.

ASSUME DisplaysAssumption ==
  MOST \in Nat \ {0} /\ Preferred \in Nat /\ MaxMade \in Nat \ {0}

VARIABLES
  plugged,   \* The compositor's outputs.
  made,      \* The highest number given out.
  news,      \* Wayland events not read yet.
  here,      \* The outputs the daemon has, whose properties have arrived.
  shared,    \* The output the desktop is on, or 0.
  displays,  \* The daemon's VirtualDisplays.
  lost       \* History: an output made for the client went before it was here.

displaysVars == <<plugged, made, news, here, shared, displays, lost>>

NotCreating == [on |-> FALSE, before |-> {}]

\* wanted is 0 for nothing asked, unplugging for no unplug out.
VirtualDisplaysType ==
  [wanted     : 0 .. MOST,
   creating   : [on : BOOLEAN, before : SUBSET (1 .. MaxMade)],
   unplugging : 0 .. MaxMade]

DisplaysInit ==
  /\ plugged = {1} /\ made = 1 /\ news = <<>>
  /\ here = {1} /\ shared = 1
  /\ displays = [wanted |-> 0, creating |-> NotCreating, unplugging |-> 0]
  /\ lost = FALSE

Gone(n)   == [event |-> "gone", output |-> n]
Global(n) == [event |-> "global", output |-> n]
Done(n)   == [event |-> "done", output |-> n]

-----------------------------------------------------------------------------
(* Mutant: a made output has landed as soon as the count is another.       *)
LandedByCount(v, H) ==
  [v EXCEPT !.creating = IF @.on /\ Cardinality(H) # Cardinality(@.before)
                         THEN NotCreating ELSE @,
            !.unplugging = IF @ \notin H THEN 0 ELSE @]

\* VirtualDisplays::next, what has landed: a made output when one is here that
\* was not, an unplug when its output is not.
Landed(v, H) ==
  [v EXCEPT !.creating = IF @.on /\ H \ @.before # {} THEN NotCreating ELSE @,
            !.unplugging = IF @ \notin H THEN 0 ELSE @]

InFlight(v) == v.creating.on \/ v.unplugging # 0

\* step: of the outputs the desktop is not on, the latest made goes first, the
\* configured one last.
Candidates(H, s) == H \ {s}

Unpluggable(H, s) ==
  LET made_ones == Candidates(H, s) \ {Preferred}
      among == IF made_ones # {} THEN made_ones ELSE Candidates(H, s)
  IN {n \in among : \A m \in among : m <= n}

\* Compositor::reconcile_virtual_displays, over what is here and shared then,
\* with the events still to be read: the one step there is, asked of sway,
\* which may refuse it.
Reconciled(v, H, s, queue) ==
  LET w == Landed(v, H)
      asks == w.wanted # 0 /\ ~InFlight(w)
  IN \/ /\ \/ ~asks
           \/ Cardinality(H) = w.wanted
           \/ Cardinality(H) > w.wanted /\ Unpluggable(H, s) = {}
        /\ displays' = w /\ news' = queue /\ UNCHANGED <<plugged, made, lost>>
     \/ /\ asks /\ Cardinality(H) < w.wanted /\ made < MaxMade
        /\ displays' = [w EXCEPT !.creating = [on |-> TRUE, before |-> H]]
        /\ made' = made + 1
        /\ plugged' = plugged \cup {made + 1}
        /\ news' = Append(queue, Global(made + 1))
        /\ UNCHANGED lost
     \/ /\ asks /\ Cardinality(H) > w.wanted
        /\ \E n \in Unpluggable(H, s) \cap plugged :
             /\ displays' = [w EXCEPT !.unplugging = n]
             /\ plugged' = plugged \ {n}
             /\ news' = Append(queue, Gone(n))
             /\ lost' = (lost \/ (w.creating.on /\ n \notin w.creating.before))
        /\ UNCHANGED made
     \/ /\ asks
        /\ Cardinality(H) < w.wanted
             \/ (Cardinality(H) > w.wanted /\ Unpluggable(H, s) # {})
        /\ displays' = [w EXCEPT !.wanted = 0]
        /\ news' = queue /\ UNCHANGED <<plugged, made, lost>>

\* Command::VirtualDisplays of the client on the desktop.
Want(n) ==
  /\ IF n = 0 \/ n > MOST
     THEN UNCHANGED <<plugged, made, news, displays, lost>>
     ELSE Reconciled([displays EXCEPT !.wanted = n], here, shared, news)
  /\ UNCHANGED <<here, shared>>

\* The client leaves, or is taken over from: the outputs stand as they are.
ClientGoes ==
  /\ displays' = [displays EXCEPT !.wanted = 0]
  /\ UNCHANGED <<plugged, made, news, here, shared, lost>>

\* SelectOutput of one that is listed.
Select(n) ==
  /\ n \in here
  /\ shared' = n
  /\ UNCHANGED <<plugged, made, news, here, displays, lost>>

\* adopt_output: the configured one if it is here, otherwise the first listed.
Adopted(H) ==
  IF H = {} THEN 0
  ELSE IF Preferred \in H THEN Preferred
  ELSE CHOOSE n \in H : \A m \in H : n <= m

\* The registry announces an output, which is bound; its properties follow if
\* the compositor still has it.
GlobalRead ==
  /\ news # <<>> /\ news[1].event = "global"
  /\ news' = IF news[1].output \in plugged
             THEN Append(Tail(news), Done(news[1].output)) ELSE Tail(news)
  /\ UNCHANGED <<plugged, made, here, shared, displays, lost>>

\* wl_output's `done`: listed, perhaps adopted, and the next step taken.
DoneRead ==
  /\ news # <<>> /\ news[1].event = "done"
  /\ here' = here \cup {news[1].output}
  /\ shared' = IF shared = 0 \/ (news[1].output = Preferred /\ Preferred \notin here)
               THEN Adopted(here') ELSE shared
  /\ Reconciled(displays, here', shared', Tail(news))

(* Mutant: an output that went is not followed by the next step.           *)
GoneReadAlone ==
  /\ news # <<>> /\ news[1].event = "gone"
  /\ here' = here \ {news[1].output}
  /\ shared' = IF shared = news[1].output THEN Adopted(here') ELSE shared
  /\ news' = Tail(news)
  /\ UNCHANGED <<plugged, made, displays, lost>>

\* The registry takes an output back.
GoneRead ==
  /\ news # <<>> /\ news[1].event = "gone"
  /\ here' = here \ {news[1].output}
  /\ shared' = IF shared = news[1].output THEN Adopted(here') ELSE shared
  /\ Reconciled(displays, here', shared', Tail(news))

News == GlobalRead \/ DoneRead \/ GoneRead

\* Somebody else unplugs an output.
OthersUnplug(n) ==
  /\ n \in plugged
  /\ plugged' = plugged \ {n}
  /\ news' = Append(news, Gone(n))
  /\ lost' = (lost \/ (displays.creating.on /\ n \notin displays.creating.before
                       /\ n \notin here))
  /\ UNCHANGED <<made, here, shared, displays>>

DisplaysNext ==
  \/ \E n \in 0 .. MOST + 1 : Want(n)
  \/ ClientGoes
  \/ \E n \in 1 .. MaxMade : Select(n) \/ OthersUnplug(n)
  \/ News

DisplaysSpec == DisplaysInit /\ [][DisplaysNext]_displaysVars

\* The compositor thread reads what arrives.
DisplaysFairSpec == DisplaysSpec /\ WF_displaysVars(News)

-----------------------------------------------------------------------------
\* A made output is waited for until it is here, not until the count changes,
\* so the daemon never asks for one more than its client wants: somebody else
\* may unplug one meanwhile (VirtualDisplays::creating).
NeverOneTooMany ==
  [][made' > made => Cardinality(plugged') <= displays'.wanted]_displaysVars

\* As many as the client wants there will be, if it does not want others then
\* and none that was made for it is lost: every step is followed by the event
\* that takes the next one (reconcile_virtual_displays).
WantedIsReached ==
  \A n \in 1 .. MOST :
    (<>[](displays.wanted = n /\ ~lost)) => <>[](Cardinality(plugged) = n)
=============================================================================
