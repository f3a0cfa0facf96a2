--------------------------- MODULE MCConfigurations ---------------------------
(* Instances small enough for TLC of the two ways the compositor's thread and a *)
(* session deal with each other: what clients ask of the outputs, and what a    *)
(* session is told of them.  They share no state, so each behaviour is of one.  *)
EXTENDS Configurations, Sessions

CONSTANT Parts   \* Those that run: some of Part.

Part == {"configurations", "session"}

VARIABLE part    \* The one that runs.

TwoClients == 1 .. 2
BothDesks  == Desk
FirstOnly  == {FIRST}
TwoWidths  == 1 .. 2
TwoScales  == 1 .. 2

\* A resize, a declaration that resizes, and one that does not.
ThreeAsks  == {[size |-> 2, scale |-> NoScale], [size |-> 2, scale |-> 2],
               [size |-> 1, scale |-> 2]}

\* A client of this version that lists everything, one that is told little, and one
\* of another version.
ThreeLists == {
  [version |-> "ours", cursor |-> TRUE, density |-> TRUE, outputs |-> TRUE, eds |-> TRUE],
  [version |-> "none", cursor |-> TRUE, density |-> FALSE, outputs |-> TRUE, eds |-> FALSE],
  [version |-> "other", cursor |-> TRUE, density |-> FALSE, outputs |-> TRUE, eds |-> FALSE]}

AskedInit ==
  /\ part \in Parts /\ ConfigInit /\ SessionsInit
  /\ part # "session" => thread.outputs = Outputs /\ desk.holder = 0

AskedNext ==
  \/ part = "configurations" /\ ConfigNext /\ UNCHANGED <<sessionsVars, part>>
  \/ part = "session" /\ SessionsNext /\ UNCHANGED <<configVars, part>>

AskedSpec == AskedInit /\ [][AskedNext]_<<configVars, sessionsVars, part>>
=============================================================================
