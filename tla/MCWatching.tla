------------------------------ MODULE MCWatching ------------------------------
(* Instances of Watching and of VirtualDisplays small enough for TLC.  The two *)
(* share no state, so each behaviour is of one of them.                        *)
EXTENDS Watching, VirtualDisplays

VARIABLE part   \* The one that runs.

watchedVars == <<watchingVars, displaysVars, part>>

WatchedInit ==
  /\ WatchingInit /\ DisplaysInit /\ part \in {"watching", "displays"}
  /\ part # "watching" => watcher.given = {"held"}

WatchedNext ==
  \/ part = "watching" /\ WatchingNext /\ UNCHANGED <<displaysVars, part>>
  \/ part = "displays" /\ DisplaysNext /\ UNCHANGED <<watchingVars, part>>

On(p, A) == part = p /\ A

WatchedSpec ==
  /\ WatchedInit /\ [][WatchedNext]_watchedVars
  /\ \A p \in Daemons : WF_watchingVars(On("watching", Clear(p) \/ Bind(p) \/ Known(p)))
  /\ WF_watchingVars(On("watching", Tell))
  /\ WF_watchingVars(On("watching", Connect \/ ReadLine \/ StreamEnds \/ Retry))
  /\ WF_watchingVars(On("watching",
                        WatcherLooks \/ WatcherWakes \/ WatchedWhileRunning \/ Freed))
  /\ WF_watchingVars(On("watching", WaitPasses))
  /\ WF_watchingVars(On("watching", WaitIsOver))
  /\ WF_watchingVars(On("watching", CommandEnds))
  /\ WF_displaysVars(On("displays", News))
=============================================================================
