------------------------------- MODULE Watching -------------------------------
(***************************************************************************)
(* Whether the desktop is held, told on the daemon's state socket          *)
(* (src/state.rs), and the watcher, a process of its own that follows it   *)
(* and runs a command for a desktop that is held and one for a desktop     *)
(* that is free (src/watch.rs).                                            *)
(*                                                                         *)
(* Daemons start, stop, and are killed where they stand; a start is        *)
(* several steps, so two may overlap.  The path of the socket leads to the *)
(* file of the daemon that made it last, or to none, and a file outlives a *)
(* daemon that was killed.  One watcher, whose connection carries lines in *)
(* order.  Time is only whether the wait since the desktop was left is     *)
(* over, and that a command ends or is killed.                             *)
(***************************************************************************)
EXTENDS Integers, Sequences, FiniteSets

CONSTANTS
  Daemons,    \* The daemons that ever run, in the order they start.
  MaxLines    \* Bound: the lines a connection holds that are not read yet.

ASSUME WatchingAssumption ==
  Daemons \subseteq Nat \ {0} /\ MaxLines \in Nat \ {0}

NoFile == 0

VARIABLES
  life,      \* How far each daemon is: see Life.
  path,      \* Whose socket file the path leads to.
  mine,      \* The file each daemon takes for its own (Bound::file).
  holder,    \* Whether a client is on each daemon's desktop.
  overlap,   \* History: two daemons were starting at once.
  follower,  \* The watcher's connection: the daemon, lines unread, last told.
  said,      \* What the watcher was told, and whether it is news to its loop.
  watcher    \* The watcher's loop; ran is the last command to be run.

watchingVars == <<life, path, mine, holder, overlap, follower, said, watcher>>

Life     == {"new", "probed", "cleared", "bound", "listening", "gone"}
Starting == {"probed", "cleared", "bound"}
Standing == {"unknown", "held", "free"}

WatchingInit ==
  /\ life = [p \in Daemons |-> "new"]
  /\ path = NoFile
  /\ mine = [p \in Daemons |-> NoFile]
  /\ holder = [p \in Daemons |-> FALSE]
  /\ overlap = FALSE
  /\ follower = [phase |-> "trying", to |-> NoFile, lines |-> <<>>, told |-> "unknown"]
  /\ said = [now |-> "unknown", fresh |-> FALSE]
  /\ \E given \in SUBSET {"held", "free"} \ {{}} :
       watcher = [phase |-> "look", given |-> given, established |-> "unknown",
                  vacant |-> "no", running |-> "unknown", ran |-> "unknown"]

watcherVars == <<follower, said, watcher>>

Listening(p) == p \in Daemons /\ life[p] \in {"bound", "listening"}

-----------------------------------------------------------------------------
(* A daemon's start: bind().                                               *)

Becomes(p, l) ==
  /\ life' = [life EXCEPT ![p] = l]
  /\ overlap' = (overlap \/ (l \in Starting /\ \E q \in Daemons \ {p} : life[q] \in Starting))

(* Mutant: what is at the path is not tried first.                         *)
ProbeNothing(p) ==
  /\ life[p] = "new" /\ \A q \in Daemons : q < p => life[q] # "new"
  /\ Becomes(p, "probed")
  /\ UNCHANGED <<path, mine, holder, watcherVars>>

\* Nothing may answer on the socket there is.
Probe(p) ==
  /\ life[p] = "new" /\ \A q \in Daemons : q < p => life[q] # "new"
  /\ Becomes(p, IF Listening(path) THEN "gone" ELSE "probed")
  /\ UNCHANGED <<path, mine, holder, watcherVars>>

\* The file a daemon left behind is removed.
Clear(p) ==
  /\ life[p] = "probed"
  /\ path' = NoFile
  /\ Becomes(p, "cleared")
  /\ UNCHANGED <<mine, holder, watcherVars>>

\* The socket is made, unless there is a file again.
Bind(p) ==
  /\ life[p] = "cleared"
  /\ IF path = NoFile THEN path' = p /\ Becomes(p, "bound")
     ELSE UNCHANGED path /\ Becomes(p, "gone")
  /\ UNCHANGED <<mine, holder, watcherVars>>

\* Its file is read back: whatever the path leads to then.
Known(p) ==
  /\ life[p] = "bound"
  /\ mine' = [mine EXCEPT ![p] = path]
  /\ Becomes(p, IF path = NoFile THEN "gone" ELSE "listening")
  /\ UNCHANGED <<path, holder, watcherVars>>

\* A client joins, or the one there leaves with nobody after it.
HolderChanges(p) ==
  /\ life[p] = "listening"
  /\ holder' = [holder EXCEPT ![p] = ~@]
  /\ UNCHANGED <<life, path, mine, overlap, watcherVars>>

\* Bound's drop: the file goes with the daemon if it is the daemon's still.
Stop(p) ==
  /\ life[p] = "listening"
  /\ Becomes(p, "gone")
  /\ path' = IF path = mine[p] THEN NoFile ELSE path
  /\ UNCHANGED <<mine, holder, watcherVars>>

\* Killed where it stands, at any point.
Kill(p) ==
  /\ life[p] \notin {"new", "gone"}
  /\ Becomes(p, "gone")
  /\ UNCHANGED <<path, mine, holder, watcherVars>>

-----------------------------------------------------------------------------
daemonVars == <<life, path, mine, holder, overlap>>

StandingOf(b) == IF b THEN "held" ELSE "free"

\* tell: the follower is told where the desktop stands, and again when that
\* changes; a takeover is not a change.
Tell ==
  /\ follower.to # NoFile /\ life[follower.to] = "listening"
  /\ Len(follower.lines) < MaxLines
  /\ follower.told # StandingOf(holder[follower.to])
  /\ LET now == StandingOf(holder[follower.to])
     IN follower' = [follower EXCEPT !.told = now, !.lines = Append(@, now)]
  /\ UNCHANGED <<daemonVars, said, watcher>>

\* send_if_modified.
Set(v) ==
  said' = IF said.now = v THEN said ELSE [now |-> v, fresh |-> TRUE]

\* follow: a daemon that cannot be reached holds nothing.
Connect ==
  /\ follower.phase = "trying"
  /\ IF Listening(path)
     THEN /\ follower' = [phase |-> "reading", to |-> path, lines |-> <<>>,
                          told |-> "unknown"]
          /\ UNCHANGED said
     ELSE /\ follower' = [follower EXCEPT !.phase = "resting"]
          /\ Set("free")
  /\ UNCHANGED <<daemonVars, watcher>>

ReadLine ==
  /\ follower.phase = "reading" /\ follower.lines # <<>>
  /\ follower' = [follower EXCEPT !.lines = Tail(@)]
  /\ Set(follower.lines[1])
  /\ UNCHANGED <<daemonVars, watcher>>

\* The daemon is gone, however it went, and its lines are read.
StreamEnds ==
  /\ follower.phase = "reading" /\ follower.lines = <<>> /\ life[follower.to] = "gone"
  /\ follower' = [phase |-> "resting", to |-> NoFile, lines |-> <<>>, told |-> "unknown"]
  /\ Set("free")
  /\ UNCHANGED <<daemonVars, watcher>>

Retry ==
  /\ follower.phase = "resting"
  /\ follower' = [follower EXCEPT !.phase = "trying"]
  /\ UNCHANGED <<daemonVars, said, watcher>>

-----------------------------------------------------------------------------
(* The watcher's loop: run().                                              *)

\* observe: since when nobody has held the desktop.
Vacancy(v, was) ==
  IF v = "held" THEN "no"
  ELSE IF v = "free" /\ was = "no" THEN "waiting" ELSE was

Runs(w, v) ==
  [w EXCEPT !.phase = IF v \in w.given THEN "running" ELSE "look",
            !.running = IF v \in w.given THEN v ELSE "unknown",
            !.ran = IF v \in w.given THEN v ELSE @,
            !.established = IF v \in w.given THEN @ ELSE v]

WatcherStep(to) ==
  /\ watcher' = to
  /\ UNCHANGED <<daemonVars, follower>>

\* The top of the loop: a standing that is not known, or is what the last
\* command said, is waited on; a free one is waited out.
WatcherLooks ==
  /\ watcher.phase = "look"
  /\ said' = [said EXCEPT !.fresh = FALSE]
  /\ LET w == [watcher EXCEPT !.vacant = Vacancy(said.now, @)]
     IN WatcherStep(IF said.now \in {"unknown", w.established}
                    THEN [w EXCEPT !.phase = "idle"]
                    ELSE IF w.vacant # "no" THEN [w EXCEPT !.phase = "waiting"]
                    ELSE Runs(w, "held"))

\* Something changed.
WatcherWakes ==
  /\ watcher.phase \in {"idle", "waiting"} /\ said.fresh
  /\ WatcherStep([watcher EXCEPT !.phase = "look"])
  /\ UNCHANGED said

WaitPasses ==
  /\ watcher.vacant = "waiting"
  /\ WatcherStep([watcher EXCEPT !.vacant = "due"])
  /\ UNCHANGED said

(* Mutant: the wait is slept through.                                      *)
WaitSlept ==
  /\ watcher.phase = "waiting" /\ watcher.vacant = "due"
  /\ WatcherStep(Runs(watcher, "free"))
  /\ UNCHANGED said

\* The wait is over, and nothing changed meanwhile.
WaitIsOver ==
  /\ watcher.phase = "waiting" /\ watcher.vacant = "due" /\ ~said.fresh
  /\ WatcherStep(Runs(watcher, "free"))
  /\ UNCHANGED said

\* The desktop is watched while a command runs.
WatchedWhileRunning ==
  /\ watcher.phase = "running" /\ said.fresh
  /\ said' = [said EXCEPT !.fresh = FALSE]
  /\ WatcherStep([watcher EXCEPT !.vacant = Vacancy(said.now, @)])

(* Mutant: what the command said is taken from the desktop as it is then.   *)
CommandEndsAsItIs ==
  /\ watcher.phase = "running"
  /\ WatcherStep([watcher EXCEPT !.phase = "look", !.established = said.now,
                                 !.running = "unknown"])
  /\ UNCHANGED said

\* run_command: it ends, or is killed with its group when its time is over.
CommandEnds ==
  /\ watcher.phase = "running"
  /\ WatcherStep([watcher EXCEPT !.phase = "look", !.established = watcher.running,
                                 !.running = "unknown"])
  /\ UNCHANGED said

\* The watcher is stopped: a desktop it left held is freed.
StopWatcher ==
  /\ watcher.phase \in {"idle", "waiting"}
  /\ WatcherStep([watcher EXCEPT
       !.phase = IF watcher.established = "held" /\ "free" \in watcher.given
                 THEN "freeing" ELSE "stopped",
       !.ran = IF watcher.established = "held" /\ "free" \in watcher.given
               THEN "free" ELSE @])
  /\ UNCHANGED said

Freed ==
  /\ watcher.phase = "freeing"
  /\ WatcherStep([watcher EXCEPT !.phase = "stopped"])
  /\ UNCHANGED said

Watcher == \/ WatcherLooks \/ WatcherWakes \/ WaitPasses \/ WaitIsOver
           \/ WatchedWhileRunning \/ CommandEnds \/ Freed

Follower == Tell \/ Connect \/ ReadLine \/ StreamEnds \/ Retry

WatchingNext ==
  \/ \E p \in Daemons : \/ Probe(p) \/ Clear(p) \/ Bind(p) \/ Known(p)
                        \/ HolderChanges(p) \/ Stop(p) \/ Kill(p)
  \/ Follower \/ Watcher \/ StopWatcher

WatchingSpec == WatchingInit /\ [][WatchingNext]_watchingVars

\* The tasks run on, a daemon's start too, time passes, and commands end:
\* WatchedWhileRunning does not keep a command from ending.
WatchingFairSpec ==
  /\ WatchingSpec
  /\ \A p \in Daemons : WF_watchingVars(Clear(p) \/ Bind(p) \/ Known(p))
  /\ WF_watchingVars(Tell)
  /\ WF_watchingVars(Connect \/ ReadLine \/ StreamEnds \/ Retry)
  /\ WF_watchingVars(WatcherLooks \/ WatcherWakes \/ WatchedWhileRunning \/ Freed)
  /\ WF_watchingVars(WaitPasses) /\ WF_watchingVars(WaitIsOver)
  /\ WF_watchingVars(CommandEnds)

-----------------------------------------------------------------------------
\* Where the desktop really stands, while one daemon at most is there and the
\* path leads to it.
Alone  == \A p \in Daemons : Listening(p) => path = p
Really == StandingOf(\E p \in Daemons : life[p] = "listening" /\ holder[p])

\* The session ends up as the desktop is: once the desktop stays held, or
\* stays free, the last command to run is the one for that, whatever was
\* killed, restarted, left and taken before, unless the watcher is stopped.
SessionFollowsDesktop ==
  \A v \in {"held", "free"} :
    (<>[](Alone /\ Really = v /\ v \in watcher.given))
      => <>[](watcher.ran = v \/ watcher.phase \in {"freeing", "stopped"})

\* A client that comes back inside the wait runs neither command: the one for
\* a free desktop starts only when the watcher's last word is that it is free,
\* and has been for the wait.
FreeOnlyWhenFree ==
  [][(watcher'.running = "free" /\ watcher.running # "free")
       => said.now = "free" /\ watcher.vacant = "due"]_watchingVars

\* A daemon that is listening is where its followers look for it: a start
\* replaces what a daemon left behind and never a daemon, and a stop takes no
\* file but its own.  Of starts that do not overlap.
ListenersAreFound ==
  ~overlap => \A p \in Daemons : Listening(p) => path = p
=============================================================================
