------------------------------ MODULE DaemonProofs ------------------------------
(***************************************************************************)
(* What TLAPS proves of what goes on beside the sessions.  Watching: for   *)
(* any number of daemons, starting, stopping and killed at any point, one  *)
(* that listens is where its followers look for it, and the watcher runs   *)
(* the command for a free desktop only for one that is free, and has been  *)
(* for the wait.  VirtualDisplays: no output too many is made, whoever     *)
(* unplugs one.  Clipboard: the desktop's and the client's come to hold    *)
(* one text.                                                               *)
(***************************************************************************)
EXTENDS Watching, VirtualDisplays, Clipboard, FiniteSetTheorems, TLAPS

-----------------------------------------------------------------------------
(* The daemons.  While no two start at once, nobody listens from the probe *)
(* of the one that starts until it listens itself, so that the file it     *)
(* removes is nobody's and the one it makes replaces none.                 *)

DaemonsType ==
  /\ life \in [Daemons -> Life]
  /\ path \in Daemons \cup {NoFile}
  /\ overlap \in BOOLEAN

OneStarts ==
  \A p, q \in Daemons : life[p] \in Starting /\ life[q] \in Starting => p = q

NobodyListens == \A p \in Daemons : life[p] \notin {"bound", "listening"}

DaemonsInv ==
  /\ DaemonsType
  /\ ~overlap =>
       /\ OneStarts
       /\ \A p \in Daemons : life[p] \in {"bound", "listening"} => path = p
       /\ \A p \in Daemons : life[p] \in {"probed", "cleared"} => NobodyListens

\* A daemon's life is one state or another, of those listed.
LEMMA LivesApart ==
  /\ Life = {"new", "probed", "cleared", "bound", "listening", "gone"}
  /\ Starting = {"probed", "cleared", "bound"}
  /\ NoFile \notin Daemons
BY WatchingAssumption DEF Life, Starting, NoFile

\* What a step of one daemon's life leaves of the others'.
LEMMA BecomesIs ==
  ASSUME DaemonsType, NEW p \in Daemons, NEW l \in Life, Becomes(p, l)
  PROVE  /\ life' \in [Daemons -> Life] /\ overlap' \in BOOLEAN
         /\ life'[p] = l /\ \A q \in Daemons \ {p} : life'[q] = life[q]
         /\ ~overlap' => ~overlap /\ (l \in Starting =>
                           \A q \in Daemons \ {p} : life[q] \notin Starting)
BY DEF DaemonsType, Becomes

LEMMA DaemonsInit == WatchingInit => DaemonsInv
BY DEF WatchingInit, DaemonsInv, DaemonsType, OneStarts, NobodyListens, Life, Starting

LEMMA ProbeKeeps ==
  ASSUME DaemonsInv, NEW p \in Daemons, Probe(p)
  PROVE  DaemonsInv'
<1>1. PICK l \in {"gone", "probed"} :
        /\ Becomes(p, l) /\ life[p] = "new" /\ path' = path
        /\ l = "probed" => ~Listening(path)
  BY DEF Probe
<1>2. /\ life' \in [Daemons -> Life] /\ overlap' \in BOOLEAN
      /\ life'[p] = l /\ \A q \in Daemons \ {p} : life'[q] = life[q]
      /\ ~overlap' => ~overlap /\ (l \in Starting =>
                        \A q \in Daemons \ {p} : life[q] \notin Starting)
  BY <1>1, BecomesIs, LivesApart DEF DaemonsInv
<1>3. DaemonsType'
  BY <1>1, <1>2 DEF DaemonsInv, DaemonsType
<1>4. ASSUME ~overlap'
      PROVE  /\ OneStarts'
             /\ \A q \in Daemons : life'[q] \in {"bound", "listening"} => path' = q
             /\ \A q \in Daemons : life'[q] \in {"probed", "cleared"} => NobodyListens'
  <2>1. /\ OneStarts
        /\ \A q \in Daemons : life[q] \in {"bound", "listening"} => path = q
        /\ \A q \in Daemons : life[q] \in {"probed", "cleared"} => NobodyListens
        /\ l \in Starting => \A q \in Daemons \ {p} : life[q] \notin Starting
    BY <1>2, <1>4 DEF DaemonsInv
  <2>2. OneStarts'
    BY <1>1, <1>2, <2>1, LivesApart DEF OneStarts
  <2>3. \A q \in Daemons : life'[q] \in {"bound", "listening"} => path' = q
    BY <1>1, <1>2, <2>1
  <2>4. l = "probed" => NobodyListens
    BY <1>1, <2>1 DEF NobodyListens, Listening
  <2>5. NobodyListens => NobodyListens'
    BY <1>1, <1>2 DEF NobodyListens
  <2>6. \A q \in Daemons : life'[q] \in {"probed", "cleared"} => NobodyListens'
    BY <1>1, <1>2, <2>1, <2>4, <2>5
  <2>7. QED
    BY <2>2, <2>3, <2>6
<1>5. QED
  BY <1>3, <1>4 DEF DaemonsInv

LEMMA ClearKeeps ==
  ASSUME DaemonsInv, NEW p \in Daemons, Clear(p)
  PROVE  DaemonsInv'
<1>1. Becomes(p, "cleared") /\ life[p] = "probed" /\ path' = NoFile
  BY DEF Clear
<1>2. /\ life' \in [Daemons -> Life] /\ overlap' \in BOOLEAN
      /\ life'[p] = "cleared" /\ \A q \in Daemons \ {p} : life'[q] = life[q]
      /\ ~overlap' => ~overlap
  BY <1>1, BecomesIs, LivesApart DEF DaemonsInv
<1>3. DaemonsType'
  BY <1>1, <1>2 DEF DaemonsInv, DaemonsType
<1>4. ASSUME ~overlap'
      PROVE  OneStarts' /\ NobodyListens'
  <2>1. OneStarts /\ NobodyListens
    BY <1>1, <1>2, <1>4 DEF DaemonsInv
  <2>2. OneStarts'
    BY <1>1, <1>2, <2>1, LivesApart DEF OneStarts
  <2>3. NobodyListens'
    BY <1>2, <2>1 DEF NobodyListens
  <2>4. QED
    BY <2>2, <2>3
<1>5. QED
  BY <1>3, <1>4 DEF DaemonsInv, NobodyListens

LEMMA BindKeeps ==
  ASSUME DaemonsInv, NEW p \in Daemons, Bind(p)
  PROVE  DaemonsInv'
<1>1. PICK l \in {"bound", "gone"} :
        /\ Becomes(p, l) /\ life[p] = "cleared"
        /\ l = "bound" => path' = p
        /\ l = "gone" => path' = path
  BY DEF Bind
<1>2. /\ life' \in [Daemons -> Life] /\ overlap' \in BOOLEAN
      /\ life'[p] = l /\ \A q \in Daemons \ {p} : life'[q] = life[q]
      /\ ~overlap' => ~overlap /\ (l \in Starting =>
                        \A q \in Daemons \ {p} : life[q] \notin Starting)
  BY <1>1, BecomesIs, LivesApart DEF DaemonsInv
<1>3. DaemonsType'
  BY <1>1, <1>2 DEF DaemonsInv, DaemonsType
<1>4. ASSUME ~overlap'
      PROVE  /\ OneStarts'
             /\ \A q \in Daemons : life'[q] \in {"bound", "listening"} => path' = q
             /\ \A q \in Daemons : life'[q] \in {"probed", "cleared"} => NobodyListens'
  <2>1. OneStarts /\ NobodyListens
    BY <1>1, <1>2, <1>4 DEF DaemonsInv
  <2>2. OneStarts'
    BY <1>1, <1>2, <2>1, LivesApart DEF OneStarts
  <2>3. \A q \in Daemons : life'[q] \in {"bound", "listening"} => path' = q
    BY <1>1, <1>2, <2>1 DEF NobodyListens
  <2>4. \A q \in Daemons : life'[q] \notin {"probed", "cleared"}
    BY <1>1, <1>2, <2>1, LivesApart DEF OneStarts
  <2>5. QED
    BY <2>2, <2>3, <2>4
<1>5. QED
  BY <1>3, <1>4 DEF DaemonsInv

LEMMA KnownKeeps ==
  ASSUME DaemonsInv, NEW p \in Daemons, Known(p)
  PROVE  DaemonsInv'
<1>1. PICK l \in {"listening", "gone"} :
        Becomes(p, l) /\ life[p] = "bound" /\ path' = path
  BY DEF Known
<1>2. /\ life' \in [Daemons -> Life] /\ overlap' \in BOOLEAN
      /\ life'[p] = l /\ \A q \in Daemons \ {p} : life'[q] = life[q]
      /\ ~overlap' => ~overlap
  BY <1>1, BecomesIs, LivesApart DEF DaemonsInv
<1>3. DaemonsType'
  BY <1>1, <1>2 DEF DaemonsInv, DaemonsType
<1>4. ASSUME ~overlap'
      PROVE  /\ OneStarts'
             /\ \A q \in Daemons : life'[q] \in {"bound", "listening"} => path' = q
             /\ \A q \in Daemons : life'[q] \in {"probed", "cleared"} => NobodyListens'
  <2>1. /\ OneStarts
        /\ \A q \in Daemons : life[q] \in {"bound", "listening"} => path = q
    BY <1>2, <1>4 DEF DaemonsInv
  <2>2. OneStarts'
    BY <1>1, <1>2, <2>1, LivesApart DEF OneStarts
  <2>3. \A q \in Daemons : life'[q] \in {"bound", "listening"} => path' = q
    BY <1>1, <1>2, <2>1
  <2>4. \A q \in Daemons : life'[q] \notin {"probed", "cleared"}
    BY <1>1, <1>2, <2>1, LivesApart DEF OneStarts
  <2>5. QED
    BY <2>2, <2>3, <2>4
<1>5. QED
  BY <1>3, <1>4 DEF DaemonsInv

\* One that stops takes no file but its own, and one that is killed none.
LEMMA GoneKeeps ==
  ASSUME DaemonsInv, NEW p \in Daemons, Stop(p) \/ Kill(p)
  PROVE  DaemonsInv'
<1>1. /\ Becomes(p, "gone")
      /\ path' = path \/ (path' = NoFile /\ life[p] = "listening")
  BY DEF Stop, Kill
<1>2. /\ life' \in [Daemons -> Life] /\ overlap' \in BOOLEAN
      /\ life'[p] = "gone" /\ \A q \in Daemons \ {p} : life'[q] = life[q]
      /\ ~overlap' => ~overlap
  BY <1>1, BecomesIs, LivesApart DEF DaemonsInv
<1>3. DaemonsType'
  BY <1>1, <1>2 DEF DaemonsInv, DaemonsType
<1>4. ASSUME ~overlap'
      PROVE  /\ OneStarts'
             /\ \A q \in Daemons : life'[q] \in {"bound", "listening"} => path' = q
             /\ \A q \in Daemons : life'[q] \in {"probed", "cleared"} => NobodyListens'
  <2>1. /\ OneStarts
        /\ \A q \in Daemons : life[q] \in {"bound", "listening"} => path = q
        /\ \A q \in Daemons : life[q] \in {"probed", "cleared"} => NobodyListens
    BY <1>2, <1>4 DEF DaemonsInv
  <2>2. OneStarts'
    BY <1>2, <2>1, LivesApart DEF OneStarts
  <2>3. \A q \in Daemons : life'[q] \in {"bound", "listening"} => path' = q
    BY <1>1, <1>2, <2>1
  <2>4. NobodyListens => NobodyListens'
    BY <1>2 DEF NobodyListens
  <2>5. \A q \in Daemons : life'[q] \in {"probed", "cleared"} => NobodyListens'
    BY <1>2, <2>1, <2>4
  <2>6. QED
    BY <2>2, <2>3, <2>5
<1>5. QED
  BY <1>3, <1>4 DEF DaemonsInv

LEMMA OthersKeepDaemons ==
  ASSUME DaemonsInv, UNCHANGED <<life, path, overlap>>
  PROVE  DaemonsInv'
BY DEF DaemonsInv, DaemonsType, OneStarts, NobodyListens

LEMMA DaemonsKept ==
  ASSUME DaemonsInv, [WatchingNext]_watchingVars
  PROVE  DaemonsInv'
<1>1. CASE \E p \in Daemons : Probe(p) \/ Clear(p) \/ Bind(p) \/ Known(p)
  BY <1>1, ProbeKeeps, ClearKeeps, BindKeeps, KnownKeeps
<1>2. CASE \E p \in Daemons : Stop(p) \/ Kill(p)
  BY <1>2, GoneKeeps
<1>3. CASE \E p \in Daemons : HolderChanges(p)
  BY <1>3, OthersKeepDaemons DEF HolderChanges
<1>4. CASE Follower \/ Watcher \/ StopWatcher
  BY <1>4, OthersKeepDaemons
     DEF Follower, Watcher, StopWatcher, Tell, Connect, ReadLine, StreamEnds, Retry,
         WatcherLooks, WatcherWakes, WaitPasses, WaitIsOver, WatchedWhileRunning,
         CommandEnds, Freed, WatcherStep, daemonVars
<1>5. CASE UNCHANGED watchingVars
  BY <1>5, OthersKeepDaemons DEF watchingVars
<1>6. QED
  BY <1>1, <1>2, <1>3, <1>4, <1>5 DEF WatchingNext

\* A daemon that listens is where its followers look for it, whatever was
\* killed, left behind and started again, as long as no two starts overlap
\* (bind, Bound's drop).
THEOREM FoundWhereTheyListen == WatchingSpec => []ListenersAreFound
<1>1. DaemonsInv => ListenersAreFound
  BY DEF DaemonsInv, ListenersAreFound, Listening
<1>2. QED
  BY <1>1, DaemonsInit, DaemonsKept, PTL DEF WatchingSpec
-----------------------------------------------------------------------------
(* The watcher.  A wait that has not been woken is of a desktop last heard *)
(* to be free.                                                             *)

Lines    == Seq({"held", "free"})
Phases   == {"look", "idle", "waiting", "running", "freeing", "stopped"}
Vacant   == {"no", "waiting", "due"}

FollowerType == [phase : {"trying", "reading", "resting"}, to : Daemons \cup {NoFile},
                 lines : Lines, told : Standing]
SaidType     == [now : Standing, fresh : BOOLEAN]
LoopType     == [phase : Phases, given : SUBSET {"held", "free"}, established : Standing,
                 vacant : Vacant, running : Standing, ran : Standing]

WatcherType ==
  follower \in FollowerType /\ said \in SaidType /\ watcher \in LoopType

WaitIsFree == watcher.phase = "waiting" /\ ~said.fresh => said.now = "free"

WatcherInv == WatcherType /\ WaitIsFree

\* Lines one longer, and one shorter.
LEMMA LinesAre ==
  /\ <<>> \in Lines
  /\ \A s \in Lines, v \in {"held", "free"} : Append(s, v) \in Lines
  /\ \A s \in Lines : s # <<>> => Tail(s) \in Lines /\ s[1] \in {"held", "free"}
<1>1. ASSUME NEW S
      PROVE  /\ <<>> \in Seq(S)
             /\ \A s \in Seq(S), v \in S : Append(s, v) \in Seq(S)
             /\ \A s \in Seq(S) : s # <<>> => Tail(s) \in Seq(S) /\ s[1] \in S
  <2>1. <<>> \in Seq(S)
    OBVIOUS
  <2>2. \A s \in Seq(S), v \in S : Append(s, v) \in Seq(S)
    OBVIOUS
  <2>3. \A s \in Seq(S) : s # <<>> => Tail(s) \in Seq(S) /\ s[1] \in S
    OBVIOUS
  <2>4. QED
    BY <2>1, <2>2, <2>3
<1>2. QED
  BY <1>1, Zenon DEF Lines

\* send_if_modified: what is news is marked so.
LEMMA SetIs ==
  ASSUME NEW s \in SaidType, said = s,
         NEW v \in {"held", "free"}, Set(v)
  PROVE  /\ said' \in SaidType
         /\ said' = said \/ said'.fresh
BY DEF Set, Standing, SaidType

LEMMA WatcherInit == WatchingInit => WatcherInv
<1> SUFFICES ASSUME WatchingInit
             PROVE  WatcherInv
  OBVIOUS
<1>1. PICK none : none = <<>> /\ none \in Lines
  BY LinesAre
<1>2. follower = [phase |-> "trying", to |-> NoFile, lines |-> none, told |-> "unknown"]
  BY <1>1 DEF WatchingInit
<1>3. follower \in FollowerType
  BY <1>1, <1>2 DEF Standing, FollowerType
<1>4. said \in SaidType
  BY DEF WatchingInit, Standing, SaidType
<1>5. PICK given \in SUBSET {"held", "free"} :
        watcher = [phase |-> "look", given |-> given, established |-> "unknown",
                   vacant |-> "no", running |-> "unknown", ran |-> "unknown"]
  BY DEF WatchingInit
<1>6. /\ watcher \in LoopType
      /\ watcher.phase = "look"
  BY <1>5 DEF Phases, Vacant, Standing, LoopType
<1>7. QED
  BY <1>3, <1>4, <1>6 DEF WatcherInv, WatcherType, WaitIsFree

\* What the follower hears is told, and wakes whoever waits.
LEMMA FollowerKeeps ==
  ASSUME WatcherInv, Follower, NEW f, f = follower, NEW s, s = said
  PROVE  WatcherInv' /\ watcher' = watcher
<1>1. /\ f \in FollowerType
      /\ s \in SaidType
      /\ f.lines \in Lines
  BY DEF WatcherInv, WatcherType, FollowerType
<1>2. watcher' = watcher
  BY DEF Follower, Tell, Connect, ReadLine, StreamEnds, Retry, daemonVars
<1>3. ASSUME /\ follower' \in FollowerType
             /\ said' \in SaidType
             /\ said' = said \/ said'.fresh
      PROVE  WatcherInv'
  BY <1>2, <1>3 DEF WatcherInv, WatcherType, WaitIsFree
<1>4. CASE Tell
  <2>1. PICK now, lines :
          /\ now = StandingOf(holder[follower.to]) /\ lines = Append(f.lines, now)
          /\ follower' = [f EXCEPT !.told = now, !.lines = lines]
    BY <1>4 DEF Tell
  <2>2. now \in {"held", "free"} /\ now \in Standing
    BY <2>1 DEF StandingOf, Standing
  <2>3. lines \in Lines
    BY <1>1, <2>1, <2>2, LinesAre
  <2>4. said' = said
    BY <1>4 DEF Tell
  <2>5. follower' \in FollowerType
    BY <1>1, <2>1, <2>2, <2>3 DEF FollowerType
  <2>6. QED
    BY <1>1, <1>2, <1>3, <2>4, <2>5
<1>5. CASE Connect
  <2>1. PICK none : none = <<>> /\ none \in Lines
    BY LinesAre
  <2>2. CASE Listening(path)
    <3>1. /\ follower' = [phase |-> "reading", to |-> path, lines |-> none,
                          told |-> "unknown"]
          /\ path \in Daemons /\ said' = said
      BY <1>5, <2>1, <2>2 DEF Connect, Listening
    <3>2. follower' \in FollowerType
      BY <2>1, <3>1 DEF Standing, FollowerType
    <3>3. QED
      BY <1>1, <1>2, <1>3, <3>1, <3>2
  <2>3. CASE ~Listening(path)
    <3>1. follower' = [f EXCEPT !.phase = "resting"] /\ Set("free")
      BY <1>5, <2>3 DEF Connect
    <3>2. follower' \in FollowerType
      BY <1>1, <3>1 DEF FollowerType
    <3>3. QED
      BY <1>1, <1>2, <1>3, <3>1, <3>2, SetIs
  <2>4. QED
    BY <2>2, <2>3
<1>6. CASE ReadLine
  <2>1. PICK v, rest :
          /\ v = f.lines[1] /\ rest = Tail(f.lines) /\ f.lines # <<>>
          /\ follower' = [f EXCEPT !.lines = rest] /\ Set(v)
    BY <1>6 DEF ReadLine
  <2>2. v \in {"held", "free"} /\ rest \in Lines
    BY <1>1, <2>1, LinesAre
  <2>3. follower' \in FollowerType
    BY <1>1, <2>1, <2>2 DEF FollowerType
  <2>4. QED
    BY <1>1, <1>2, <1>3, <2>1, <2>2, <2>3, SetIs
<1>7. CASE StreamEnds
  <2>1. PICK none : none = <<>> /\ none \in Lines
    BY LinesAre
  <2>2. follower' = [phase |-> "resting", to |-> NoFile, lines |-> none,
                     told |-> "unknown"] /\ Set("free")
    BY <1>7, <2>1 DEF StreamEnds
  <2>3. follower' \in FollowerType
    BY <2>1, <2>2 DEF Standing, FollowerType
  <2>4. QED
    BY <1>1, <1>2, <1>3, <2>2, <2>3, SetIs
<1>8. CASE Retry
  <2>1. follower' = [f EXCEPT !.phase = "trying"] /\ said' = said
    BY <1>8 DEF Retry
  <2>2. follower' \in FollowerType
    BY <1>1, <2>1 DEF FollowerType
  <2>3. QED
    BY <1>1, <1>2, <1>3, <2>1, <2>2
<1>9. QED
  BY <1>2, <1>4, <1>5, <1>6, <1>7, <1>8 DEF Follower

\* A command runs, if it was given.
LEMMA RunsIs ==
  ASSUME NEW x \in LoopType, NEW v \in {"held", "free"}, NEW R, R = Runs(x, v)
  PROVE  R \in LoopType /\ R.phase \in {"running", "look"} /\ R.running \in {v, "unknown"}
<1>1. v \in Standing /\ "unknown" \in Standing /\ "running" \in Phases /\ "look" \in Phases
  BY DEF Standing, Phases
<1>2. CASE v \in x.given
  <2>1. R = [x EXCEPT !.phase = "running", !.running = v, !.ran = v,
                      !.established = x.established]
    BY <1>2 DEF Runs
  <2>2. R = [[x EXCEPT !.phase = "running", !.running = v] EXCEPT !.ran = v,
                      !.established = x.established]
    BY <2>1
  <2>3. x.established \in Standing
    BY DEF LoopType
  <2>4. QED
    BY <1>1, <2>1, <2>3 DEF LoopType
<1>3. CASE ~(v \in x.given)
  <2>1. R = [x EXCEPT !.phase = "look", !.running = "unknown", !.ran = x.ran,
                      !.established = v]
    BY <1>3 DEF Runs
  <2>2. x.ran \in Standing
    BY DEF LoopType
  <2>3. QED
    BY <1>1, <2>1, <2>2 DEF LoopType
<1>4. QED
  BY <1>2, <1>3

\* The command for a free desktop starts only for one that is.
FreeStep == watcher'.running = "free" /\ watcher.running # "free"
              => said.now = "free" /\ watcher.vacant = "due"

\* The top of the loop.
LEMMA LooksKeeps ==
  ASSUME WatcherInv, WatcherLooks, NEW w, w = watcher, NEW s, s = said
  PROVE  WatcherInv' /\ FreeStep
<1>1. /\ w \in LoopType /\ s \in SaidType /\ s.now \in Standing /\ w.vacant \in Vacant
      /\ w.established \in Standing
  BY DEF WatcherInv, WatcherType, LoopType, SaidType
<1>2. PICK v, x :
        /\ v = Vacancy(s.now, w.vacant) /\ x = [w EXCEPT !.vacant = v]
        /\ watcher' = IF s.now \in {"unknown", x.established} THEN [x EXCEPT !.phase = "idle"]
                      ELSE IF x.vacant # "no" THEN [x EXCEPT !.phase = "waiting"]
                      ELSE Runs(x, "held")
  BY DEF WatcherLooks, WatcherStep
<1>3. said' = [s EXCEPT !.fresh = FALSE] /\ follower' = follower
  BY DEF WatcherLooks, WatcherStep
<1>4. said' \in SaidType /\ said'.now = s.now
  BY <1>1, <1>3 DEF SaidType
<1>5. v \in Vacant /\ (v # "no" /\ s.now # "unknown" => s.now = "free")
  BY <1>1, <1>2 DEF Vacancy, Vacant, Standing
<1>6. x \in LoopType /\ x.vacant = v /\ x.running = w.running
  BY <1>1, <1>2, <1>5 DEF LoopType
<1>7. ASSUME watcher' \in LoopType, watcher'.phase = "waiting" => s.now = "free",
             watcher'.running \in {w.running, "held", "unknown"}
      PROVE  WatcherInv' /\ FreeStep
  BY <1>3, <1>4, <1>7 DEF WatcherInv, WatcherType, WaitIsFree, FreeStep
<1>8. CASE s.now \in {"unknown", x.established}
  <2>1. watcher' = [x EXCEPT !.phase = "idle"]
    BY <1>2, <1>8
  <2>2. watcher' \in LoopType /\ watcher'.phase = "idle" /\ watcher'.running = w.running
    BY <1>6, <2>1 DEF LoopType, Phases
  <2>3. QED
    BY <1>7, <2>2
<1>9. CASE ~(s.now \in {"unknown", x.established}) /\ v # "no"
  <2>1. watcher' = [x EXCEPT !.phase = "waiting"]
    BY <1>2, <1>6, <1>9
  <2>2. watcher' \in LoopType /\ watcher'.running = w.running
    BY <1>6, <2>1 DEF LoopType, Phases
  <2>3. QED
    BY <1>5, <1>7, <1>9, <2>2
<1>10. CASE ~(s.now \in {"unknown", x.established}) /\ v = "no"
  <2>1. watcher' = Runs(x, "held")
    BY <1>2, <1>6, <1>10
  <2>2. /\ watcher' \in LoopType /\ watcher'.phase \in {"running", "look"}
        /\ watcher'.running \in {"held", "unknown"}
    BY <1>6, <2>1, RunsIs
  <2>3. QED
    BY <1>7, <2>2
<1>11. QED
  BY <1>8, <1>9, <1>10

\* The other steps of the loop.
LEMMA LoopKeeps ==
  ASSUME WatcherInv, NEW w, w = watcher, NEW s, s = said,
         \/ WatcherWakes \/ WaitPasses \/ WaitIsOver \/ WatchedWhileRunning
         \/ CommandEnds \/ Freed \/ StopWatcher
  PROVE  WatcherInv' /\ FreeStep
<1>1. /\ w \in LoopType /\ s \in SaidType /\ s.now \in Standing /\ w.vacant \in Vacant
      /\ w.established \in Standing /\ w.running \in Standing
      /\ w.phase = "waiting" /\ ~s.fresh => s.now = "free"
      /\ follower \in FollowerType
  BY DEF WatcherInv, WatcherType, WaitIsFree, LoopType, SaidType
<1>2. follower' = follower
  BY DEF WatcherWakes, WaitPasses, WaitIsOver, WatchedWhileRunning, CommandEnds, Freed,
         StopWatcher, WatcherStep
<1>3. ASSUME watcher' \in LoopType, said' \in SaidType,
             watcher'.phase = "waiting" => w.phase = "waiting" /\ said' = s,
             \/ watcher'.running \in {w.running, "held", "unknown"}
             \/ s.now = "free" /\ w.vacant = "due"
      PROVE  WatcherInv' /\ FreeStep
  BY <1>1, <1>2, <1>3 DEF WatcherInv, WatcherType, WaitIsFree, FreeStep
<1>4. CASE WatcherWakes
  <2>1. watcher' = [w EXCEPT !.phase = "look"] /\ said' = s
    BY <1>4 DEF WatcherWakes, WatcherStep
  <2>2. watcher' \in LoopType /\ watcher'.phase = "look" /\ watcher'.running = w.running
    BY <1>1, <2>1 DEF LoopType, Phases
  <2>3. QED
    BY <1>1, <1>3, <2>1, <2>2
<1>5. CASE WaitPasses
  <2>1. watcher' = [w EXCEPT !.vacant = "due"] /\ said' = s
    BY <1>5 DEF WaitPasses, WatcherStep
  <2>2. watcher' \in LoopType /\ watcher'.phase = w.phase /\ watcher'.running = w.running
    BY <1>1, <2>1 DEF LoopType, Vacant
  <2>3. QED
    BY <1>1, <1>3, <2>1, <2>2
<1>6. CASE WaitIsOver
  <2>1. /\ watcher' = Runs(w, "free") /\ said' = s
        /\ w.phase = "waiting" /\ w.vacant = "due" /\ ~s.fresh
    BY <1>6 DEF WaitIsOver, WatcherStep
  <2>2. watcher' \in LoopType /\ watcher'.phase \in {"running", "look"}
    BY <1>1, <2>1, RunsIs
  <2>3. QED
    BY <1>1, <1>3, <2>1, <2>2
<1>7. CASE WatchedWhileRunning
  <2>1. PICK v : v = Vacancy(s.now, w.vacant)
    OBVIOUS
  <2>2. /\ watcher' = [w EXCEPT !.vacant = v] /\ said' = [s EXCEPT !.fresh = FALSE]
        /\ w.phase = "running"
    BY <1>7, <2>1 DEF WatchedWhileRunning, WatcherStep
  <2>3. v \in Vacant
    BY <1>1, <2>1 DEF Vacancy, Vacant
  <2>4. watcher' \in LoopType /\ watcher'.phase = "running" /\ watcher'.running = w.running
    BY <1>1, <2>2, <2>3 DEF LoopType
  <2>5. said' \in SaidType
    BY <1>1, <2>2 DEF SaidType
  <2>6. QED
    BY <1>3, <2>4, <2>5
<1>8. CASE CommandEnds
  <2>1. PICK e : e = w.running /\ e \in Standing
    BY <1>1
  <2>2. /\ watcher' = [w EXCEPT !.phase = "look", !.established = e, !.running = "unknown"]
        /\ said' = s
    BY <1>8, <2>1 DEF CommandEnds, WatcherStep
  <2>3. watcher' \in LoopType /\ watcher'.phase = "look" /\ watcher'.running = "unknown"
    BY <1>1, <2>1, <2>2 DEF LoopType, Phases, Standing
  <2>4. QED
    BY <1>1, <1>3, <2>2, <2>3
<1>9. CASE Freed
  <2>1. watcher' = [w EXCEPT !.phase = "stopped"] /\ said' = s
    BY <1>9 DEF Freed, WatcherStep
  <2>2. watcher' \in LoopType /\ watcher'.phase = "stopped" /\ watcher'.running = w.running
    BY <1>1, <2>1 DEF LoopType, Phases
  <2>3. QED
    BY <1>1, <1>3, <2>1, <2>2
<1>10. CASE StopWatcher
  <2>1. PICK phase \in {"freeing", "stopped"}, ran \in {"free", w.ran} :
          watcher' = [w EXCEPT !.phase = phase, !.ran = ran] /\ said' = s
    BY <1>10 DEF StopWatcher, WatcherStep
  <2>2. phase \in Phases /\ ran \in Standing
    BY <1>1, <2>1 DEF Phases, Standing, LoopType
  <2>3. watcher' \in LoopType /\ watcher'.phase = phase /\ watcher'.running = w.running
    BY <1>1, <2>1, <2>2 DEF LoopType
  <2>4. QED
    BY <1>1, <1>3, <2>1, <2>3
<1>11. QED
  BY <1>4, <1>5, <1>6, <1>7, <1>8, <1>9, <1>10

LEMMA WatcherKept ==
  ASSUME WatcherInv, [WatchingNext]_watchingVars
  PROVE  WatcherInv' /\ FreeStep
<1>1. CASE UNCHANGED watcherVars
  <2>1. UNCHANGED <<follower, said, watcher>>
    BY <1>1 DEF watcherVars
  <2>2. QED
    BY <2>1 DEF WatcherInv, WatcherType, WaitIsFree, FreeStep
<1>2. CASE Follower
  BY <1>2, FollowerKeeps DEF FreeStep
<1>3. CASE Watcher \/ StopWatcher
  BY <1>3, LooksKeeps, LoopKeeps DEF Watcher
<1>4. CASE \E p \in Daemons : \/ Probe(p) \/ Clear(p) \/ Bind(p) \/ Known(p)
                              \/ HolderChanges(p) \/ Stop(p) \/ Kill(p)
  BY <1>1, <1>4 DEF Probe, Clear, Bind, Known, HolderChanges, Stop, Kill
<1>5. CASE UNCHANGED watchingVars
  BY <1>1, <1>5 DEF watchingVars, watcherVars
<1>6. QED
  BY <1>2, <1>3, <1>4, <1>5 DEF WatchingNext

\* The command for a free desktop starts only when the watcher's last word is
\* that it is free, and has been for the wait: a client that comes back inside
\* it runs neither, in whatever order the news and the timer come.
THEOREM FreeRunsWhenFree == WatchingSpec => FreeOnlyWhenFree
<1>1. WatcherInv /\ [WatchingNext]_watchingVars => WatcherInv'
  BY WatcherKept
<1>2. WatcherInv /\ [WatchingNext]_watchingVars
        => [(watcher'.running = "free" /\ watcher.running # "free")
              => said.now = "free" /\ watcher.vacant = "due"]_watchingVars
  BY WatcherKept DEF FreeStep
<1>3. QED
  BY <1>1, <1>2, WatcherInit, PTL DEF WatchingSpec, FreeOnlyWhenFree

-----------------------------------------------------------------------------
(* The virtual displays.  Where an output made stands, with P plugged, m   *)
(* the highest made, q to be read, H here and c in flight: what is plugged *)
(* is here but the one that is waited for, the last made, which one event  *)
(* at most still brings; and a number that went is not given out again.    *)

DisplayEvents == [event : {"gone", "global", "done"}, output : Nat]

DisplaysValues ==
  [wanted : Nat, creating : [on : BOOLEAN, before : SUBSET Nat], unplugging : Nat]

Brings(e) == e.event # "gone"

Accounted(P, m, q, H, c) ==
  /\ m \in Nat /\ P \subseteq 1 .. m /\ H \subseteq 1 .. m
  /\ q \in Seq(DisplayEvents)
  /\ c \in [on : BOOLEAN, before : SUBSET Nat]
  /\ P \ H \subseteq (IF c.on THEN {m} ELSE {})
  /\ c.on => m \notin c.before /\ H \ c.before \subseteq {m}
  /\ \A i \in 1 .. Len(q) :
       /\ q[i].output \in 1 .. m
       /\ ~Brings(q[i]) => q[i].output \notin P
       /\ Brings(q[i]) => /\ c.on /\ q[i].output = m /\ m \notin H
                          /\ \A j \in 1 .. Len(q) : Brings(q[j]) => i = j

DisplaysInv ==
  /\ displays \in DisplaysValues
  /\ Accounted(plugged, made, news, here, displays.creating)

LEMMA EventsAre ==
  \A n \in Nat : /\ Gone(n) \in DisplayEvents /\ ~Brings(Gone(n)) /\ Gone(n).output = n
                 /\ Global(n) \in DisplayEvents /\ Brings(Global(n)) /\ Global(n).output = n
                 /\ Done(n) \in DisplayEvents /\ Brings(Done(n)) /\ Done(n).output = n
BY DEF Gone, Global, Done, DisplayEvents, Brings

\* What a queue holds of events at its end and past its head.
LEMMA EventAdded ==
  ASSUME NEW q \in Seq(DisplayEvents), NEW e \in DisplayEvents
  PROVE  /\ Append(q, e) \in Seq(DisplayEvents)
         /\ Len(Append(q, e)) = Len(q) + 1 /\ Len(q) \in Nat
         /\ \A i \in 1 .. Len(q) : Append(q, e)[i] = q[i]
         /\ Append(q, e)[Len(q) + 1] = e
OBVIOUS

LEMMA EventRead ==
  ASSUME NEW q \in Seq(DisplayEvents), q # <<>>
  PROVE  /\ Tail(q) \in Seq(DisplayEvents) /\ q[1] \in DisplayEvents
         /\ Len(Tail(q)) = Len(q) - 1 /\ Len(q) \in Nat \ {0}
         /\ \A i \in 1 .. Len(Tail(q)) : Tail(q)[i] = q[i + 1]
OBVIOUS

\* What landed is here: nothing more is in flight of it.
LEMMA LandedAccounts ==
  ASSUME NEW P, NEW m, NEW q, NEW H, NEW v \in DisplaysValues,
         Accounted(P, m, q, H, v.creating)
  PROVE  /\ Landed(v, H) \in DisplaysValues /\ Landed(v, H).wanted = v.wanted
         /\ Accounted(P, m, q, H, Landed(v, H).creating)
<1> DEFINE w == Landed(v, H)
<1>1. /\ w \in DisplaysValues /\ w.wanted = v.wanted
      /\ w.creating = IF v.creating.on /\ H \ v.creating.before # {} THEN NotCreating
                      ELSE v.creating
  BY DEF Landed, NotCreating, DisplaysValues
<1>2. CASE v.creating.on /\ H \ v.creating.before # {}
  <2>1. m \in H  BY <1>2 DEF Accounted
  <2>2. ~NotCreating.on /\ NotCreating \in [on : BOOLEAN, before : SUBSET Nat]
    BY DEF NotCreating
  <2>. QED  BY <1>1, <1>2, <2>1, <2>2 DEF Accounted
<1>3. CASE ~(v.creating.on /\ H \ v.creating.before # {})
  BY <1>1, <1>3
<1>. QED  BY <1>1, <1>2, <1>3

\* An output is made with none in flight: one more than is here, and waited for.
LEMMA MadeAccounts ==
  ASSUME NEW P, NEW m, NEW q, NEW H, NEW c, Accounted(P, m, q, H, c), ~c.on
  PROVE  /\ Accounted(P \cup {m + 1}, m + 1, Append(q, Global(m + 1)), H,
                     [on |-> TRUE, before |-> H])
         /\ IsFiniteSet(H) /\ Cardinality(H) \in Nat
         /\ Cardinality(P \cup {m + 1}) <= Cardinality(H) + 1
<1> DEFINE e == Global(m + 1)
<1>1. /\ m \in Nat /\ m + 1 \in Nat /\ P \subseteq H /\ H \subseteq 1 .. m /\ m + 1 \notin H
      /\ q \in Seq(DisplayEvents)
  BY DEF Accounted
<1>2. e \in DisplayEvents /\ Brings(e) /\ e.output = m + 1  BY <1>1, EventsAre
<1>3. /\ Append(q, e) \in Seq(DisplayEvents)
      /\ Len(Append(q, e)) = Len(q) + 1 /\ Len(q) \in Nat
      /\ \A i \in 1 .. Len(q) : Append(q, e)[i] = q[i]
      /\ Append(q, e)[Len(q) + 1] = e
  BY <1>1, <1>2, EventAdded
<1>4. IsFiniteSet(1 .. m)  BY <1>1, FS_Interval
<1>5. IsFiniteSet(H)  BY <1>1, <1>4, FS_Subset
<1>6. /\ IsFiniteSet(H \cup {m + 1}) /\ Cardinality(H) \in Nat
      /\ Cardinality(H \cup {m + 1}) = Cardinality(H) + 1
  BY <1>1, <1>5, FS_AddElement, FS_CardinalityType
<1>7. Cardinality(P \cup {m + 1}) <= Cardinality(H) + 1
  <2>1. P \cup {m + 1} \subseteq H \cup {m + 1}  BY <1>1
  <2>. QED  BY <2>1, <1>6, FS_Subset
<1>8. PICK r : r = Append(q, e)  OBVIOUS
<1>9. \A i \in 1 .. Len(q) : ~Brings(q[i]) /\ q[i].output \in 1 .. m /\ q[i].output \notin P
  BY DEF Accounted
<1>10. \A i \in 1 .. Len(r) :
         /\ r[i].output \in 1 .. m + 1
         /\ ~Brings(r[i]) => r[i].output \notin P \cup {m + 1}
         /\ Brings(r[i]) => i = Len(q) + 1 /\ r[i].output = m + 1
  <2>1. TAKE i \in 1 .. Len(r)
  <2>2. CASE i = Len(q) + 1  BY <2>2, <1>1, <1>2, <1>3, <1>8
  <2>3. CASE i \in 1 .. Len(q)
    <3>1. r[i] = q[i]  BY <2>3, <1>3, <1>8
    <3>. QED  BY <3>1, <2>3, <1>9, <1>1
  <2>. QED  BY <2>1, <2>2, <2>3, <1>3, <1>8
<1>11. Accounted(P \cup {m + 1}, m + 1, r, H, [on |-> TRUE, before |-> H])
  BY <1>1, <1>3, <1>8, <1>10 DEF Accounted
<1>. QED  BY <1>11, <1>8, <1>5, <1>6, <1>7

\* An output is unplugged.
LEMMA UnpluggedAccounts ==
  ASSUME NEW P, NEW m, NEW q, NEW H, NEW c, Accounted(P, m, q, H, c), NEW n \in P
  PROVE  Accounted(P \ {n}, m, Append(q, Gone(n)), H, c)
<1> DEFINE e == Gone(n)
<1>1. m \in Nat /\ n \in 1 .. m /\ n \in Nat /\ q \in Seq(DisplayEvents)  BY DEF Accounted
<1>2. e \in DisplayEvents /\ ~Brings(e) /\ e.output = n  BY <1>1, EventsAre
<1>3. /\ Append(q, e) \in Seq(DisplayEvents)
      /\ Len(Append(q, e)) = Len(q) + 1 /\ Len(q) \in Nat
      /\ \A i \in 1 .. Len(q) : Append(q, e)[i] = q[i]
      /\ Append(q, e)[Len(q) + 1] = e
  BY <1>1, <1>2, EventAdded
<1>4. PICK r : r = Append(q, e)  OBVIOUS
<1>5. \A i \in 1 .. Len(r) :
        (i = Len(q) + 1 /\ r[i] = e) \/ (i \in 1 .. Len(q) /\ r[i] = q[i])
  BY <1>3, <1>4
<1>6. \A i \in 1 .. Len(r) :
        /\ r[i].output \in 1 .. m
        /\ ~Brings(r[i]) => r[i].output \notin P \ {n}
        /\ Brings(r[i]) => /\ c.on /\ r[i].output = m /\ m \notin H
                           /\ \A j \in 1 .. Len(r) : Brings(r[j]) => i = j
  <2>1. TAKE i \in 1 .. Len(r)
  <2>2. CASE i = Len(q) + 1  BY <2>2, <1>1, <1>2, <1>3, <1>4
  <2>3. CASE i \in 1 .. Len(q)
    <3>1. r[i] = q[i]  BY <2>3, <1>3, <1>4
    <3>2. \A j \in 1 .. Len(r) : Brings(r[j]) => j \in 1 .. Len(q) /\ r[j] = q[j]
      BY <1>5, <1>2
    <3>. QED  BY <3>1, <3>2, <2>3 DEF Accounted
  <2>. QED  BY <2>1, <2>2, <2>3, <1>5
<1>7. Accounted(P \ {n}, m, r, H, c)  BY <1>1, <1>3, <1>4, <1>6 DEF Accounted
<1>. QED  BY <1>7, <1>4

\* The rest of the queue, and what is here once its head is read.
LEMMA ReadAccounts ==
  ASSUME NEW P, NEW m, NEW q, NEW H, NEW c, Accounted(P, m, q, H, c), q # <<>>
  PROVE  /\ Accounted(P, m, Tail(q), H, c)
         /\ ~Brings(q[1]) => Accounted(P, m, Tail(q), H \ {q[1].output}, c)
         /\ Brings(q[1]) => Accounted(P, m, Tail(q), H \cup {q[1].output}, c)
<1>1. q \in Seq(DisplayEvents) /\ m \in Nat  BY DEF Accounted
<1>2. /\ Tail(q) \in Seq(DisplayEvents) /\ q[1] \in DisplayEvents
      /\ Len(Tail(q)) = Len(q) - 1 /\ Len(q) \in Nat \ {0}
      /\ \A i \in 1 .. Len(Tail(q)) : Tail(q)[i] = q[i + 1]
  BY <1>1, EventRead
<1>3. PICK r : r = Tail(q)  OBVIOUS
<1>4. \A i \in 1 .. Len(r) : i + 1 \in 1 .. Len(q) /\ r[i] = q[i + 1]
  BY <1>2, <1>3
<1>5. \A i \in 1 .. Len(r) :
        /\ r[i].output \in 1 .. m
        /\ ~Brings(r[i]) => r[i].output \notin P
        /\ Brings(r[i]) => /\ c.on /\ r[i].output = m /\ m \notin H /\ ~Brings(q[1])
                           /\ \A j \in 1 .. Len(r) : Brings(r[j]) => i = j
  <2>1. TAKE i \in 1 .. Len(r)
  <2>2. i + 1 \in 1 .. Len(q) /\ r[i] = q[i + 1] /\ i \in Nat /\ i + 1 # 1 /\ 1 \in 1 .. Len(q)
    BY <2>1, <1>2, <1>3, <1>4
  <2>3. r[i].output \in 1 .. m /\ (~Brings(r[i]) => r[i].output \notin P)
    BY <2>2 DEF Accounted
  <2>4. ASSUME Brings(r[i])
        PROVE  /\ c.on /\ r[i].output = m /\ m \notin H /\ ~Brings(q[1])
               /\ \A j \in 1 .. Len(r) : Brings(r[j]) => i = j
    <3>1. /\ c.on /\ r[i].output = m /\ m \notin H
          /\ \A k \in 1 .. Len(q) : Brings(q[k]) => i + 1 = k
      BY <2>2, <2>4 DEF Accounted
    <3>2. ~Brings(q[1])  BY <3>1, <2>2
    <3>3. \A j \in 1 .. Len(r) : Brings(r[j]) => i = j
      <4>1. TAKE j \in 1 .. Len(r)
      <4>2. HAVE Brings(r[j])
      <4>3. i + 1 = j + 1  BY <4>1, <4>2, <3>1, <1>4
      <4>. QED  BY <4>3, <4>1, <2>2, <1>2, <1>3
    <3>. QED  BY <3>1, <3>2, <3>3
  <2>. QED  BY <2>3, <2>4
<1>6. 1 \in 1 .. Len(q)  BY <1>2
<1>7. Accounted(P, m, r, H, c)  BY <1>1, <1>2, <1>3, <1>5 DEF Accounted
<1>8. ASSUME ~Brings(q[1]) PROVE Accounted(P, m, r, H \ {q[1].output}, c)
  <2>1. PICK o : o = q[1].output  OBVIOUS
  <2>2. o \notin P  BY <1>8, <1>6, <2>1 DEF Accounted
  <2>3. /\ P \ (H \ {o}) = P \ H /\ H \ {o} \subseteq H
        /\ (H \ {o}) \ c.before \subseteq H \ c.before
    BY <2>2
  <2>4. \A i \in 1 .. Len(r) : Brings(r[i]) => m \notin H \ {o}  BY <1>5
  <2>5. Accounted(P, m, r, H \ {o}, c)  BY <2>3, <2>4, <1>7 DEF Accounted
  <2>. QED  BY <2>1, <2>5
<1>9. ASSUME Brings(q[1]) PROVE Accounted(P, m, r, H \cup {q[1].output}, c)
  <2>1. c.on /\ q[1].output = m /\ m \in 1 .. m  BY <1>9, <1>6 DEF Accounted
  <2>. QED  BY <2>1, <1>9, <1>1, <1>2, <1>3, <1>5, <1>7 DEF Accounted
<1>. QED  BY <1>3, <1>7, <1>8, <1>9

\* An event read that brings an output is the only one that does; what follows
\* it may be its `done`.
LEMMA HeadBrings ==
  ASSUME NEW P, NEW m, NEW q, NEW H, NEW c, Accounted(P, m, q, H, c),
         q # <<>>, Brings(q[1])
  PROVE  /\ Accounted(P, m, Tail(q), H, c)
         /\ q[1].output = m /\ m \in Nat /\ c.on /\ m \notin H
         /\ \A i \in 1 .. Len(Tail(q)) : ~Brings(Tail(q)[i])
<1>1. q \in Seq(DisplayEvents) /\ m \in Nat  BY DEF Accounted
<1>2. /\ Len(Tail(q)) = Len(q) - 1 /\ Len(q) \in Nat \ {0}
      /\ \A i \in 1 .. Len(Tail(q)) : Tail(q)[i] = q[i + 1]
  BY <1>1, EventRead
<1>3. PICK r : r = Tail(q)  OBVIOUS
<1>4. 1 \in 1 .. Len(q)  BY <1>2
<1>5. /\ q[1].output = m /\ c.on /\ m \notin H
      /\ \A j \in 1 .. Len(q) : Brings(q[j]) => 1 = j
  BY <1>4 DEF Accounted
<1>6. \A i \in 1 .. Len(r) : ~Brings(r[i])
  <2>1. TAKE i \in 1 .. Len(r)
  <2>2. i + 1 \in 1 .. Len(q) /\ 1 # i + 1 /\ r[i] = q[i + 1]  BY <2>1, <1>2, <1>3
  <2>. QED  BY <2>2, <1>5
<1>. QED  BY <1>1, <1>3, <1>5, <1>6, ReadAccounts

LEMMA BroughtAccounts ==
  ASSUME NEW P, NEW m, NEW q, NEW H, NEW c, Accounted(P, m, q, H, c),
         m \in P, c.on, m \notin H, \A i \in 1 .. Len(q) : ~Brings(q[i])
  PROVE  Accounted(P, m, Append(q, Done(m)), H, c)
<1> DEFINE e == Done(m)
<1>1. m \in Nat /\ m \in 1 .. m /\ q \in Seq(DisplayEvents)  BY DEF Accounted
<1>2. e \in DisplayEvents /\ Brings(e) /\ e.output = m  BY <1>1, EventsAre
<1>3. /\ Append(q, e) \in Seq(DisplayEvents)
      /\ Len(Append(q, e)) = Len(q) + 1 /\ Len(q) \in Nat
      /\ \A i \in 1 .. Len(q) : Append(q, e)[i] = q[i]
      /\ Append(q, e)[Len(q) + 1] = e
  BY <1>1, <1>2, EventAdded
<1>4. PICK r : r = Append(q, e)  OBVIOUS
<1>5. \A i \in 1 .. Len(r) :
        (i = Len(q) + 1 /\ r[i] = e) \/ (i \in 1 .. Len(q) /\ r[i] = q[i])
  BY <1>3, <1>4
<1>6. \A i \in 1 .. Len(r) : Brings(r[i]) => i = Len(q) + 1  BY <1>5
<1>7. \A i \in 1 .. Len(r) :
        /\ r[i].output \in 1 .. m
        /\ ~Brings(r[i]) => r[i].output \notin P
        /\ Brings(r[i]) => r[i].output = m
  BY <1>1, <1>2, <1>5 DEF Accounted
<1>8. Accounted(P, m, r, H, c)  BY <1>1, <1>3, <1>4, <1>6, <1>7 DEF Accounted
<1>. QED  BY <1>8, <1>4

\* The step reconcile_virtual_displays takes, over what is here then.
LEMMA ReconciledAccounts ==
  ASSUME NEW v \in DisplaysValues, NEW H, NEW s, NEW q,
         Accounted(plugged, made, q, H, v.creating), Reconciled(v, H, s, q)
  PROVE  /\ displays' \in DisplaysValues
         /\ Accounted(plugged', made', news', H, displays'.creating)
         /\ made' > made => Cardinality(plugged') <= displays'.wanted
<1> DEFINE w == Landed(v, H)
           asks == w.wanted # 0 /\ ~InFlight(w)
<1>1. w \in DisplaysValues /\ Accounted(plugged, made, q, H, w.creating)
  BY LandedAccounts
<1>2. made \in Nat /\ ~(made > made)  BY DEF Accounted
<1>3. CASE displays' = w /\ news' = q /\ UNCHANGED <<plugged, made, lost>>
  BY <1>1, <1>2, <1>3
<1>4. CASE /\ asks /\ Cardinality(H) < w.wanted
           /\ displays' = [w EXCEPT !.creating = [on |-> TRUE, before |-> H]]
           /\ made' = made + 1
           /\ plugged' = plugged \cup {made + 1}
           /\ news' = Append(q, Global(made + 1))
  <2>1. ~w.creating.on  BY <1>4 DEF InFlight
  <2>2. /\ Accounted(plugged \cup {made + 1}, made + 1, Append(q, Global(made + 1)), H,
                     [on |-> TRUE, before |-> H])
        /\ Cardinality(H) \in Nat
        /\ Cardinality(plugged \cup {made + 1}) <= Cardinality(H) + 1
    BY <1>1, <2>1, MadeAccounts
  <2>3. H \in SUBSET Nat  BY <1>1, <1>2 DEF Accounted
  <2>4. /\ displays' \in DisplaysValues /\ displays'.wanted = w.wanted
        /\ displays'.creating = [on |-> TRUE, before |-> H]
    BY <1>1, <1>4, <2>3 DEF DisplaysValues
  <2>5. w.wanted \in Nat  BY <1>1 DEF DisplaysValues
  <2>6. IsFiniteSet(plugged \cup {made + 1})
    <3>1. IsFiniteSet(1 .. made + 1)  BY <1>2, FS_Interval
    <3>2. plugged \cup {made + 1} \subseteq 1 .. made + 1  BY <1>1, <1>2 DEF Accounted
    <3>. QED  BY <3>1, <3>2, FS_Subset
  <2>7. Cardinality(plugged \cup {made + 1}) \in Nat  BY <2>6, FS_CardinalityType
  <2>8. Cardinality(plugged') <= displays'.wanted
    BY <1>4, <2>2, <2>4, <2>5, <2>7
  <2>. QED  BY <1>4, <2>2, <2>4, <2>8
<1>5. CASE \E n \in Unpluggable(H, s) \cap plugged :
             /\ displays' = [w EXCEPT !.unplugging = n]
             /\ plugged' = plugged \ {n}
             /\ news' = Append(q, Gone(n))
             /\ made' = made
  <2>1. PICK n \in plugged : /\ displays' = [w EXCEPT !.unplugging = n]
                             /\ plugged' = plugged \ {n}
                             /\ news' = Append(q, Gone(n))
                             /\ made' = made
    BY <1>5
  <2>2. n \in Nat  BY <1>1, <1>2 DEF Accounted
  <2>3. displays' \in DisplaysValues /\ displays'.creating = w.creating
    BY <1>1, <2>1, <2>2 DEF DisplaysValues
  <2>4. Accounted(plugged \ {n}, made, Append(q, Gone(n)), H, w.creating)
    BY <1>1, UnpluggedAccounts
  <2>. QED  BY <1>2, <2>1, <2>3, <2>4
<1>6. CASE /\ displays' = [w EXCEPT !.wanted = 0]
           /\ news' = q /\ UNCHANGED <<plugged, made, lost>>
  <2>1. displays' \in DisplaysValues /\ displays'.creating = w.creating
    BY <1>1, <1>6 DEF DisplaysValues
  <2>. QED  BY <1>1, <1>2, <1>6, <2>1
<1>7. Reconciled(v, H, s, q)  OBVIOUS
<1>. QED  BY <1>3, <1>4, <1>5, <1>6, <1>7 DEF Reconciled

LEMMA DisplaysBegin == DisplaysInit => DisplaysInv
<1>. SUFFICES ASSUME DisplaysInit PROVE DisplaysInv  OBVIOUS
<1>1. displays \in DisplaysValues /\ displays.creating = [on |-> FALSE, before |-> {}]
  BY DEF DisplaysInit, DisplaysValues, NotCreating
<1>2. plugged = 1 .. 1 /\ here = 1 .. 1 /\ made = 1 /\ news = <<>>  BY DEF DisplaysInit
<1>. QED  BY <1>1, <1>2 DEF DisplaysInv, Accounted

\* Every step keeps the account, and makes no more than are wanted.
LEMMA DisplaysStep ==
  ASSUME DisplaysInv, [DisplaysNext]_displaysVars
  PROVE  DisplaysInv' /\ (made' > made => Cardinality(plugged') <= displays'.wanted)
<1>1. /\ displays \in DisplaysValues /\ made \in Nat /\ ~(made > made)
      /\ Accounted(plugged, made, news, here, displays.creating)
  BY DEF DisplaysInv, Accounted
<1>2. ASSUME NEW n \in 0 .. MOST + 1, Want(n)
      PROVE  DisplaysInv' /\ (made' > made => Cardinality(plugged') <= displays'.wanted)
  <2>1. CASE n = 0 \/ n > MOST
    BY <1>1, <1>2, <2>1 DEF Want, DisplaysInv
  <2>2. CASE ~(n = 0 \/ n > MOST)
    <3>1. PICK v : v = [displays EXCEPT !.wanted = n]  OBVIOUS
    <3>2. v \in DisplaysValues /\ v.creating = displays.creating
      BY <1>1, <3>1, DisplaysAssumption DEF DisplaysValues
    <3>3. Reconciled(v, here, shared, news) /\ here' = here
      BY <1>2, <2>2, <3>1 DEF Want
    <3>4. /\ displays' \in DisplaysValues
          /\ Accounted(plugged', made', news', here, displays'.creating)
          /\ made' > made => Cardinality(plugged') <= displays'.wanted
      BY <1>1, <3>2, <3>3, ReconciledAccounts
    <3>. QED  BY <3>3, <3>4 DEF DisplaysInv
  <2>. QED  BY <2>1, <2>2
<1>3. CASE ClientGoes
  <2>1. displays' \in DisplaysValues /\ displays'.creating = displays.creating
    BY <1>1, <1>3 DEF ClientGoes, DisplaysValues
  <2>. QED  BY <1>1, <1>3, <2>1 DEF ClientGoes, DisplaysInv
<1>4. ASSUME NEW n \in 1 .. MaxMade, Select(n)
      PROVE  DisplaysInv' /\ (made' > made => Cardinality(plugged') <= displays'.wanted)
  BY <1>1, <1>4 DEF Select, DisplaysInv
<1>5. ASSUME NEW n \in 1 .. MaxMade, OthersUnplug(n)
      PROVE  DisplaysInv' /\ (made' > made => Cardinality(plugged') <= displays'.wanted)
  <2>1. Accounted(plugged \ {n}, made, Append(news, Gone(n)), here, displays.creating)
    BY <1>1, <1>5, UnpluggedAccounts DEF OthersUnplug
  <2>. QED  BY <1>1, <1>5, <2>1 DEF OthersUnplug, DisplaysInv
<1>6. CASE GlobalRead
  <2>1. PICK e : e = news[1]  OBVIOUS
  <2>2. PICK q : q = Tail(news)  OBVIOUS
  <2>3. /\ news # <<>> /\ e.event = "global" /\ Brings(e)
        /\ news' = IF e.output \in plugged THEN Append(q, Done(e.output)) ELSE q
        /\ UNCHANGED <<plugged, made, here, displays>>
    BY <1>6, <2>1, <2>2 DEF GlobalRead, Brings
  <2>4. /\ Accounted(plugged, made, q, here, displays.creating)
        /\ e.output = made /\ made \in Nat /\ displays.creating.on /\ made \notin here
        /\ \A i \in 1 .. Len(q) : ~Brings(q[i])
    BY <1>1, <2>1, <2>2, <2>3, HeadBrings
  <2>5. CASE e.output \in plugged
    <3>1. Accounted(plugged, made, Append(q, Done(made)), here, displays.creating)
      BY <2>4, <2>5, BroughtAccounts
    <3>. QED  BY <1>1, <2>3, <2>4, <2>5, <3>1 DEF DisplaysInv
  <2>6. CASE e.output \notin plugged
    BY <1>1, <2>3, <2>4, <2>6 DEF DisplaysInv
  <2>. QED  BY <2>5, <2>6
<1>7. ASSUME DoneRead \/ GoneRead
      PROVE  DisplaysInv' /\ (made' > made => Cardinality(plugged') <= displays'.wanted)
  <2>1. PICK H : H = here'  OBVIOUS
  <2>2. PICK s : s = shared'  OBVIOUS
  <2>3. PICK q : q = Tail(news)  OBVIOUS
  <2>4. PICK e : e = news[1]  OBVIOUS
  <2>5. news # <<>> /\ Reconciled(displays, H, s, q)
    BY <1>7, <2>1, <2>2, <2>3 DEF DoneRead, GoneRead
  <2>6. \/ Brings(e) /\ H = here \cup {e.output}
        \/ ~Brings(e) /\ H = here \ {e.output}
    BY <1>7, <2>1, <2>4 DEF DoneRead, GoneRead, Brings
  <2>7. Accounted(plugged, made, q, H, displays.creating)
    BY <1>1, <2>3, <2>4, <2>5, <2>6, ReadAccounts
  <2>8. /\ displays' \in DisplaysValues
        /\ Accounted(plugged', made', news', H, displays'.creating)
        /\ made' > made => Cardinality(plugged') <= displays'.wanted
    BY <1>1, <2>5, <2>7, ReconciledAccounts
  <2>. QED  BY <2>1, <2>8 DEF DisplaysInv
<1>8. CASE UNCHANGED displaysVars
  BY <1>1, <1>8 DEF displaysVars, DisplaysInv
<1>. QED  BY <1>2, <1>3, <1>4, <1>5, <1>6, <1>7, <1>8 DEF DisplaysNext, News

\* The displays are accounted for: of those plugged, the daemon lacks only the
\* one it waits for, which it made last (VirtualDisplays::next).
THEOREM DisplaysAccounted == DisplaysSpec => []DisplaysInv
BY DisplaysBegin, DisplaysStep, PTL DEF DisplaysSpec

\* However many outputs sway gives and somebody else unplugs, the daemon never
\* asks for one more than its client wants (VirtualDisplays::creating).
THEOREM NoneTooMany == DisplaysSpec => NeverOneTooMany
<1>1. DisplaysInv /\ [DisplaysNext]_displaysVars
        => [made' > made => Cardinality(plugged') <= displays'.wanted]_displaysVars
  BY DisplaysStep
<1>. QED  BY <1>1, DisplaysAccounted, PTL DEF DisplaysSpec, NeverOneTooMany

-----------------------------------------------------------------------------
(* The clipboard.  While no read fails or is overtaken, what the compositor *)
(* has still to tell, or to be told, ends with its selection; and what the  *)
(* wire has still to bring a client ends with the text that is kept.        *)

ToldEvents == [kind : {"selection", "cancelled"}, text : Nat, of : Nat]
Offers     == [text : Nat, of : Nat]
Downs      == [kind : {"notify", "provide", "request"}, text : Nat]
Ups        == [kind : {"notify", "provide", "request", "peek"}, text : Nat]

ClipboardTyped ==
  /\ selection \in Offers
  /\ events \in Seq(ToldEvents) /\ requests \in Seq(Offers)
  /\ server \in [device : BOOLEAN, source : Nat, made : Nat, kept : Nat]
  /\ reads \in Seq(Nat) /\ commands \in Seq(Nat) /\ announced \in Nat
  /\ down \in Seq(Downs) /\ up \in Seq(Ups)
  /\ client \in [text : Nat, caps : Caps]
  /\ copies \in Nat

(* The desktop's side: with sel selected, q to be told, r requested, s the *)
(* server's and rd being read.                                             *)
Cancels(q, n) == \E e \in ToSet(q) : e.kind = "cancelled" /\ e.of = n

\* The selection is told last, and what is cancelled was made.
EventsTell(q, sel, s) ==
  /\ sel.of <= s.made
  /\ \A n \in Nat : Cancels(q, n) => n \in 1 .. s.made
  /\ q # <<>> => Last(q).kind = "selection" /\ Last(q).text = sel.text

\* The last requested is the source there is, and set by no other request.
RequestsOffer(r, sel, q, s) ==
  /\ \A i \in 1 .. Len(r) : r[i].of \in 1 .. s.made /\ (i < Len(r) => r[i].of # s.made)
  /\ r # <<>> => /\ Last(r) = [text |-> s.kept, of |-> s.made]
                 /\ s.source = s.made /\ sel.of # s.made /\ ~Cancels(q, s.made)

\* With none requested the source offers the text kept, or its end will be told.
SourceStands(sel, q, s) ==
  \/ s.source = Nobodys /\ sel.of = Nobodys
  \/ /\ s.source # Nobodys /\ sel.of = s.source /\ sel.text = s.kept
     /\ ~Cancels(q, s.source)
  \/ s.source # Nobodys /\ sel.of = Nobodys /\ Cancels(q, s.source)

\* What is kept, or read, is the selection once that is told.
ReadsStand(rd, sel, q, s) ==
  /\ rd # <<>> => Len(rd) = 1 /\ s.source = Nobodys
  /\ s.source = Nobodys /\ q = <<>> =>
       (rd = <<>> /\ s.kept = sel.text) \/ (rd # <<>> /\ rd[1] = sel.text)

DesktopStands(sel, q, r, s, rd) ==
  /\ s.source <= s.made
  /\ EventsTell(q, sel, s)
  /\ RequestsOffer(r, sel, q, s)
  /\ r = <<>> => SourceStands(sel, q, s)
  /\ ReadsStand(rd, sel, q, s)

(* The wire: what a client reads of d sets its text, or makes it ask.      *)
Sets(m) == m.kind = "provide" \/ (m.kind = "notify" /\ m.text = NoText)

LandsOn(d, held, text) ==
  \/ held = text /\ \A m \in ToSet(d) : ~Sets(m)
  \/ \E i \in 1 .. Len(d) :
       Sets(d[i]) /\ d[i].text = text /\ \A j \in i + 1 .. Len(d) : ~Sets(d[j])

\* The client asks for the text kept, or will.
WillAsk(d, u) ==
  \/ \E m \in ToSet(d) : m.kind = "notify" /\ m.text # NoText
  \/ \E m \in ToSet(u) : m.kind \in {"request", "peek"}

Gives(u) == \E m \in ToSet(u) : m.kind = "provide"

\* The client's own text is asked for, and nothing replaces it before.
WillGive(d, u, held) ==
  /\ held # NoText
  /\ \A m \in ToSet(d) : ~Sets(m)
  /\ \/ \E m \in ToSet(u) : m.kind = "notify" /\ m.text # NoText
     \/ \E m \in ToSet(d) : m.kind = "request"

WireStands(d, u, held, kept) ==
  WillAsk(d, u) \/ Gives(u) \/ WillGive(d, u, held) \/ LandsOn(d, held, kept)

TakesAll == client.caps.notify /\ client.caps.provide /\ client.caps.request

ClientStands ==
  \/ server.source # Nobodys \/ events # <<>> \/ reads # <<>>
  \/ announced > 0 \/ commands # <<>>
  \/ WireStands(down, up, client.text, server.kept)

ClipboardInv ==
  /\ ClipboardTyped
  /\ server.device /\ spoilt = {} =>
       /\ DesktopStands(selection, events, requests, server, reads)
       /\ TakesAll => ClientStands

(* What is read of a sequence, what is added to it, and what is left of a  *)
(* short one.                                                              *)
LEMMA OneRead ==
  ASSUME NEW S, NEW q \in Seq(S), q # <<>>
  PROVE  /\ Tail(q) \in Seq(S) /\ q[1] \in S
         /\ ToSet(q) = {q[1]} \cup ToSet(Tail(q))
         /\ Tail(q) # <<>> => Last(Tail(q)) = Last(q)
         /\ Tail(q) = <<>> => Last(q) = q[1]
<1>1. /\ Tail(q) \in Seq(S) /\ q[1] \in S /\ Len(q) \in Nat \ {0}
      /\ Len(Tail(q)) = Len(q) - 1
      /\ \A i \in 1 .. Len(Tail(q)) : Tail(q)[i] = q[i + 1]
  OBVIOUS
<1>2. PICK t \in Seq(S) : t = Tail(q)  BY <1>1
<1>3. PICK n \in Nat : n = Len(t)  BY <1>2
<1>4. Len(q) = n + 1 /\ \A i \in 1 .. n : t[i] = q[i + 1]  BY <1>1, <1>2, <1>3
<1>5. DOMAIN q = 1 .. n + 1 /\ DOMAIN t = 1 .. n  BY <1>2, <1>3, <1>4
<1>6. ToSet(q) = {q[1]} \cup ToSet(t)
  <2>1. ASSUME NEW i \in 1 .. n + 1 PROVE q[i] \in {q[1]} \cup ToSet(t)
    <3>1. CASE i = 1  BY <3>1
    <3>2. CASE i # 1
      <4>1. i - 1 \in 1 .. n /\ (i - 1) + 1 = i  BY <3>2
      <4>2. t[i - 1] = q[i]  BY <4>1, <1>4
      <4>. QED  BY <4>1, <4>2, <1>5 DEF ToSet
    <3>. QED  BY <3>1, <3>2
  <2>2. ASSUME NEW i \in 1 .. n PROVE t[i] \in ToSet(q)
    <3>1. i + 1 \in 1 .. n + 1 /\ t[i] = q[i + 1]  BY <1>4
    <3>. QED  BY <3>1, <1>5 DEF ToSet
  <2>3. q[1] \in ToSet(q)  BY <1>5 DEF ToSet
  <2>4. \A x \in ToSet(q) : x \in {q[1]} \cup ToSet(t)  BY <2>1, <1>5 DEF ToSet
  <2>5. \A x \in ToSet(t) : x \in ToSet(q)  BY <2>2, <1>5 DEF ToSet
  <2>. QED  BY <2>3, <2>4, <2>5
<1>7. t # <<>> => Last(t) = Last(q)
  <2>1. SUFFICES ASSUME t # <<>> PROVE t[Len(t)] = q[Len(q)]  BY DEF Last
  <2>2. n \in 1 .. n  BY <1>2, <1>3, <2>1
  <2>. QED  BY <2>2, <1>3, <1>4
<1>8. t = <<>> => Last(q) = q[1]
  <2>1. ASSUME t = <<>> PROVE Len(q) = 1
    <3>1. n = 0  BY <1>3, <2>1
    <3>. QED  BY <3>1, <1>4
  <2>. QED  BY <2>1 DEF Last
<1>. QED  BY <1>1, <1>2, <1>6, <1>7, <1>8

LEMMA OneAdded ==
  ASSUME NEW S, NEW q \in Seq(S), NEW x \in S
  PROVE  /\ q \o <<x>> = Append(q, x)
         /\ Append(q, x) \in Seq(S) /\ Append(q, x) # <<>>
         /\ ToSet(Append(q, x)) = ToSet(q) \cup {x}
         /\ Last(Append(q, x)) = x
         /\ Len(Append(q, x)) = Len(q) + 1 /\ Len(q) \in Nat
         /\ \A i \in 1 .. Len(q) : Append(q, x)[i] = q[i]
         /\ Append(q, x)[Len(q) + 1] = x
<1>1. PICK a : a = Append(q, x)  OBVIOUS
<1>2. PICK n \in Nat : n = Len(q)  OBVIOUS
<1>3. /\ a \in Seq(S) /\ Len(a) = n + 1
      /\ \A i \in 1 .. n : a[i] = q[i]
      /\ a[n + 1] = x
  BY <1>1, <1>2
<1>4. a # <<>>  BY <1>2, <1>3
<1>5. DOMAIN q = 1 .. n /\ DOMAIN a = 1 .. n + 1  BY <1>2, <1>3
<1>6. \A i \in 1 .. n + 1 : i \in 1 .. n \/ i = n + 1  BY <1>2
<1>7. ToSet(a) = ToSet(q) \cup {x}
  <2>1. \A y \in ToSet(a) : y \in ToSet(q) \cup {x}  BY <1>3, <1>5, <1>6 DEF ToSet
  <2>2. ASSUME NEW i \in 1 .. n PROVE q[i] \in ToSet(a)
    <3>1. i \in 1 .. n + 1 /\ a[i] = q[i]  BY <1>3
    <3>. QED  BY <3>1, <1>5 DEF ToSet
  <2>3. x \in ToSet(a)
    <3>1. n + 1 \in 1 .. n + 1  OBVIOUS
    <3>. QED  BY <3>1, <1>3, <1>5 DEF ToSet
  <2>. QED  BY <2>1, <2>2, <2>3, <1>5 DEF ToSet
<1>8. Last(a) = x  BY <1>3 DEF Last
<1>9. q \o <<x>> = Append(q, x)  OBVIOUS
<1>. QED  BY <1>1, <1>2, <1>3, <1>4, <1>7, <1>8, <1>9

LEMMA NoneAdded ==
  ASSUME NEW S, NEW q \in Seq(S)
  PROVE  q \o <<>> = q
OBVIOUS

LEMMA NoneIn == ToSet(<<>>) = {} /\ \A S : <<>> \in Seq(S)
BY DEF ToSet

LEMMA OnlyOne ==
  ASSUME NEW S, NEW q \in Seq(S), Len(q) = 1
  PROVE  q[1] \in S /\ RemoveAt(q, 1) = <<>>
<1>1. SubSeq(q, 1, 0) = <<>> /\ SubSeq(q, 2, 1) = <<>>  OBVIOUS
<1>. QED  BY <1>1 DEF RemoveAt

ServerValues == [device : BOOLEAN, source : Nat, made : Nat, kept : Nat]

(* The desktop's steps.                                                    *)

\* A selection the desktop makes is told, after the end of the source it is of.
LEMMA DesktopSelects ==
  ASSUME NEW sel \in Offers, NEW q \in Seq(ToldEvents), NEW r \in Seq(Offers),
         NEW s \in ServerValues, NEW rd, DesktopStands(sel, q, r, s, rd),
         NEW text \in Nat, NEW t \in Seq(ToldEvents),
         t # <<>>, Last(t).kind = "selection", Last(t).text = text,
         \A n \in Nat : Cancels(t, n) <=> Cancels(q, n) \/ (sel.of # Nobodys /\ n = sel.of)
  PROVE  DesktopStands([text |-> text, of |-> Nobodys], t, r, s, rd)
<1>1. PICK new : new = [text |-> text, of |-> Nobodys]  OBVIOUS
<1>2. new.text = text /\ new.of = 0  BY <1>1 DEF Nobodys
<1>3. /\ s.source \in Nat /\ s.made \in Nat /\ s.kept \in Nat /\ sel.of \in Nat
      /\ s.source <= s.made /\ sel.of <= s.made
      /\ \A n \in Nat : Cancels(q, n) => n \in 1 .. s.made
  BY DEF DesktopStands, EventsTell, ServerValues, Offers
<1>4. EventsTell(t, new, s)
  <2>1. \A n \in Nat : Cancels(t, n) => n \in 1 .. s.made  BY <1>3 DEF Nobodys
  <2>. QED  BY <2>1, <1>2, <1>3 DEF EventsTell
<1>5. RequestsOffer(r, new, t, s)
  <2>1. r # <<>> => /\ Last(r) = [text |-> s.kept, of |-> s.made] /\ s.source = s.made
                    /\ sel.of # s.made /\ ~Cancels(q, s.made) /\ 0 # s.made
    <3>1. r # <<>> => r[1].of \in 1 .. s.made  BY DEF DesktopStands, RequestsOffer
    <3>. QED  BY <3>1, <1>3 DEF DesktopStands, RequestsOffer
  <2>2. r # <<>> => ~Cancels(t, s.made)  BY <2>1, <1>3
  <2>. QED  BY <2>1, <2>2, <1>2 DEF DesktopStands, RequestsOffer
<1>6. r = <<>> => SourceStands(new, t, s)
  <2>1. r = <<>> => SourceStands(sel, q, s)  BY DEF DesktopStands
  <2>. QED  BY <2>1, <1>2, <1>3 DEF SourceStands, Nobodys
<1>7. ReadsStand(rd, new, t, s)  BY DEF DesktopStands, ReadsStand
<1>. QED  BY <1>1, <1>3, <1>4, <1>5, <1>6, <1>7 DEF DesktopStands

\* A request that arrives is the selection; the last of them is of the source.
LEMMA RequestLands ==
  ASSUME NEW sel \in Offers, NEW q \in Seq(ToldEvents), NEW r \in Seq(Offers),
         NEW s \in ServerValues, NEW rd, DesktopStands(sel, q, r, s, rd), r # <<>>,
         NEW t \in Seq(ToldEvents),
         t # <<>>, Last(t).kind = "selection", Last(t).text = r[1].text,
         \A n \in Nat : Cancels(t, n) <=> Cancels(q, n)
  PROVE  DesktopStands([text |-> r[1].text, of |-> r[1].of], t, Tail(r), s, rd)
<1>1. PICK new : new = [text |-> r[1].text, of |-> r[1].of]  OBVIOUS
<1>2. new.text = r[1].text /\ new.of = r[1].of  BY <1>1
<1>3. PICK u : u = Tail(r)  OBVIOUS
<1>4. /\ u \in Seq(Offers) /\ Len(u) = Len(r) - 1 /\ Len(r) \in Nat \ {0}
      /\ \A i \in 1 .. Len(u) : u[i] = r[i + 1]
      /\ u # <<>> => Last(u) = Last(r) /\ Len(u) > 0
      /\ u = <<>> => Last(r) = r[1]
  BY <1>3, OneRead
<1>5. /\ s.source \in Nat /\ s.made \in Nat /\ s.source <= s.made
      /\ \A n \in Nat : Cancels(q, n) => n \in 1 .. s.made
      /\ \A i \in 1 .. Len(r) : r[i].of \in 1 .. s.made /\ (i < Len(r) => r[i].of # s.made)
      /\ Last(r) = [text |-> s.kept, of |-> s.made]
      /\ s.source = s.made /\ ~Cancels(q, s.made)
  BY DEF DesktopStands, EventsTell, RequestsOffer, ServerValues
<1>6. r[1].of \in 1 .. s.made /\ (u # <<>> => r[1].of # s.made)
  <2>1. 1 \in 1 .. Len(r) /\ (u # <<>> => 1 < Len(r))  BY <1>4
  <2>. QED  BY <2>1, <1>5
<1>7. EventsTell(t, new, s)  BY <1>2, <1>5, <1>6 DEF EventsTell
<1>8. RequestsOffer(u, new, t, s)
  <2>1. \A i \in 1 .. Len(u) : u[i].of \in 1 .. s.made /\ (i < Len(u) => u[i].of # s.made)
    <3>1. TAKE i \in 1 .. Len(u)
    <3>2. i + 1 \in 1 .. Len(r) /\ u[i] = r[i + 1] /\ (i < Len(u) => i + 1 < Len(r))
      BY <3>1, <1>4
    <3>. QED  BY <3>2, <1>5
  <2>. QED  BY <2>1, <1>2, <1>4, <1>5, <1>6 DEF RequestsOffer
<1>9. u = <<>> => SourceStands(new, t, s)
  <2>1. ASSUME u = <<>>
        PROVE  new.of = s.made /\ new.text = s.kept /\ s.made # 0
    <3>1. r[1] = [text |-> s.kept, of |-> s.made]  BY <2>1, <1>4, <1>5
    <3>. QED  BY <3>1, <1>2, <1>5, <1>6
  <2>. QED  BY <2>1, <1>5 DEF SourceStands, Nobodys
<1>10. ReadsStand(rd, new, t, s)  BY DEF DesktopStands, ReadsStand
<1>. QED  BY <1>1, <1>3, <1>5, <1>7, <1>8, <1>9, <1>10 DEF DesktopStands

\* A source of this server's is offered: what is told before it is ignored.
LEMMA SourceOffered ==
  ASSUME NEW sel \in Offers, NEW q \in Seq(ToldEvents), NEW r \in Seq(Offers),
         NEW s \in ServerValues, DesktopStands(sel, q, r, s, <<>>), NEW text \in Nat,
         NEW v \in ServerValues, v.kept = text, v.made = s.made + 1, v.source = s.made + 1
  PROVE  DesktopStands(sel, q, Append(r, [text |-> text, of |-> s.made + 1]), v, <<>>)
<1>1. PICK x \in Offers : x = [text |-> text, of |-> s.made + 1]
  BY DEF Offers, ServerValues
<1>2. PICK u : u = Append(r, x)  OBVIOUS
<1>3. /\ u # <<>> /\ Last(u) = x /\ Len(u) = Len(r) + 1 /\ Len(r) \in Nat
      /\ \A i \in 1 .. Len(r) : u[i] = r[i]
      /\ u[Len(r) + 1] = x
  BY <1>2, OneAdded
<1>4. /\ s.made \in Nat /\ sel.of \in Nat /\ sel.of <= s.made
      /\ \A n \in Nat : Cancels(q, n) => n \in 1 .. s.made
      /\ q # <<>> => Last(q).kind = "selection" /\ Last(q).text = sel.text
      /\ \A i \in 1 .. Len(r) : r[i].of \in 1 .. s.made
  BY DEF DesktopStands, EventsTell, RequestsOffer, ServerValues, Offers
<1>5. EventsTell(q, sel, v)  BY <1>4 DEF EventsTell
<1>6. RequestsOffer(u, sel, q, v)
  <2>1. \A i \in 1 .. Len(u) : u[i].of \in 1 .. v.made /\ (i < Len(u) => u[i].of # v.made)
    <3>1. TAKE i \in 1 .. Len(u)
    <3>2. CASE i \in 1 .. Len(r)
      <4>1. u[i].of \in 1 .. s.made  BY <3>2, <1>3, <1>4
      <4>. QED  BY <4>1, <1>4
    <3>3. CASE i = Len(r) + 1
      <4>1. u[i].of = s.made + 1  BY <3>3, <1>1, <1>3
      <4>. QED  BY <4>1, <3>3, <1>3, <1>4
    <3>. QED  BY <3>1, <3>2, <3>3, <1>3
  <2>2. sel.of # v.made /\ ~Cancels(q, v.made)  BY <1>4
  <2>. QED  BY <2>1, <2>2, <1>1, <1>3 DEF RequestsOffer
<1>7. ReadsStand(<<>>, sel, q, v)  BY <1>4 DEF ReadsStand, Nobodys
<1>. QED  BY <1>1, <1>2, <1>3, <1>4, <1>5, <1>6, <1>7 DEF DesktopStands

\* What is cancelled of the rest of a queue.
LEMMA CancelsLeft ==
  ASSUME NEW q \in Seq(ToldEvents), q # <<>>
  PROVE  \A n : Cancels(q, n) <=>
                  Cancels(Tail(q), n) \/ (q[1].kind = "cancelled" /\ q[1].of = n)
<1>1. PICK t : t = Tail(q)  OBVIOUS
<1>2. ToSet(q) = {q[1]} \cup ToSet(t)  BY <1>1, OneRead
<1>3. \A n : Cancels(q, n) <=> Cancels(t, n) \/ (q[1].kind = "cancelled" /\ q[1].of = n)
  BY <1>2 DEF Cancels
<1>. QED  BY <1>1, <1>3

\* A cancelled event: the source goes if it is the one there is, and the
\* selection that took its place is yet to be told.
LEMMA CancelRead ==
  ASSUME NEW sel \in Offers, NEW q \in Seq(ToldEvents), NEW r \in Seq(Offers),
         NEW s \in ServerValues, NEW rd, DesktopStands(sel, q, r, s, rd), q # <<>>,
         q[1].kind = "cancelled", NEW v \in ServerValues,
         v.kept = s.kept /\ v.made = s.made,
         v.source = IF s.source = q[1].of THEN Nobodys ELSE s.source
  PROVE  DesktopStands(sel, Tail(q), r, v, rd) /\ Tail(q) # <<>>
<1>1. PICK t : t = Tail(q)  OBVIOUS
<1>2. /\ t # <<>> => Last(t) = Last(q)
      /\ t = <<>> => Last(q) = q[1]
      /\ \A n : Cancels(q, n) <=> Cancels(t, n) \/ q[1].of = n
  BY <1>1, OneRead, CancelsLeft
<1>3. /\ s.source \in Nat /\ s.made \in Nat /\ s.source <= s.made
      /\ EventsTell(q, sel, s) /\ RequestsOffer(r, sel, q, s)
      /\ r = <<>> => SourceStands(sel, q, s)
      /\ ReadsStand(rd, sel, q, s)
      /\ v.source \in Nat
  BY DEF DesktopStands, ServerValues
<1>4. t # <<>>  BY <1>2, <1>3 DEF EventsTell
<1>5. EventsTell(t, sel, v)  BY <1>2, <1>3 DEF EventsTell
<1>6. v.source <= v.made  BY <1>3 DEF Nobodys, ServerValues
<1>7. RequestsOffer(r, sel, t, v)
  <2>1. r # <<>> => ~Cancels(q, s.made) /\ s.source = s.made  BY <1>3 DEF RequestsOffer
  <2>2. r # <<>> => ~Cancels(t, s.made) /\ v.source = s.made  BY <2>1, <1>2
  <2>. QED  BY <2>2, <1>3 DEF RequestsOffer
<1>8. r = <<>> => SourceStands(sel, t, v)
  BY <1>2, <1>3 DEF SourceStands
<1>9. ReadsStand(rd, sel, t, v)
  <2>1. rd # <<>> => v.source = Nobodys  BY <1>3 DEF ReadsStand
  <2>. QED  BY <2>1, <1>3, <1>4 DEF ReadsStand
<1>. QED  BY <1>1, <1>4, <1>5, <1>6, <1>7, <1>8, <1>9 DEF DesktopStands

\* A selection that is ignored is of this server's source, or ended by it.
LEMMA SelectionIgnored ==
  ASSUME NEW sel \in Offers, NEW q \in Seq(ToldEvents), NEW r \in Seq(Offers),
         NEW s \in ServerValues, NEW rd, DesktopStands(sel, q, r, s, rd), q # <<>>,
         q[1].kind # "cancelled", s.source # Nobodys
  PROVE  DesktopStands(sel, Tail(q), r, s, rd)
<1>1. PICK t : t = Tail(q)  OBVIOUS
<1>2. /\ t # <<>> => Last(t) = Last(q)
      /\ \A n : Cancels(q, n) <=> Cancels(t, n)
  BY <1>1, OneRead, CancelsLeft
<1>3. /\ EventsTell(q, sel, s) /\ RequestsOffer(r, sel, q, s)
      /\ r = <<>> => SourceStands(sel, q, s)
      /\ ReadsStand(rd, sel, q, s) /\ s.source <= s.made
  BY DEF DesktopStands
<1>4. EventsTell(t, sel, s)  BY <1>2, <1>3, CancelsLeft DEF EventsTell
<1>5. RequestsOffer(r, sel, t, s)  BY <1>2, <1>3 DEF RequestsOffer
<1>6. r = <<>> => SourceStands(sel, t, s)  BY <1>2, <1>3 DEF SourceStands
<1>7. ReadsStand(rd, sel, t, s)  BY <1>3 DEF ReadsStand
<1>. QED  BY <1>1, <1>3, <1>4, <1>5, <1>6, <1>7 DEF DesktopStands

\* A selection that is the desktop's is kept, or read: rd is what is read then,
\* and none is requested.
LEMMA SelectionRead ==
  ASSUME NEW sel \in Offers, NEW q \in Seq(ToldEvents), NEW r \in Seq(Offers),
         NEW s \in ServerValues, DesktopStands(sel, q, r, s, <<>>), q # <<>>,
         q[1].kind # "cancelled", s.source = Nobodys,
         NEW v \in ServerValues, v.made = s.made, v.source = s.source, NEW rd,
         \/ rd = <<>> /\ v.kept = q[1].text
         \/ rd # <<>> /\ Len(rd) = 1 /\ rd[1] = q[1].text
  PROVE  DesktopStands(sel, Tail(q), r, v, rd)
<1>1. PICK t : t = Tail(q)  OBVIOUS
<1>2. /\ t # <<>> => Last(t) = Last(q)
      /\ t = <<>> => Last(q) = q[1]
      /\ \A n : Cancels(q, n) <=> Cancels(t, n)
  BY <1>1, OneRead, CancelsLeft
<1>3. /\ EventsTell(q, sel, s) /\ RequestsOffer(r, sel, q, s)
      /\ r = <<>> => SourceStands(sel, q, s)
      /\ s.source <= s.made /\ s.made \in Nat /\ s.source = 0
  BY DEF DesktopStands, ServerValues, Nobodys
<1>4. r = <<>>
  <2>1. SUFFICES ASSUME r # <<>> PROVE FALSE  OBVIOUS
  <2>2. 1 \in 1 .. Len(r)  BY <2>1
  <2>3. s.made \in 1 .. s.made /\ s.source = s.made
    BY <2>1, <2>2, <1>3 DEF RequestsOffer
  <2>. QED  BY <2>3, <1>3
<1>5. EventsTell(t, sel, v)  BY <1>2, <1>3 DEF EventsTell
<1>6. RequestsOffer(r, sel, t, v)  BY <1>3, <1>4 DEF RequestsOffer
<1>7. SourceStands(sel, t, v)  BY <1>3, <1>4 DEF SourceStands
<1>8. t = <<>> => sel.text = q[1].text  BY <1>2, <1>3 DEF EventsTell
<1>9. ReadsStand(rd, sel, t, v)  BY <1>8 DEF ReadsStand
<1>. QED  BY <1>1, <1>3, <1>5, <1>6, <1>7, <1>9 DEF DesktopStands

\* A read ends with what it read, of which there was no other.
LEMMA ReadIsKept ==
  ASSUME NEW sel \in Offers, NEW q \in Seq(ToldEvents), NEW r \in Seq(Offers),
         NEW s \in ServerValues, NEW rd, DesktopStands(sel, q, r, s, rd), rd # <<>>,
         NEW v \in ServerValues, v.made = s.made, v.source = s.source, v.kept = rd[1]
  PROVE  DesktopStands(sel, q, r, v, <<>>)
<1>1. /\ EventsTell(q, sel, s) /\ RequestsOffer(r, sel, q, s)
      /\ r = <<>> => SourceStands(sel, q, s)
      /\ ReadsStand(rd, sel, q, s)
      /\ s.source <= s.made /\ s.made \in Nat
  BY DEF DesktopStands, ServerValues
<1>2. s.source = 0  BY <1>1 DEF ReadsStand, Nobodys
<1>3. r = <<>>
  <2>1. SUFFICES ASSUME r # <<>> PROVE FALSE  OBVIOUS
  <2>2. 1 \in 1 .. Len(r)  BY <2>1
  <2>3. s.made \in 1 .. s.made /\ s.source = s.made
    BY <2>1, <2>2, <1>1 DEF RequestsOffer
  <2>. QED  BY <2>3, <1>2
<1>4. EventsTell(q, sel, v)  BY <1>1 DEF EventsTell
<1>5. RequestsOffer(r, sel, q, v)  BY <1>1, <1>3 DEF RequestsOffer
<1>6. SourceStands(sel, q, v)  BY <1>1, <1>2, <1>3 DEF SourceStands, Nobodys
<1>7. ReadsStand(<<>>, sel, q, v)  BY <1>1 DEF ReadsStand
<1>. QED  BY <1>1, <1>3, <1>4, <1>5, <1>6, <1>7 DEF DesktopStands

(* The wire.                                                               *)

\* A message added to what a client has yet to read, and the first read of it.
LEMMA LandsAdded ==
  ASSUME NEW d \in Seq(Downs), NEW m \in Downs, NEW held, NEW text,
         IF Sets(m) THEN m.text = text ELSE LandsOn(d, held, text)
  PROVE  LandsOn(Append(d, m), held, text)
<1>1. PICK a : a = Append(d, m)  OBVIOUS
<1>2. PICK n \in Nat : n = Len(d)  OBVIOUS
<1>3. /\ Len(a) = n + 1 /\ a[n + 1] = m
      /\ \A i \in 1 .. n : a[i] = d[i]
      /\ ToSet(a) = ToSet(d) \cup {m}
  BY <1>1, <1>2, OneAdded
<1>4. CASE Sets(m)
  <2>1. n + 1 \in 1 .. Len(a) /\ \A j \in (n + 1) + 1 .. Len(a) : ~Sets(a[j])  BY <1>3
  <2>2. Sets(a[n + 1]) /\ a[n + 1].text = text  BY <1>3, <1>4
  <2>. QED  BY <2>1, <2>2, <1>1 DEF LandsOn
<1>5. CASE ~Sets(m) /\ held = text /\ \A x \in ToSet(d) : ~Sets(x)
  <2>1. \A x \in ToSet(a) : ~Sets(x)  BY <1>3, <1>5
  <2>. QED  BY <2>1, <1>1, <1>5 DEF LandsOn
<1>6. ASSUME ~Sets(m), NEW i \in 1 .. n, Sets(d[i]), d[i].text = text,
             \A j \in i + 1 .. n : ~Sets(d[j])
      PROVE  LandsOn(a, held, text)
  <2>1. i \in 1 .. Len(a) /\ a[i] = d[i]  BY <1>3
  <2>2. \A j \in i + 1 .. Len(a) : ~Sets(a[j])
    <3>1. TAKE j \in i + 1 .. Len(a)
    <3>2. j = n + 1 \/ j \in i + 1 .. n  BY <3>1, <1>3
    <3>3. j \in i + 1 .. n => a[j] = d[j] /\ ~Sets(d[j])  BY <1>3, <1>6
    <3>. QED  BY <3>2, <3>3, <1>3, <1>6
  <2>. QED  BY <2>1, <2>2, <1>6 DEF LandsOn
<1>. QED  BY <1>1, <1>2, <1>4, <1>5, <1>6 DEF LandsOn

LEMMA LandsRead ==
  ASSUME NEW d \in Seq(Downs), d # <<>>, NEW held, NEW text, LandsOn(d, held, text)
  PROVE  LandsOn(Tail(d), IF Sets(d[1]) THEN d[1].text ELSE held, text)
<1>1. PICK t : t = Tail(d)  OBVIOUS
<1>2. PICK n \in Nat : n = Len(t)  BY <1>1
<1>3. /\ Len(d) = n + 1 /\ \A i \in 1 .. n : t[i] = d[i + 1]
      /\ ToSet(d) = {d[1]} \cup ToSet(t) /\ DOMAIN t = 1 .. n
  BY <1>1, <1>2, OneRead
<1>4. PICK now : now = IF Sets(d[1]) THEN d[1].text ELSE held  OBVIOUS
<1>5. CASE held = text /\ \A m \in ToSet(d) : ~Sets(m)
  <2>1. \A m \in ToSet(t) : ~Sets(m)  BY <1>3, <1>5
  <2>2. now = text  BY <1>3, <1>4, <1>5
  <2>. QED  BY <2>1, <2>2, <1>1, <1>4 DEF LandsOn
<1>6. ASSUME NEW i \in 1 .. n + 1, Sets(d[i]), d[i].text = text,
             \A j \in i + 1 .. n + 1 : ~Sets(d[j])
      PROVE  LandsOn(t, now, text)
  <2>1. CASE i = 1
    <3>1. \A j \in 1 .. n : ~Sets(t[j])
      <4>1. TAKE j \in 1 .. n
      <4>2. j + 1 \in i + 1 .. n + 1 /\ t[j] = d[j + 1]  BY <2>1, <1>3
      <4>. QED  BY <4>2, <1>6
    <3>2. \A m \in ToSet(t) : ~Sets(m)  BY <3>1, <1>3 DEF ToSet
    <3>. QED  BY <3>2, <2>1, <1>4, <1>6 DEF LandsOn
  <2>2. CASE i # 1
    <3>1. PICK k \in 1 .. n : k + 1 = i
      <4>1. i - 1 \in 1 .. n /\ (i - 1) + 1 = i  BY <2>2
      <4>. QED  BY <4>1
    <3>2. t[k] = d[i]  BY <3>1, <1>3
    <3>3. \A j \in k + 1 .. n : ~Sets(t[j])
      <4>1. TAKE j \in k + 1 .. n
      <4>2. j \in 1 .. n /\ j + 1 \in i + 1 .. n + 1  BY <3>1
      <4>3. t[j] = d[j + 1]  BY <4>2, <1>3
      <4>. QED  BY <4>2, <4>3, <1>6
    <3>. QED  BY <3>1, <3>2, <3>3, <1>2, <1>6 DEF LandsOn
  <2>. QED  BY <2>1, <2>2
<1>. QED  BY <1>1, <1>3, <1>4, <1>5, <1>6 DEF LandsOn

\* What the client copies stays, unless a message that is on its way replaces it.
LEMMA LandsStill ==
  ASSUME NEW d, NEW held, NEW text, LandsOn(d, held, text), NEW now
  PROVE  LandsOn(d, now, text) \/ \A m \in ToSet(d) : ~Sets(m)
BY DEF LandsOn

\* announce_clipboard tells of the text kept.
LEMMA AnnounceStands ==
  ASSUME NEW d \in Seq(Downs), NEW u, NEW held, NEW kept \in Nat
  PROVE  WireStands(Append(d, [kind |-> "notify", text |-> kept]), u, held, kept)
<1>1. PICK m \in Downs : m = [kind |-> "notify", text |-> kept]  BY DEF Downs
<1>2. ToSet(Append(d, m)) = ToSet(d) \cup {m}  BY OneAdded
<1>3. CASE kept # NoText
  BY <1>1, <1>2, <1>3 DEF WireStands, WillAsk
<1>4. CASE kept = NoText
  <2>1. Sets(m) /\ m.text = kept  BY <1>1, <1>4 DEF Sets
  <2>2. LandsOn(Append(d, m), held, kept)  BY <2>1, LandsAdded
  <2>. QED  BY <2>2, <1>1 DEF WireStands
<1>. QED  BY <1>3, <1>4

\* The text kept is sent.
LEMMA ProvideStands ==
  ASSUME NEW d \in Seq(Downs), NEW u, NEW held, NEW kept \in Nat
  PROVE  WireStands(Append(d, [kind |-> "provide", text |-> kept]), u, held, kept)
<1>1. PICK m \in Downs : m = [kind |-> "provide", text |-> kept]  BY DEF Downs
<1>2. Sets(m) /\ m.text = kept  BY <1>1 DEF Sets
<1>3. LandsOn(Append(d, m), held, kept)  BY <1>2, LandsAdded
<1>. QED  BY <1>1, <1>3 DEF WireStands

\* A message of the client's that is handled: a text of its own is a command.
LEMMA HandledStands ==
  ASSUME TakesAll, NEW d \in Seq(Downs), NEW u \in Seq(Ups), u # <<>>, NEW held,
         server.kept \in Nat, WireStands(d, u, held, server.kept), u[1].kind # "provide"
  PROVE  WireStands(d \o Answer(u[1]), Tail(u), held, server.kept)
<1>1. PICK m \in Ups : m = u[1]  BY OneRead
<1>2. PICK v : v = Tail(u)  OBVIOUS
<1>3. ToSet(u) = {m} \cup ToSet(v)  BY <1>1, <1>2, OneRead
<1>4. PICK kept \in Nat : kept = server.kept  OBVIOUS
<1>5. m.kind \in {"notify", "request", "peek"}  BY <1>1 DEF Ups
<1>6. CASE m.kind = "request"
  <2>1. Answer(m) = <<[kind |-> "provide", text |-> kept]>>
    BY <1>4, <1>6 DEF Answer, TakesAll
  <2>2. [kind |-> "provide", text |-> kept] \in Downs  BY DEF Downs
  <2>3. d \o Answer(m) = Append(d, [kind |-> "provide", text |-> kept])
    BY <2>1, <2>2, OneAdded
  <2>. QED  BY <2>3, <1>1, <1>2, <1>4, ProvideStands
<1>7. CASE m.kind = "peek"
  <2>1. Answer(m) = <<[kind |-> "notify", text |-> kept]>>
    BY <1>4, <1>7 DEF Answer, TakesAll
  <2>2. [kind |-> "notify", text |-> kept] \in Downs  BY DEF Downs
  <2>3. d \o Answer(m) = Append(d, [kind |-> "notify", text |-> kept])
    BY <2>1, <2>2, OneAdded
  <2>. QED  BY <2>3, <1>1, <1>2, <1>4, AnnounceStands
<1>8. CASE m.kind = "notify" /\ m.text # NoText
  <2>1. PICK x \in Downs : x = [kind |-> "request", text |-> NoText]
    BY DEF Downs, NoText
  <2>2. Answer(m) = <<x>>  BY <1>8, <2>1 DEF Answer, TakesAll
  <2>3. PICK a : a = Append(d, x)  OBVIOUS
  <2>4. d \o Answer(m) = a  BY <2>2, <2>3, OneAdded
  <2>5. ToSet(a) = ToSet(d) \cup {x} /\ x.kind = "request" /\ ~Sets(x)
    BY <2>1, <2>3, OneAdded DEF Sets
  <2>6. WillAsk(d, u) => WillAsk(a, v)  BY <1>3, <1>8, <2>5 DEF WillAsk
  <2>7. Gives(u) => Gives(v)  BY <1>3, <1>8 DEF Gives
  <2>8. WillGive(d, u, held) => WillGive(a, v, held)  BY <2>5 DEF WillGive
  <2>9. LandsOn(d, held, kept) => LandsOn(a, held, kept)  BY <2>3, <2>5, LandsAdded
  <2>10. WireStands(a, v, held, kept)  BY <1>4, <2>6, <2>7, <2>8, <2>9 DEF WireStands
  <2>. QED  BY <2>4, <2>10, <1>1, <1>2, <1>4
<1>9. CASE m.kind = "notify" /\ m.text = NoText
  <2>1. Answer(m) = <<>>  BY <1>9 DEF Answer
  <2>2. d \o Answer(m) = d  BY <2>1, NoneAdded
  <2>3. WillAsk(d, u) => WillAsk(d, v)  BY <1>3, <1>9 DEF WillAsk
  <2>4. Gives(u) => Gives(v)  BY <1>3, <1>9 DEF Gives
  <2>5. WillGive(d, u, held) => WillGive(d, v, held)  BY <1>3, <1>9 DEF WillGive
  <2>6. WireStands(d, v, held, kept)  BY <1>4, <2>3, <2>4, <2>5 DEF WireStands
  <2>. QED  BY <2>2, <2>6, <1>1, <1>2, <1>4
<1>. QED  BY <1>5, <1>6, <1>7, <1>8, <1>9

\* What the client reads: it gives its text, asks, or holds what it is told.
LEMMA GivesStands ==
  ASSUME NEW d, NEW u \in Seq(Ups), NEW held, NEW kept, NEW text \in Nat
  PROVE  WireStands(d, Append(u, [kind |-> "provide", text |-> text]), held, kept)
<1>1. PICK m \in Ups : m = [kind |-> "provide", text |-> text]  BY DEF Ups
<1>2. ToSet(Append(u, m)) = ToSet(u) \cup {m} /\ m.kind = "provide"  BY <1>1, OneAdded
<1>3. Gives(Append(u, m))  BY <1>2 DEF Gives
<1>. QED  BY <1>1, <1>3 DEF WireStands

LEMMA AsksStands ==
  ASSUME NEW d, NEW u \in Seq(Ups), NEW held, NEW kept, NEW kind \in {"request", "peek"}
  PROVE  WireStands(d, Append(u, [kind |-> kind, text |-> NoText]), held, kept)
<1>1. PICK m \in Ups : m = [kind |-> kind, text |-> NoText]  BY DEF Ups, NoText
<1>2. ToSet(Append(u, m)) = ToSet(u) \cup {m} /\ m.kind = kind  BY <1>1, OneAdded
<1>3. WillAsk(d, Append(u, m))  BY <1>2 DEF WillAsk
<1>. QED  BY <1>1, <1>3 DEF WireStands

LEMMA ReadStands ==
  ASSUME NEW d \in Seq(Downs), d # <<>>, NEW u, NEW held, NEW kept,
         WireStands(d, u, held, kept)
  PROVE  /\ Sets(d[1]) => WireStands(Tail(d), u, d[1].text, kept)
         /\ d[1].kind = "request" /\ held = NoText => WireStands(Tail(d), u, held, kept)
<1>1. PICK m \in Downs : m = d[1]  BY OneRead
<1>2. PICK t : t = Tail(d)  OBVIOUS
<1>3. ToSet(d) = {m} \cup ToSet(t)  BY <1>1, <1>2, OneRead
<1>4. LandsOn(d, held, kept) => LandsOn(t, IF Sets(m) THEN m.text ELSE held, kept)
  BY <1>1, <1>2, LandsRead
<1>5. ASSUME Sets(m) PROVE WireStands(t, u, m.text, kept)
  <2>1. WillAsk(d, u) => WillAsk(t, u)  BY <1>3, <1>5 DEF WillAsk, Sets
  <2>2. ~WillGive(d, u, held)  BY <1>3, <1>5 DEF WillGive
  <2>. QED  BY <1>4, <1>5, <2>1, <2>2 DEF WireStands
<1>6. ASSUME m.kind = "request", held = NoText PROVE WireStands(t, u, held, kept)
  <2>1. WillAsk(d, u) => WillAsk(t, u)  BY <1>3, <1>6 DEF WillAsk
  <2>2. ~WillGive(d, u, held)  BY <1>6 DEF WillGive
  <2>3. ~Sets(m)  BY <1>6 DEF Sets
  <2>. QED  BY <1>4, <2>1, <2>2, <2>3 DEF WireStands
<1>. QED  BY <1>1, <1>2, <1>5, <1>6

\* A text the client copies is given, or told of and then asked for.
LEMMA CopiedStands ==
  ASSUME NEW d \in Seq(Downs), NEW u \in Seq(Ups), NEW held, NEW kept,
         WireStands(d, u, held, kept), NEW text \in Nat \ {NoText},
         NEW kind \in {"provide", "notify"}
  PROVE  WireStands(d, Append(u, [kind |-> kind, text |-> text]), text, kept)
<1>1. PICK m \in Ups : m = [kind |-> kind, text |-> text]  BY DEF Ups
<1>2. PICK v : v = Append(u, m)  OBVIOUS
<1>3. ToSet(v) = ToSet(u) \cup {m} /\ m.kind = kind /\ m.text = text  BY <1>1, <1>2, OneAdded
<1>4. CASE kind = "provide"
  BY <1>1, <1>2, <1>3, <1>4 DEF WireStands, Gives
<1>5. CASE kind = "notify"
  <2>1. WillAsk(d, u) => WillAsk(d, v)  BY <1>3 DEF WillAsk
  <2>2. Gives(u) => Gives(v)  BY <1>3 DEF Gives
  <2>3. (\A x \in ToSet(d) : ~Sets(x)) => WillGive(d, v, text)
    BY <1>3, <1>5 DEF WillGive
  <2>4. WillGive(d, u, held) => WillGive(d, v, text)  BY <2>3 DEF WillGive
  <2>5. LandsOn(d, held, kept) => LandsOn(d, text, kept) \/ WillGive(d, v, text)
    BY <2>3, LandsStill
  <2>6. WireStands(d, v, text, kept)  BY <2>1, <2>2, <2>4, <2>5 DEF WireStands
  <2>. QED  BY <2>6, <1>1, <1>2
<1>. QED  BY <1>4, <1>5

(* The steps.                                                              *)
LEMMA ClipboardBegins == ClipboardInit => ClipboardInv
<1>. SUFFICES ASSUME ClipboardInit PROVE ClipboardInv  OBVIOUS
<1>1. /\ selection = [text |-> 0, of |-> 0]
      /\ server \in ServerValues
      /\ server.source = 0 /\ server.made = 0 /\ server.kept = 0
      /\ client \in [text : Nat, caps : Caps] /\ client.text = 0
      /\ events = <<>> /\ requests = <<>> /\ reads = <<>> /\ commands = <<>>
      /\ announced = 0 /\ down = <<>> /\ up = <<>> /\ copies = 0
  BY DEF ClipboardInit, ServerValues, NoText, Nobodys
<1>2. ToSet(<<>>) = {} /\ \A S : <<>> \in Seq(S)  BY NoneIn
<1>3. selection \in Offers /\ selection.text = 0 /\ selection.of = 0
  BY <1>1 DEF Offers
<1>4. ClipboardTyped  BY <1>1, <1>2, <1>3 DEF ClipboardTyped, ServerValues
<1>5. \A n : ~Cancels(<<>>, n)  BY <1>2 DEF Cancels
<1>6. EventsTell(<<>>, selection, server)  BY <1>1, <1>3, <1>5 DEF EventsTell
<1>7. Len(<<>>) = 0  OBVIOUS
<1>8. RequestsOffer(<<>>, selection, <<>>, server)
  BY <1>7 DEF RequestsOffer
<1>9. SourceStands(selection, <<>>, server)  BY <1>1, <1>3 DEF SourceStands, Nobodys
<1>10. ReadsStand(<<>>, selection, <<>>, server)  BY <1>1, <1>3 DEF ReadsStand
<1>11. DesktopStands(selection, events, requests, server, reads)
  BY <1>1, <1>6, <1>8, <1>9, <1>10 DEF DesktopStands
<1>12. LandsOn(<<>>, 0, 0)  BY <1>2 DEF LandsOn
<1>13. ClientStands  BY <1>1, <1>12 DEF ClientStands, WireStands
<1>. QED  BY <1>4, <1>11, <1>13 DEF ClipboardInv

\* What the compositor tells of a selection: the end of the source it replaces,
\* if it replaces one, and what is selected.
LEMMA SelectionTold ==
  ASSUME ClipboardTyped, NEW text \in Nat, NEW of \in Nat, NEW replaced,
         Selects(text, of, replaced),
         replaced = <<>> \/ \E x \in ToldEvents : replaced = <<x>>
  PROVE  /\ selection' = [text |-> text, of |-> of]
         /\ events' \in Seq(ToldEvents) /\ events' # <<>>
         /\ Last(events').kind = "selection" /\ Last(events').text = text
         /\ \A n : Cancels(events', n) <=> Cancels(events, n) \/ Cancels(replaced, n)
<1>1. PICK x \in ToldEvents : x = [kind |-> "selection", text |-> text, of |-> of]
  BY DEF ToldEvents
<1>2. PICK q \in Seq(ToldEvents) : q = events  BY DEF ClipboardTyped
<1>3. PICK t : t = events'  OBVIOUS
<1>4. selection' = [text |-> text, of |-> of] /\ t = (q \o replaced) \o <<x>>
  BY <1>1, <1>2, <1>3 DEF Selects
<1>5. /\ q \o replaced \in Seq(ToldEvents)
      /\ ToSet(q \o replaced) = ToSet(q) \cup ToSet(replaced)
  <2>1. CASE replaced = <<>>  BY <2>1, NoneAdded, NoneIn
  <2>2. ASSUME NEW y \in ToldEvents, replaced = <<y>>
        PROVE  /\ q \o replaced \in Seq(ToldEvents)
               /\ ToSet(q \o replaced) = ToSet(q) \cup ToSet(replaced)
    <3>1. q \o replaced = Append(q, y)  BY <2>2, OneAdded
    <3>2. ToSet(<<y>>) = {y}  BY DEF ToSet
    <3>. QED  BY <3>1, <3>2, <2>2, OneAdded
  <2>. QED  BY <2>1, <2>2
<1>6. PICK m \in Seq(ToldEvents) : m = q \o replaced  BY <1>5
<1>7. /\ t = Append(m, x) /\ t \in Seq(ToldEvents) /\ t # <<>> /\ Last(t) = x
      /\ ToSet(t) = ToSet(m) \cup {x}
  <2>1. t = m \o <<x>>  BY <1>4, <1>6
  <2>2. m \o <<x>> = Append(m, x)  BY OneAdded
  <2>3. /\ Append(m, x) \in Seq(ToldEvents) /\ Append(m, x) # <<>>
        /\ Last(Append(m, x)) = x /\ ToSet(Append(m, x)) = ToSet(m) \cup {x}
    BY OneAdded
  <2>. QED  BY <2>1, <2>2, <2>3
<1>8. \A n : Cancels(t, n) <=> Cancels(q, n) \/ Cancels(replaced, n)
  BY <1>1, <1>5, <1>6, <1>7 DEF Cancels
<1>. QED  BY <1>1, <1>2, <1>3, <1>4, <1>7, <1>8

LEMMA DesktopKeeps ==
  ASSUME ClipboardInv, NEW text \in {NoText, copies + 1}, Desktop(text)
  PROVE  ClipboardInv'
<1>1. /\ selection \in Offers /\ events \in Seq(ToldEvents) /\ requests \in Seq(Offers)
      /\ server \in ServerValues /\ copies \in Nat /\ selection.of \in Nat
      /\ server.device /\ spoilt = {} =>
           DesktopStands(selection, events, requests, server, reads)
  BY DEF ClipboardInv, ClipboardTyped, ServerValues, Offers
<1>2. text \in Nat  BY <1>1 DEF NoText
<1>3. PICK x \in ToldEvents :
        x = [kind |-> "cancelled", text |-> NoText, of |-> selection.of]
  BY <1>1 DEF ToldEvents, NoText
<1>4. PICK replaced : replaced = IF selection.of = Nobodys THEN <<>> ELSE <<x>>  OBVIOUS
<1>5. /\ Selects(text, Nobodys, replaced) /\ copies' = copies + 1
      /\ UNCHANGED <<requests, server, reads, commands, announced, down, up, client, spoilt>>
  BY <1>3, <1>4 DEF Desktop, Copy
<1>6. \A n : Cancels(replaced, n) <=> selection.of # Nobodys /\ n = selection.of
  <2>1. ToSet(<<x>>) = {x}  BY DEF ToSet
  <2>2. ToSet(<<>>) = {}  BY NoneIn
  <2>. QED  BY <2>1, <2>2, <1>3, <1>4 DEF Cancels
<1>7. Nobodys \in Nat  BY DEF Nobodys
<1>8. replaced = <<>> \/ \E y \in ToldEvents : replaced = <<y>>  BY <1>4
<1>9. ClipboardTyped  BY DEF ClipboardInv
<1>10. /\ selection' = [text |-> text, of |-> Nobodys]
       /\ events' \in Seq(ToldEvents) /\ events' # <<>>
       /\ Last(events').kind = "selection" /\ Last(events').text = text
       /\ \A n : Cancels(events', n) <=> Cancels(events, n) \/ Cancels(replaced, n)
  BY <1>2, <1>5, <1>7, <1>8, <1>9, SelectionTold
<1>11. ClipboardTyped'
  BY <1>1, <1>2, <1>5, <1>7, <1>9, <1>10 DEF ClipboardTyped, Offers
<1>12. PICK t : t = events'  OBVIOUS
<1>13. ASSUME server.device, spoilt = {}
       PROVE  DesktopStands([text |-> text, of |-> Nobodys], t, requests, server, reads)
  <2>1. DesktopStands(selection, events, requests, server, reads)  BY <1>1, <1>13
  <2>2. \A n \in Nat : Cancels(t, n) <=> Cancels(events, n)
                                          \/ (selection.of # Nobodys /\ n = selection.of)
    BY <1>6, <1>10, <1>12
  <2>3. /\ t \in Seq(ToldEvents) /\ t # <<>>
        /\ Last(t).kind = "selection" /\ Last(t).text = text
    BY <1>10, <1>12
  <2>. QED  BY <2>1, <2>2, <2>3, <1>1, <1>2, DesktopSelects
<1>14. ClientStands'  BY <1>10 DEF ClientStands
<1>. QED  BY <1>5, <1>10, <1>11, <1>12, <1>13, <1>14 DEF ClipboardInv, ClientStands

LEMMA SetArrivesKeeps ==
  ASSUME ClipboardInv, SetArrives
  PROVE  ClipboardInv'
<1>1. /\ selection \in Offers /\ events \in Seq(ToldEvents) /\ requests \in Seq(Offers)
      /\ server \in ServerValues
      /\ server.device /\ spoilt = {} =>
           DesktopStands(selection, events, requests, server, reads)
  BY DEF ClipboardInv, ClipboardTyped, ServerValues
<1>2. PICK r \in Seq(Offers) : r = requests  BY <1>1
<1>3. PICK x \in ToldEvents : x = [kind |-> "selection", text |-> NoText, of |-> Nobodys]
  BY DEF ToldEvents, NoText, Nobodys
<1>4. PICK replaced : replaced = IF selection.of = Nobodys THEN <<>> ELSE <<x>>  OBVIOUS
<1>5. /\ r # <<>> /\ Selects(r[1].text, r[1].of, replaced) /\ requests' = Tail(r)
      /\ UNCHANGED <<server, reads, commands, announced, down, up, client, copies, spoilt>>
  BY <1>2, <1>3, <1>4 DEF SetArrives, wireVars
<1>6. Tail(r) \in Seq(Offers) /\ r[1] \in Offers  BY <1>5, OneRead
<1>7. r[1].text \in Nat /\ r[1].of \in Nat  BY <1>6 DEF Offers
<1>8. \A n : ~Cancels(replaced, n)
  <2>1. ToSet(<<x>>) = {x}  BY DEF ToSet
  <2>2. ToSet(<<>>) = {}  BY NoneIn
  <2>. QED  BY <2>1, <2>2, <1>3, <1>4 DEF Cancels
<1>9. replaced = <<>> \/ \E y \in ToldEvents : replaced = <<y>>  BY <1>4
<1>10. ClipboardTyped  BY DEF ClipboardInv
<1>11. /\ selection' = [text |-> r[1].text, of |-> r[1].of]
       /\ events' \in Seq(ToldEvents) /\ events' # <<>>
       /\ Last(events').kind = "selection" /\ Last(events').text = r[1].text
       /\ \A n : Cancels(events', n) <=> Cancels(events, n) \/ Cancels(replaced, n)
  BY <1>5, <1>7, <1>9, <1>10, SelectionTold
<1>12. ClipboardTyped'
  BY <1>1, <1>5, <1>6, <1>7, <1>10, <1>11 DEF ClipboardTyped, Offers
<1>13. PICK t : t = events'  OBVIOUS
<1>14. ASSUME server.device, spoilt = {}
       PROVE  DesktopStands([text |-> r[1].text, of |-> r[1].of], t, Tail(r), server, reads)
  <2>1. DesktopStands(selection, events, r, server, reads)  BY <1>1, <1>2, <1>14
  <2>2. \A n \in Nat : Cancels(t, n) <=> Cancels(events, n)
    BY <1>8, <1>11, <1>13
  <2>3. /\ t \in Seq(ToldEvents) /\ t # <<>>
        /\ Last(t).kind = "selection" /\ Last(t).text = r[1].text
    BY <1>11, <1>13
  <2>. QED  BY <2>1, <2>2, <2>3, <1>1, <1>5, RequestLands
<1>15. ClientStands'  BY <1>11 DEF ClientStands
<1>. QED  BY <1>5, <1>11, <1>12, <1>13, <1>14, <1>15 DEF ClipboardInv, ClientStands

LEMMA EventKeeps ==
  ASSUME ClipboardInv, Event
  PROVE  ClipboardInv'
<1>1. /\ selection \in Offers /\ events \in Seq(ToldEvents) /\ requests \in Seq(Offers)
      /\ server \in ServerValues /\ reads \in Seq(Nat) /\ announced \in Nat
      /\ server.device /\ spoilt = {} =>
           DesktopStands(selection, events, requests, server, reads)
  BY DEF ClipboardInv, ClipboardTyped, ServerValues
<1>2. /\ events # <<>> /\ events' = Tail(events)
      /\ UNCHANGED <<selection, requests, commands, down, up, client, copies>>
  BY DEF Event, wireVars
<1>3. PICK e : e = events[1]  OBVIOUS
<1>4. Tail(events) \in Seq(ToldEvents) /\ e \in ToldEvents  BY <1>1, <1>2, <1>3, OneRead
<1>5. PICK t \in Seq(ToldEvents) : t = Tail(events)  BY <1>4
<1>6. PICK s : s = server'  OBVIOUS
<1>7. PICK rd : rd = reads'  OBVIOUS
<1>8. /\ s \in ServerValues /\ rd \in Seq(Nat) /\ announced' \in Nat
      /\ s.device = server.device /\ (spoilt' = {} => spoilt = {})
      /\ server.device /\ spoilt' = {} =>
           /\ DesktopStands(selection, t, requests, s, rd)
           /\ \/ t # <<>> \/ rd # <<>> \/ announced' > 0
              \/ s.source # Nobodys
  <2>1. CASE e.kind = "cancelled"
    <3>1. /\ s = IF server.source = e.of THEN [server EXCEPT !.source = Nobodys] ELSE server
          /\ UNCHANGED <<reads, announced, spoilt>>
      BY <2>1, <1>3, <1>6 DEF Event
    <3>2. /\ s \in ServerValues /\ s.device = server.device
          /\ s.kept = server.kept /\ s.made = server.made
          /\ s.source = IF server.source = e.of THEN Nobodys ELSE server.source
      BY <3>1, <1>1 DEF ServerValues, Nobodys
    <3>3. ASSUME server.device, spoilt = {}
          PROVE  DesktopStands(selection, t, requests, s, reads) /\ t # <<>>
      <4>1. DesktopStands(selection, events, requests, server, reads)  BY <1>1, <3>3
      <4>. QED  BY <4>1, <2>1, <3>2, <1>1, <1>2, <1>3, <1>5, CancelRead
    <3>. QED  BY <3>1, <3>2, <3>3, <1>1, <1>7
  <2>2. CASE e.kind # "cancelled" /\ server.source # Nobodys
    <3>1. UNCHANGED <<server, reads, announced, spoilt>>
      BY <2>2, <1>3 DEF Event
    <3>2. ASSUME server.device, spoilt = {}
          PROVE  DesktopStands(selection, t, requests, server, reads)
      <4>1. DesktopStands(selection, events, requests, server, reads)  BY <1>1, <3>2
      <4>. QED  BY <4>1, <2>2, <1>1, <1>2, <1>3, <1>5, SelectionIgnored
    <3>. QED  BY <3>1, <3>2, <2>2, <1>1, <1>6, <1>7
  <2>3. CASE e.kind # "cancelled" /\ server.source = Nobodys
    <3>1. ReadsSelection(e.text)  BY <2>3, <1>3 DEF Event
    <3>2. e.text \in Nat  BY <1>4 DEF ToldEvents
    <3>3. CASE e.text = NoText /\ Keeps(NoText, TRUE, reads) /\ UNCHANGED reads
      <4>1. /\ s = [server EXCEPT !.kept = NoText] /\ announced' = announced + 1
            /\ spoilt' = IF reads = <<>> THEN spoilt ELSE spoilt \union {"overtaken"}
        BY <3>3, <1>6 DEF Keeps
      <4>2. /\ s \in ServerValues /\ s.device = server.device /\ s.kept = e.text
            /\ s.source = server.source /\ s.made = server.made
        BY <4>1, <3>3, <1>1 DEF ServerValues, NoText
      <4>3. spoilt' = {} => spoilt = {} /\ reads = <<>>  BY <4>1
      <4>4. ASSUME server.device, spoilt' = {}
            PROVE  DesktopStands(selection, t, requests, s, <<>>)
        <5>1. DesktopStands(selection, events, requests, server, <<>>)
          BY <1>1, <4>3, <4>4
        <5>. QED  BY <5>1, <2>3, <4>2, <1>1, <1>2, <1>3, <1>5, SelectionRead
      <4>5. announced' > 0 /\ announced' \in Nat  BY <4>1, <1>1
      <4>. QED  BY <3>3, <4>2, <4>3, <4>4, <4>5, <1>1, <1>7
    <3>4. CASE /\ e.text # NoText /\ reads' = Append(reads, e.text)
               /\ UNCHANGED <<server, announced>>
               /\ spoilt' = IF reads = <<>> THEN spoilt ELSE spoilt \union {"overtaken"}
      <4>1. rd \in Seq(Nat) /\ rd # <<>> /\ Len(rd) = Len(reads) + 1
            /\ rd[Len(reads) + 1] = e.text
        BY <3>2, <3>4, <1>1, <1>7, OneAdded
      <4>2. spoilt' = {} => spoilt = {} /\ reads = <<>>  BY <3>4
      <4>3. ASSUME server.device, spoilt' = {}
            PROVE  DesktopStands(selection, t, requests, server, rd)
        <5>1. DesktopStands(selection, events, requests, server, <<>>)
          BY <1>1, <4>2, <4>3
        <5>2. Len(<<>>) = 0  OBVIOUS
        <5>3. Len(rd) = 1 /\ rd[1] = e.text  BY <5>2, <4>1, <4>2, <4>3
        <5>. QED  BY <5>1, <5>3, <4>1, <2>3, <1>1, <1>2, <1>3, <1>5, SelectionRead
      <4>. QED  BY <3>4, <4>1, <4>2, <4>3, <1>1, <1>6, <1>7
    <3>5. CASE /\ spoilt' = spoilt \union {"failed"}
               /\ UNCHANGED <<server, reads, announced>>
      <4>1. spoilt' # {}  BY <3>5
      <4>. QED  BY <3>5, <4>1, <1>1, <1>6, <1>7
    <3>. QED  BY <3>1, <3>3, <3>4, <3>5 DEF ReadsSelection
  <2>. QED  BY <2>1, <2>2, <2>3
<1>9. ClipboardTyped'
  <2>1. ClipboardTyped  BY DEF ClipboardInv
  <2>. QED  BY <2>1, <1>2, <1>5, <1>6, <1>7, <1>8 DEF ClipboardTyped, ServerValues
<1>10. server.device /\ spoilt' = {} => ClientStands'
  BY <1>2, <1>5, <1>6, <1>7, <1>8 DEF ClientStands
<1>. QED  BY <1>2, <1>5, <1>6, <1>7, <1>8, <1>9, <1>10 DEF ClipboardInv

LEMMA ReadEndsKeeps ==
  ASSUME ClipboardInv, NEW i \in 1 .. Len(reads), ReadEnds(i)
  PROVE  ClipboardInv'
<1>1. /\ selection \in Offers /\ events \in Seq(ToldEvents) /\ requests \in Seq(Offers)
      /\ server \in ServerValues /\ reads \in Seq(Nat) /\ announced \in Nat
      /\ server.device /\ spoilt = {} =>
           DesktopStands(selection, events, requests, server, reads)
  BY DEF ClipboardInv, ClipboardTyped, ServerValues
<1>2. /\ reads' = RemoveAt(reads, i)
      /\ UNCHANGED <<selection, events, requests, commands, down, up, client, copies>>
  BY DEF ReadEnds, desktopVars, wireVars
<1>3. reads' \in Seq(Nat) /\ reads[i] \in Nat /\ reads # <<>>
  <2>1. /\ SubSeq(reads, 1, i - 1) \in Seq(Nat)
        /\ SubSeq(reads, i + 1, Len(reads)) \in Seq(Nat)
    BY <1>1
  <2>2. RemoveAt(reads, i) \in Seq(Nat)  BY <2>1 DEF RemoveAt
  <2>. QED  BY <1>1, <1>2, <2>2
<1>4. CASE Keeps(reads[i], TRUE, reads')
  <2>1. PICK s : s = server'  OBVIOUS
  <2>2. /\ s = [server EXCEPT !.kept = reads[i]] /\ announced' = announced + 1
        /\ spoilt' = {} => spoilt = {} /\ reads' = <<>>
    BY <1>4, <2>1 DEF Keeps
  <2>3. /\ s \in ServerValues /\ s.device = server.device /\ s.kept = reads[i]
        /\ s.source = server.source /\ s.made = server.made
    BY <2>2, <1>1, <1>3 DEF ServerValues
  <2>4. announced' \in Nat /\ announced' > 0  BY <2>2, <1>1
  <2>5. ASSUME server.device, spoilt' = {}
        PROVE  DesktopStands(selection, events, requests, s, <<>>)
    <3>1. DesktopStands(selection, events, requests, server, reads)  BY <1>1, <2>2, <2>5
    <3>2. Len(reads) = 1  BY <3>1, <1>3 DEF DesktopStands, ReadsStand
    <3>3. i = 1  BY <3>2
    <3>. QED  BY <3>1, <3>3, <2>3, <1>1, <1>3, ReadIsKept
  <2>6. ClipboardTyped'
    <3>1. ClipboardTyped  BY DEF ClipboardInv
    <3>. QED  BY <3>1, <1>2, <1>3, <2>1, <2>3, <2>4 DEF ClipboardTyped, ServerValues
  <2>7. ClientStands'  BY <2>4 DEF ClientStands
  <2>. QED  BY <1>2, <2>1, <2>2, <2>3, <2>5, <2>6, <2>7 DEF ClipboardInv
<1>5. CASE spoilt' = spoilt \union {"failed"} /\ UNCHANGED <<server, announced>>
  <2>1. ClipboardTyped'
    <3>1. ClipboardTyped  BY DEF ClipboardInv
    <3>. QED  BY <3>1, <1>2, <1>3, <1>5 DEF ClipboardTyped
  <2>2. spoilt' # {}  BY <1>5
  <2>. QED  BY <2>1, <2>2 DEF ClipboardInv
<1>. QED  BY <1>4, <1>5 DEF ReadEnds

LEMMA FinishedKeeps ==
  ASSUME ClipboardInv, Finished
  PROVE  ClipboardInv'
<1>1. /\ server' = [server EXCEPT !.device = FALSE] /\ events' = <<>> /\ requests' = <<>>
      /\ UNCHANGED <<selection, reads, commands, announced, down, up, client, copies, spoilt>>
  BY DEF Finished, wireVars
<1>2. ClipboardTyped  BY DEF ClipboardInv
<1>3. server' \in ServerValues /\ ~server'.device
  BY <1>1, <1>2 DEF ClipboardTyped, ServerValues
<1>4. \A S : <<>> \in Seq(S)  BY NoneIn
<1>5. ClipboardTyped'  BY <1>1, <1>2, <1>3, <1>4 DEF ClipboardTyped, ServerValues
<1>. QED  BY <1>3, <1>5 DEF ClipboardInv

LEMMA CommandKeeps ==
  ASSUME ClipboardInv, Command
  PROVE  ClipboardInv'
<1>1. /\ selection \in Offers /\ events \in Seq(ToldEvents) /\ requests \in Seq(Offers)
      /\ server \in ServerValues /\ commands \in Seq(Nat) /\ announced \in Nat
      /\ server.device /\ spoilt = {} =>
           DesktopStands(selection, events, requests, server, reads)
  BY DEF ClipboardInv, ClipboardTyped, ServerValues
<1>2. ClipboardTyped  BY DEF ClipboardInv
<1>3. /\ commands # <<>> /\ commands' = Tail(commands)
      /\ UNCHANGED <<selection, events, reads, down, up, client, copies>>
  BY DEF Command, wireVars
<1>4. PICK text : text = commands[1]  OBVIOUS
<1>5. text \in Nat /\ commands' \in Seq(Nat)  BY <1>1, <1>3, <1>4, OneRead
<1>6. CASE ~server.device
  <2>1. Keeps(text, FALSE, reads) /\ UNCHANGED requests
    BY <1>4, <1>6 DEF Command
  <2>2. server' = [server EXCEPT !.kept = text] /\ announced' = announced + 0
    BY <2>1 DEF Keeps
  <2>3. server' \in ServerValues /\ ~server'.device /\ announced' \in Nat
    <3>1. PICK s : s = server'  OBVIOUS
    <3>2. s \in ServerValues /\ s.device = server.device
      BY <3>1, <2>2, <1>1, <1>5 DEF ServerValues
    <3>. QED  BY <3>1, <3>2, <2>2, <1>1, <1>6
  <2>4. ClipboardTyped'
    BY <2>1, <2>3, <1>2, <1>3, <1>5 DEF ClipboardTyped, ServerValues
  <2>. QED  BY <2>3, <2>4 DEF ClipboardInv
<1>7. CASE server.device
  <2>1. PICK s : s = server'  OBVIOUS
  <2>2. PICK x : x = [text |-> text, of |-> server.made + 1]  OBVIOUS
  <2>3. /\ s = [server EXCEPT !.kept = text, !.made = @ + 1, !.source = server.made + 1]
        /\ requests' = Append(requests, x)
        /\ spoilt' = IF reads = <<>> THEN spoilt ELSE spoilt \union {"overtaken"}
        /\ announced' = announced
    BY <1>4, <1>7, <2>1, <2>2 DEF Command
  <2>4. /\ s \in ServerValues /\ s.device /\ s.kept = text
        /\ s.made = server.made + 1 /\ s.source = server.made + 1 /\ s.source # Nobodys
    <3>1. PICK n \in Nat : n = server.made + 1 /\ n # 0  BY <1>1 DEF ServerValues
    <3>2. s = [server EXCEPT !.kept = text, !.made = n, !.source = n]
      BY <2>3, <3>1, <1>1 DEF ServerValues
    <3>3. /\ s \in ServerValues /\ s.device = server.device
          /\ s.kept = text /\ s.made = n /\ s.source = n
      BY <3>2, <1>1, <1>5 DEF ServerValues
    <3>. QED  BY <3>1, <3>3, <1>7 DEF Nobodys
  <2>5. x \in Offers  BY <2>2, <1>1, <1>5 DEF Offers, ServerValues
  <2>6. requests' \in Seq(Offers)  BY <2>3, <2>5, <1>1, OneAdded
  <2>7. spoilt' = {} => spoilt = {} /\ reads = <<>>  BY <2>3
  <2>8. ASSUME spoilt' = {}
        PROVE  DesktopStands(selection, events, Append(requests, x), s, <<>>)
    <3>1. DesktopStands(selection, events, requests, server, <<>>)
      BY <1>1, <1>7, <2>7, <2>8
    <3>. QED  BY <3>1, <2>2, <2>4, <1>1, <1>5, SourceOffered
  <2>9. ClipboardTyped'
    BY <2>1, <2>3, <2>4, <2>6, <1>2, <1>3, <1>5 DEF ClipboardTyped, ServerValues
  <2>10. ClientStands'  BY <2>1, <2>4 DEF ClientStands
  <2>. QED  BY <2>1, <2>3, <2>7, <2>8, <2>9, <2>10, <1>3 DEF ClipboardInv
<1>. QED  BY <1>6, <1>7

(* The session's steps leave the desktop's side alone.                     *)
LEMMA WireKeeps ==
  ASSUME ClipboardInv, Wire, ClipboardTyped', client'.caps = client.caps,
         server.device /\ spoilt = {} /\ TakesAll /\ ClientStands => ClientStands'
  PROVE  ClipboardInv'
<1>1. UNCHANGED <<selection, events, requests, server, reads, spoilt>>
  BY DEF Wire, desktopVars
<1>. QED  BY <1>1 DEF ClipboardInv, TakesAll

LEMMA AnnounceKeeps ==
  ASSUME ClipboardInv, Announce
  PROVE  ClipboardInv'
<1>1. /\ ClipboardTyped /\ down \in Seq(Downs) /\ server.kept \in Nat /\ announced \in Nat
  BY DEF ClipboardInv, ClipboardTyped
<1>2. PICK kept \in Nat : kept = server.kept  BY <1>1
<1>3. /\ announced > 0 /\ announced' = announced - 1 /\ Wire
      /\ UNCHANGED <<commands, up, client, copies, server>>
  BY DEF Announce, Wire
<1>4. /\ [kind |-> "notify", text |-> kept] \in Downs
      /\ [kind |-> "provide", text |-> kept] \in Downs
  BY DEF Downs
<1>5. \/ down' = down
      \/ down' = Append(down, [kind |-> "notify", text |-> kept])
      \/ down' = Append(down, [kind |-> "provide", text |-> kept])
  <2>1. \/ down' = down \o <<>>
        \/ down' = down \o <<[kind |-> "notify", text |-> kept]>>
        \/ down' = down \o <<[kind |-> "provide", text |-> kept]>>
    BY <1>2 DEF Announce
  <2>. QED  BY <2>1, <1>1, <1>4, OneAdded, NoneAdded
<1>6. client.caps.notify => down' = Append(down, [kind |-> "notify", text |-> kept])
  <2>1. ASSUME client.caps.notify PROVE down' = down \o <<[kind |-> "notify", text |-> kept]>>
    BY <1>2, <2>1 DEF Announce
  <2>. QED  BY <2>1, <1>1, <1>4, OneAdded
<1>7. down' \in Seq(Downs)  BY <1>1, <1>4, <1>5, OneAdded
<1>8. announced' \in Nat  BY <1>1, <1>3
<1>9. ClipboardTyped'
  <2>1. UNCHANGED <<selection, events, requests, reads>>  BY <1>3 DEF Wire, desktopVars
  <2>. QED  BY <2>1, <1>1, <1>3, <1>7, <1>8 DEF ClipboardTyped
<1>10. TakesAll => ClientStands'
  <2>1. SUFFICES ASSUME TakesAll PROVE ClientStands'  OBVIOUS
  <2>2. PICK d : d = down'  OBVIOUS
  <2>3. d = Append(down, [kind |-> "notify", text |-> kept])  BY <1>6, <2>1, <2>2 DEF TakesAll
  <2>4. WireStands(d, up, client.text, kept)  BY <2>3, <1>1, AnnounceStands
  <2>. QED  BY <2>2, <2>4, <1>2, <1>3 DEF ClientStands
<1>. QED  BY <1>3, <1>9, <1>10, WireKeeps

LEMMA AnswerIs ==
  ASSUME NEW m \in Ups, server.kept \in Nat
  PROVE  Answer(m) = <<>> \/ \E x \in Downs : Answer(m) = <<x>>
<1>1. PICK kept \in Nat : kept = server.kept  OBVIOUS
<1>2. /\ [kind |-> "notify", text |-> kept] \in Downs
      /\ [kind |-> "provide", text |-> kept] \in Downs
      /\ [kind |-> "request", text |-> NoText] \in Downs
  BY DEF Downs, NoText
<1>3. \/ Answer(m) = <<[kind |-> "provide", text |-> kept]>>
      \/ Answer(m) = <<[kind |-> "notify", text |-> kept]>>
      \/ Answer(m) = <<[kind |-> "request", text |-> NoText]>>
      \/ Answer(m) = <<>>
  BY <1>1 DEF Answer
<1>. QED  BY <1>2, <1>3

LEMMA HandleKeeps ==
  ASSUME ClipboardInv, Handle
  PROVE  ClipboardInv'
<1>1. /\ ClipboardTyped /\ down \in Seq(Downs) /\ up \in Seq(Ups)
      /\ server.kept \in Nat /\ commands \in Seq(Nat)
  BY DEF ClipboardInv, ClipboardTyped
<1>2. PICK m : m = up[1]  OBVIOUS
<1>3. PICK v : v = Tail(up)  OBVIOUS
<1>4. PICK d : d = down'  OBVIOUS
<1>5. /\ up # <<>> /\ up' = v /\ d = down \o Answer(m) /\ Wire
      /\ commands' = IF m.kind = "provide" THEN Append(commands, m.text) ELSE commands
      /\ UNCHANGED <<announced, client, copies, server>>
  BY <1>2, <1>3, <1>4 DEF Handle, Wire
<1>6. m \in Ups /\ v \in Seq(Ups) /\ m.text \in Nat
  <2>1. m \in Ups /\ v \in Seq(Ups)  BY <1>1, <1>2, <1>3, <1>5, OneRead
  <2>. QED  BY <2>1 DEF Ups
<1>7. d \in Seq(Downs)
  <2>1. Answer(m) = <<>> \/ \E x \in Downs : Answer(m) = <<x>>  BY <1>1, <1>6, AnswerIs
  <2>2. CASE Answer(m) = <<>>  BY <2>2, <1>1, <1>5, NoneAdded
  <2>3. ASSUME NEW x \in Downs, Answer(m) = <<x>> PROVE d \in Seq(Downs)
    BY <2>3, <1>1, <1>5, OneAdded
  <2>. QED  BY <2>1, <2>2, <2>3
<1>8. /\ commands' \in Seq(Nat)
      /\ m.kind = "provide" => commands' # <<>>
      /\ m.kind # "provide" => commands' = commands
  <2>1. PICK q \in Seq(Nat) : q = commands  BY <1>1
  <2>2. PICK n \in Nat : n = m.text  BY <1>6
  <2>3. Append(q, n) \in Seq(Nat) /\ Append(q, n) # <<>>  BY OneAdded
  <2>. QED  BY <2>1, <2>2, <2>3, <1>5
<1>9. ClipboardTyped'
  <2>1. UNCHANGED <<selection, events, requests, reads>>  BY <1>5 DEF Wire, desktopVars
  <2>. QED  BY <2>1, <1>1, <1>4, <1>5, <1>6, <1>7, <1>8 DEF ClipboardTyped
<1>10. TakesAll /\ ClientStands => ClientStands'
  <2>1. SUFFICES ASSUME TakesAll, ClientStands PROVE ClientStands'  OBVIOUS
  <2>2. UNCHANGED <<events, reads>>  BY <1>5 DEF Wire, desktopVars
  <2>3. CASE m.kind = "provide"  BY <2>3, <1>8 DEF ClientStands
  <2>4. CASE m.kind # "provide" /\ ~WireStands(down, up, client.text, server.kept)
    BY <2>1, <2>2, <2>4, <1>5, <1>8 DEF ClientStands
  <2>5. CASE m.kind # "provide" /\ WireStands(down, up, client.text, server.kept)
    <3>1. WireStands(d, v, client.text, server.kept)
      BY <2>1, <2>5, <1>1, <1>2, <1>3, <1>5, HandledStands
    <3>. QED  BY <3>1, <1>4, <1>5 DEF ClientStands
  <2>. QED  BY <2>3, <2>4, <2>5
<1>. QED  BY <1>5, <1>9, <1>10, WireKeeps

LEMMA ClientCopiesKeeps ==
  ASSUME ClipboardInv, ClientCopies
  PROVE  ClipboardInv'
<1>1. /\ ClipboardTyped /\ down \in Seq(Downs) /\ up \in Seq(Ups) /\ copies \in Nat
      /\ client \in [text : Nat, caps : Caps]
  BY DEF ClipboardInv, ClipboardTyped
<1>2. PICK c : c = copies + 1  OBVIOUS
<1>3. c \in Nat \ {NoText}  BY <1>1, <1>2 DEF NoText
<1>4. PICK kind \in {"provide", "notify"} : up' = Append(up, [kind |-> kind, text |-> c])
  BY <1>2 DEF ClientCopies, Copy
<1>5. /\ copies' = c /\ client' = [client EXCEPT !.text = c] /\ Wire
      /\ UNCHANGED <<commands, announced, down, server>>
  BY <1>2 DEF ClientCopies, Copy, Wire
<1>6. /\ client' \in [text : Nat, caps : Caps] /\ client'.text = c
      /\ client'.caps = client.caps
  BY <1>1, <1>3, <1>5
<1>7. [kind |-> kind, text |-> c] \in Ups  BY <1>3 DEF Ups
<1>8. up' \in Seq(Ups)  BY <1>1, <1>4, <1>7, OneAdded
<1>9. ClipboardTyped'
  <2>1. UNCHANGED <<selection, events, requests, reads>>  BY <1>5 DEF Wire, desktopVars
  <2>. QED  BY <2>1, <1>1, <1>3, <1>5, <1>6, <1>8 DEF ClipboardTyped
<1>10. ClientStands => ClientStands'
  <2>1. SUFFICES ASSUME ClientStands PROVE ClientStands'  OBVIOUS
  <2>2. UNCHANGED <<events, reads>>  BY <1>5 DEF Wire, desktopVars
  <2>3. CASE ~WireStands(down, up, client.text, server.kept)
    BY <2>1, <2>2, <2>3, <1>5 DEF ClientStands
  <2>4. CASE WireStands(down, up, client.text, server.kept)
    <3>1. PICK u : u = Append(up, [kind |-> kind, text |-> c])  OBVIOUS
    <3>2. WireStands(down, u, c, server.kept)
      BY <2>4, <3>1, <1>1, <1>3, CopiedStands
    <3>. QED  BY <3>1, <3>2, <1>4, <1>5, <1>6 DEF ClientStands
  <2>. QED  BY <2>3, <2>4
<1>. QED  BY <1>5, <1>6, <1>9, <1>10, WireKeeps

LEMMA ClientPeeksKeeps ==
  ASSUME ClipboardInv, ClientPeeks
  PROVE  ClipboardInv'
<1>1. ClipboardTyped  BY DEF ClipboardInv
<1>2. PICK u : u = up'  OBVIOUS
<1>3. /\ u = <<[kind |-> "peek", text |-> NoText]>> /\ Wire
      /\ UNCHANGED <<commands, announced, down, client, copies, server>>
  BY <1>2 DEF ClientPeeks, Wire
<1>4. PICK m \in Ups : m = [kind |-> "peek", text |-> NoText]  BY DEF Ups, NoText
<1>5. u \in Seq(Ups) /\ ToSet(u) = {m}  BY <1>3, <1>4 DEF ToSet
<1>6. ClipboardTyped'
  <2>1. UNCHANGED <<selection, events, requests, reads>>  BY <1>3 DEF Wire, desktopVars
  <2>. QED  BY <2>1, <1>1, <1>2, <1>3, <1>5 DEF ClipboardTyped
<1>7. ClientStands'
  <2>1. WillAsk(down, u)  BY <1>4, <1>5 DEF WillAsk
  <2>. QED  BY <2>1, <1>2, <1>3 DEF ClientStands, WireStands
<1>. QED  BY <1>3, <1>6, <1>7, WireKeeps

LEMMA ClientReadsKeeps ==
  ASSUME ClipboardInv, ClientReads
  PROVE  ClipboardInv'
<1>1. /\ ClipboardTyped /\ down \in Seq(Downs) /\ up \in Seq(Ups)
      /\ client \in [text : Nat, caps : Caps] /\ client.text \in Nat
  BY DEF ClipboardInv, ClipboardTyped
<1>2. PICK m : m = down[1]  OBVIOUS
<1>3. PICK t : t = Tail(down)  OBVIOUS
<1>4. PICK u : u = up'  OBVIOUS
<1>5. PICK held : held = client'.text  OBVIOUS
<1>6. /\ down # <<>> /\ down' = t /\ Wire
      /\ UNCHANGED <<commands, announced, copies, server>>
  BY <1>3 DEF ClientReads, Wire
<1>7. m \in Downs /\ t \in Seq(Downs) /\ m.text \in Nat
  <2>1. m \in Downs /\ t \in Seq(Downs)  BY <1>1, <1>2, <1>3, <1>6, OneRead
  <2>. QED  BY <2>1 DEF Downs
<1>8. /\ u \in Seq(Ups) /\ client' \in [text : Nat, caps : Caps]
      /\ client'.caps = client.caps
      /\ WireStands(down, up, client.text, server.kept) => WireStands(t, u, held, server.kept)
  <2>1. CASE m.kind = "request" /\ client.text # NoText
    <3>1. u = Append(up, [kind |-> "provide", text |-> client.text]) /\ client' = client
      BY <2>1, <1>2, <1>4 DEF ClientReads
    <3>2. [kind |-> "provide", text |-> client.text] \in Ups  BY <1>1 DEF Ups
    <3>3. u \in Seq(Ups)  BY <3>1, <3>2, <1>1, OneAdded
    <3>4. WireStands(t, u, held, server.kept)  BY <3>1, <1>1, GivesStands
    <3>. QED  BY <3>1, <3>3, <3>4, <1>1
  <2>2. CASE m.kind = "request" /\ client.text = NoText
    <3>1. u = up /\ client' = client  BY <2>2, <1>2, <1>4 DEF ClientReads
    <3>. QED  BY <3>1, <2>2, <1>1, <1>2, <1>3, <1>5, <1>6, ReadStands
  <2>3. CASE m.kind = "notify" /\ m.text # NoText
    <3>1. u = Append(up, [kind |-> "request", text |-> NoText]) /\ client' = client
      BY <2>3, <1>2, <1>4 DEF ClientReads
    <3>2. [kind |-> "request", text |-> NoText] \in Ups  BY DEF Ups, NoText
    <3>3. u \in Seq(Ups)  BY <3>1, <3>2, <1>1, OneAdded
    <3>4. WireStands(t, u, held, server.kept)  BY <3>1, <1>1, AsksStands
    <3>. QED  BY <3>1, <3>3, <3>4, <1>1
  <2>4. CASE Sets(m)
    <3>1. m.kind # "request" /\ ~(m.kind = "notify" /\ m.text # NoText)
      BY <2>4 DEF Sets
    <3>2. u = up /\ client' = [client EXCEPT !.text = m.text]
      BY <3>1, <1>2, <1>4 DEF ClientReads
    <3>3. /\ client' \in [text : Nat, caps : Caps] /\ client'.caps = client.caps
          /\ held = m.text
      BY <3>2, <1>1, <1>5, <1>7
    <3>. QED  BY <3>2, <3>3, <2>4, <1>1, <1>2, <1>3, <1>6, ReadStands
  <2>. QED  BY <2>1, <2>2, <2>3, <2>4, <1>7 DEF Downs, Sets
<1>9. ClipboardTyped'
  <2>1. UNCHANGED <<selection, events, requests, reads>>  BY <1>6 DEF Wire, desktopVars
  <2>. QED  BY <2>1, <1>1, <1>4, <1>6, <1>7, <1>8 DEF ClipboardTyped
<1>10. ClientStands => ClientStands'
  <2>1. UNCHANGED <<events, reads>>  BY <1>6 DEF Wire, desktopVars
  <2>. QED  BY <2>1, <1>4, <1>5, <1>6, <1>8 DEF ClientStands
<1>. QED  BY <1>6, <1>8, <1>9, <1>10, WireKeeps

LEMMA ClipboardStep ==
  ASSUME ClipboardInv, [ClipboardNext]_clipboardVars
  PROVE  ClipboardInv'
<1>1. CASE UNCHANGED clipboardVars
  BY <1>1 DEF clipboardVars, ClipboardInv, ClipboardTyped, ClientStands, TakesAll
<1>2. CASE ClipboardNext
  BY <1>2, DesktopKeeps, SetArrivesKeeps, EventKeeps, FinishedKeeps, CommandKeeps,
     ReadEndsKeeps, AnnounceKeeps, HandleKeeps, ClientReadsKeeps, ClientCopiesKeeps,
     ClientPeeksKeeps DEF ClipboardNext
<1>. QED  BY <1>1, <1>2

\* Whatever is on its way, the desktop's side and the client's stand as said.
THEOREM ClipboardSafe == ClipboardSpec => []ClipboardInv
BY ClipboardBegins, ClipboardStep, PTL DEF ClipboardSpec

\* Nothing is on its way: the two clipboards hold one text.
LEMMA SettledAgree == ClipboardInv => ClipboardsAgree
<1>. SUFFICES ASSUME ClipboardInv, ClipboardSettled, spoilt = {}
     PROVE  /\ server.kept = selection.text
            /\ selection.of = Nobodys /\ TakesAll => client.text = selection.text
            /\ selection.of = Nobodys \/ selection.of = server.source
  BY DEF ClipboardsAgree, TakesAll
<1>1. /\ events = <<>> /\ requests = <<>> /\ reads = <<>> /\ commands = <<>>
      /\ announced = 0 /\ down = <<>> /\ up = <<>> /\ server.device
  BY DEF ClipboardSettled
<1>2. /\ SourceStands(selection, events, server)
      /\ ReadsStand(reads, selection, events, server)
      /\ TakesAll => ClientStands
  BY <1>1 DEF ClipboardInv, DesktopStands
<1>3. ToSet(<<>>) = {} /\ \A n : ~Cancels(<<>>, n)
  BY NoneIn DEF Cancels
<1>4. \/ server.source = Nobodys /\ selection.of = Nobodys
      \/ /\ server.source # Nobodys /\ selection.of = server.source
         /\ selection.text = server.kept
  BY <1>1, <1>2, <1>3 DEF SourceStands
<1>5. server.kept = selection.text  BY <1>1, <1>2, <1>4 DEF ReadsStand
<1>6. ASSUME selection.of = Nobodys, TakesAll PROVE client.text = selection.text
  <2>1. WireStands(<<>>, <<>>, client.text, server.kept)
    BY <1>1, <1>2, <1>4, <1>6 DEF ClientStands
  <2>2. LandsOn(<<>>, client.text, server.kept)
    BY <2>1, <1>3 DEF WireStands, WillAsk, Gives, WillGive
  <2>3. Len(<<>>) = 0  OBVIOUS
  <2>4. client.text = server.kept  BY <2>2, <2>3 DEF LandsOn
  <2>. QED  BY <2>4, <1>5
<1>. QED  BY <1>4, <1>5, <1>6

\* Once everything under way has landed, the text kept is the selection's, and
\* the client holds it (clipboard.rs, Session::clipboard).
THEOREM SettledClipboardsAgree == ClipboardSpec => []ClipboardsAgree
BY ClipboardSafe, SettledAgree, PTL
=================================================================================
