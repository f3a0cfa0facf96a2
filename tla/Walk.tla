--------------------------------- MODULE Walk ---------------------------------
(***************************************************************************)
(* The quality and the frame rate a link will bear (src/walk.rs).          *)
(*                                                                         *)
(* A frame's verdict is how long its write blocked and, where measured,    *)
(* how far behind the client is, the link's floor taken off: any values    *)
(* here, as a link may show any.  Instants are ages, which stop growing    *)
(* where nothing tells them apart.  An instant of reclaimed or climbed is  *)
(* that of changed_at while there is one: what moves the dial later clears *)
(* both.  The link may at some point be clear, or behind, from then on.    *)
(***************************************************************************)
EXTENDS Integers, Sequences, FiniteSets

CONSTANTS
  CEILING, QUALITY_FLOOR, STEP_DOWN, STEP_UP, STEP_UP_MAX, SLOW_MAX,
  BEHIND_FRAMES, VERDICT_WINDOW, CLEAR_FRAMES,
  REFUSAL_COOLDOWN, HEAVY_COOLDOWN, CLIMB_SPAN, ADJUST_COOLDOWN, CLEAR_SPAN,
  KEYFRAME_HOLD, REFUSAL_WINDOW, REFUSAL_HOLD,
  Lags,      \* Queueing a verdict may show, in milliseconds.
  Blocks     \* How long a write may block.

BEHIND_BLOCK   == 20
LAG_IDLE       == 15
LAG_CLEAR      == 30
LAG_BEHIND     == 60
LAG_HEAVY      == 150
LAG_SEVERE     == 400
DRAIN_FRACTION == 5

ASSUME WalkAssumption ==
  /\ Lags \cup Blocks \subseteq Nat /\ 0 \in Lags \cap Blocks
  /\ {CEILING, QUALITY_FLOOR, STEP_UP_MAX, SLOW_MAX} \subseteq Nat
  /\ {BEHIND_FRAMES, VERDICT_WINDOW, CLEAR_FRAMES} \subseteq Nat \ {0}
  /\ {REFUSAL_COOLDOWN, HEAVY_COOLDOWN, CLIMB_SPAN, ADJUST_COOLDOWN, CLEAR_SPAN,
      KEYFRAME_HOLD, REFUSAL_WINDOW, REFUSAL_HOLD} \subseteq Nat
  /\ STEP_DOWN \in Nat \ {0} /\ STEP_UP \in 1 .. STEP_UP_MAX
  /\ REFUSAL_COOLDOWN <= HEAVY_COOLDOWN /\ HEAVY_COOLDOWN <= ADJUST_COOLDOWN
  /\ REFUSAL_WINDOW + 1 < REFUSAL_HOLD

NoLag   == -1      \* Nothing measured it.
NoRun   == [count |-> 0, age |-> 0, most |-> NoLag]
Never   == REFUSAL_HOLD

Smaller(a, b) == IF a < b THEN a ELSE b
Larger(a, b)  == IF a > b THEN a ELSE b

VARIABLES
  walk,     \* QualityWalk.
  link,     \* What the link does from here on: any, clear or behind.
  denied    \* History: the quality refused last, and how long ago.

walkVars == <<walk, link, denied>>

Floor == Smaller(QUALITY_FLOOR, CEILING)

WalkInit ==
  /\ \E aware \in BOOLEAN :
       walk = [lagAware |-> aware, quality |-> CEILING, slow |-> 0,
               verdicts |-> <<>>, clear |-> NoRun, changed |-> ADJUST_COOLDOWN,
               held |-> 0, reclaim |-> STEP_UP,
               reclaimed |-> [from |-> 0, age |-> Never],
               refused |-> [cap |-> CEILING, age |-> Never],
               steppedOn |-> NoLag, climbed |-> FALSE]
  /\ link = "any"
  /\ denied = [quality |-> CEILING + 1, age |-> Never]

Reclaimed(w) == w.reclaimed.age < Never
NoReclaimed  == [from |-> 0, age |-> Never]

-----------------------------------------------------------------------------
(* Verdicts.  Every operator here is of w, the walk.                       *)

\* The step down that walks a step up back, and the quality then out of reach.
Refusal(w) == Reclaimed(w) /\ w.reclaimed.age <= REFUSAL_WINDOW

(* Mutant: a quality the link refused is no cap on the steps up behind it. *)
GiveUpForgetting(w, lag, soon) ==
  LET steps == IF lag >= LAG_SEVERE THEN 3 ELSE IF lag >= LAG_HEAVY THEN 2 ELSE 1
      onFloor == w.quality <= Floor
      slower  == (onFloor \/ (steps = 3 /\ ~soon)) /\ w.slow < SLOW_MAX
  IN [w EXCEPT
        !.quality = IF Refusal(w) THEN Smaller(w.quality, w.reclaimed.from)
                    ELSE IF onFloor THEN @ ELSE Larger(@ - STEP_DOWN * steps, Floor),
        !.slow    = IF slower THEN @ + 1 ELSE @,
        !.reclaim = STEP_UP, !.reclaimed = NoReclaimed,
        !.climbed = FALSE, !.steppedOn = lag]

GiveUp(w, lag, soon) ==
  LET steps == IF lag >= LAG_SEVERE THEN 3 ELSE IF lag >= LAG_HEAVY THEN 2 ELSE 1
      onFloor == w.quality <= Floor
      from    == w.reclaimed.from
      slower  == (onFloor \/ (steps = 3 /\ ~soon)) /\ w.slow < SLOW_MAX
  IN [w EXCEPT
        !.refused = IF Refusal(w)
                    THEN [cap |-> from + (w.quality - from) \div 2, age |-> 0] ELSE @,
        !.quality = IF Refusal(w) THEN Smaller(w.quality, from)
                    ELSE IF onFloor THEN @ ELSE Larger(@ - STEP_DOWN * steps, Floor),
        !.slow    = IF slower THEN @ + 1 ELSE @,
        !.reclaim = STEP_UP, !.reclaimed = NoReclaimed,
        !.climbed = FALSE, !.steppedOn = lag]

(* Mutant: a refusal is never forgotten.                                   *)
TakeBackCapped(w) ==
  LET wanted == Smaller(w.quality + w.reclaim, w.refused.cap)
  IN CASE w.slow > 0 ->
            [w EXCEPT !.slow = @ - 1, !.steppedOn = NoLag, !.climbed = TRUE]
       [] w.slow = 0 /\ wanted <= w.quality -> w
       [] OTHER ->
            [w EXCEPT !.quality = wanted,
                      !.reclaim = IF wanted = w.refused.cap /\ wanted < CEILING THEN STEP_UP
                                  ELSE Smaller(2 * @, STEP_UP_MAX),
                      !.reclaimed = [from |-> w.quality, age |-> 0],
                      !.steppedOn = NoLag, !.climbed = TRUE]

\* Frames first, and then quality, held under what was refused.
TakeBack(w) ==
  LET refused == IF w.refused.age >= REFUSAL_HOLD
                 THEN [cap |-> CEILING, age |-> Never] ELSE w.refused
      ceiling == Smaller(refused.cap, CEILING)
      wanted  == Smaller(w.quality + w.reclaim, ceiling)
  IN CASE w.slow > 0 ->
            [w EXCEPT !.slow = @ - 1, !.steppedOn = NoLag, !.climbed = TRUE]
       [] w.slow = 0 /\ wanted <= w.quality -> [w EXCEPT !.refused = refused]
       [] OTHER ->
            [w EXCEPT !.refused = refused, !.quality = wanted,
                      !.reclaim = IF wanted = ceiling /\ ceiling < CEILING THEN STEP_UP
                                  ELSE Smaller(2 * @, STEP_UP_MAX),
                      !.reclaimed = [from |-> w.quality, age |-> 0],
                      !.steppedOn = NoLag, !.climbed = TRUE]

\* What a verdict adds to the run of clear frames.
Run(w, behind, lag, queued) ==
  CASE behind -> NoRun
    [] ~behind /\ lag <= LAG_CLEAR /\ w.clear.count = 0 ->
         [count |-> 1, age |-> 0, most |-> queued]
    [] ~behind /\ lag <= LAG_CLEAR /\ w.clear.count > 0 ->
         [w.clear EXCEPT !.count = Smaller(@ + 1, CLEAR_FRAMES),
                         !.most = IF NoLag \in {@, queued} THEN NoLag ELSE Larger(@, queued)]
    [] OTHER -> [w.clear EXCEPT !.most = IF @ = NoLag THEN NoLag ELSE lag]

Behinds(s) == Cardinality({i \in 1 .. Len(s) : s[i]})

\* A move of the dial starts the verdicts over, and the cooldown.
Moved(w) == [w EXCEPT !.verdicts = <<>>, !.clear = NoRun, !.changed = 0]

\* The walk with one more verdict, of the last few.
Judged(behind, lag, queued) ==
  LET shown == Append(walk.verdicts, behind)
  IN [walk EXCEPT !.verdicts = IF Len(shown) > VERDICT_WINDOW THEN Tail(shown) ELSE shown,
                  !.clear = Run(walk, behind, lag, queued)]

\* What it makes of the dial: nothing inside the cooldown, a step down where
\* enough of the last ones were behind and what is queued does not drain, a
\* step up on a run of clear ones.
Decided(w, behind, lag) ==
  LET climbing == w.climbed /\ w.clear.count > 0 /\ w.clear.most \in 0 .. LAG_IDLE
      cooldown == CASE behind /\ Reclaimed(w) -> REFUSAL_COOLDOWN
                    [] behind /\ ~Reclaimed(w) /\ lag >= LAG_HEAVY /\ w.steppedOn # NoLag ->
                         HEAVY_COOLDOWN
                    [] ~behind /\ climbing -> CLIMB_SPAN
                    [] OTHER -> ADJUST_COOLDOWN
      gives  == behind /\ Behinds(w.verdicts) >= BEHIND_FRAMES
      drains == w.steppedOn # NoLag /\ lag + w.steppedOn \div DRAIN_FRACTION < w.steppedOn
      takes  == /\ ~gives /\ w.clear.count >= CLEAR_FRAMES
                /\ w.clear.age >= (IF climbing THEN CLIMB_SPAN ELSE CLEAR_SPAN)
      given  == GiveUp(w, lag, w.changed < ADJUST_COOLDOWN)
      taken  == TakeBack(w)
      dial(v) == <<v.quality, v.slow>>
  IN CASE w.changed < cooldown -> w
       [] w.changed >= cooldown /\ gives /\ drains ->
            [w EXCEPT !.steppedOn = lag, !.changed = 0]
       [] w.changed >= cooldown /\ gives /\ ~drains ->
            IF dial(given) = dial(w) THEN given ELSE Moved(given)
       [] w.changed >= cooldown /\ takes ->
            IF dial(taken) = dial(w) THEN taken ELSE Moved(taken)
       [] OTHER -> w

Hear(blocked, measured) ==
  LET queued == IF measured = NoLag \/ ~walk.lagAware THEN NoLag
                ELSE Larger(measured, blocked)
      lag    == Larger(queued, blocked)
      behind == blocked >= BEHIND_BLOCK \/ queued >= LAG_BEHIND
  IN IF walk.held > 0 THEN walk
     ELSE Decided(Judged(behind, lag, queued), behind, lag)

-----------------------------------------------------------------------------
BehindNow(blocked, lag) == blocked >= BEHIND_BLOCK \/ (walk.lagAware /\ lag >= LAG_BEHIND)

\* A frame's verdict: of its fence (fenced) or a paint window (observe), or of
\* its write alone (written).
Frame(blocked, lag) ==
  /\ link = "clear" => Larger(blocked, lag) <= LAG_IDLE
  /\ link = "behind" => BehindNow(blocked, lag)
  /\ walk' = Hear(blocked, lag)
  /\ denied' = IF walk'.quality < walk.quality /\ Refusal(walk)
               THEN [quality |-> walk.quality, age |-> 0] ELSE denied
  /\ UNCHANGED link

\* The tiles are sent what the desktop's stopping owes.
Settle ==
  /\ link = "any"
  /\ walk' = [walk EXCEPT !.verdicts = <<>>, !.clear = NoRun, !.changed = 0,
                          !.steppedOn = NoLag, !.reclaimed = NoReclaimed, !.climbed = FALSE]
  /\ UNCHANGED <<link, denied>>

Keyframe ==
  /\ link = "any"
  /\ walk' = [walk EXCEPT !.verdicts = <<>>, !.clear = NoRun, !.steppedOn = NoLag,
                          !.held = KEYFRAME_HOLD]
  /\ UNCHANGED <<link, denied>>

Older(age, most) == Smaller(age + 1, most)

\* Time passes.
Tick ==
  /\ walk' = [walk EXCEPT
                !.changed = Older(@, ADJUST_COOLDOWN), !.held = Larger(@ - 1, 0),
                !.clear.age = IF walk.clear.count = 0 THEN 0 ELSE Older(@, CLEAR_SPAN),
                !.reclaimed.age = IF @ = Never THEN @ ELSE Older(@, REFUSAL_WINDOW + 1),
                !.refused.age = Older(@, REFUSAL_HOLD)]
  /\ denied' = IF denied.age + 1 >= REFUSAL_HOLD
               THEN [quality |-> CEILING + 1, age |-> Never]
               ELSE [denied EXCEPT !.age = @ + 1]
  /\ UNCHANGED link

LinkBecomes(l) == link = "any" /\ link' = l /\ UNCHANGED <<walk, denied>>

Frames == \E blocked \in Blocks, lag \in Lags \union {NoLag} : Frame(blocked, lag)

WalkNext ==
  \/ Frames \/ Settle \/ Keyframe \/ Tick
  \/ \E l \in {"clear", "behind"} : LinkBecomes(l)

\* Frames keep coming, and time passes.
WalkFairSpec ==
  WalkInit /\ [][WalkNext]_walkVars /\ WF_walkVars(Frames) /\ WF_walkVars(Tick)

-----------------------------------------------------------------------------
\* A step up is only ever taken back to where it left from, and a quality the
\* link refused is not given again while the refusal holds, whatever verdicts,
\* settles and keyframes come in between.
RefusedIsOutOfReach ==
  /\ Reclaimed(walk) => walk.reclaimed.from < walk.quality
  /\ denied.age < REFUSAL_HOLD => walk.quality < denied.quality

\* A link that is clear from some point on is given the ceiling and every frame
\* again, and one that is behind from then on gives up all there is to give.
WalkArrives ==
  /\ [](link = "clear" => <>(walk.quality = CEILING /\ walk.slow = 0))
  /\ [](link = "behind" => <>(walk.quality = Floor /\ walk.slow = SLOW_MAX))
=============================================================================
