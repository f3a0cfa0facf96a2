----------------------------- MODULE TilesProofs -----------------------------
(***************************************************************************)
(* What TLAPS proves of Tiles: for any width, colours, cache, number of    *)
(* streams and stages, and any bounds, what the encoder believes of the    *)
(* client is so.  A send leaves the tiles it carries right, or better and  *)
(* in debt, and the others as they were; the streams are apart, and the    *)
(* record of the cache is what the slots keep, whatever is drawn from it   *)
(* before it is stored over.                                               *)
(***************************************************************************)
EXTENDS Tiles, FiniteSetTheorems, SequenceTheorems, WellFoundedInduction, TLAPS

-----------------------------------------------------------------------------
(* The inductive invariant, of the encoder and the client together: their  *)
(* pair is what every step of an update makes another of.                  *)

Shades  == Colours \cup {Torn}
Drawn   == [of : Shades, level : 0 .. EXACT]
Passes  == [of : Shades, stage : (0 - 1) .. FULL]
Parts   == UNION {[S -> [whole : BOOLEAN, from : Shades]] : S \in SUBSET Cells}
Streams == [id : Nat, area : SUBSET Cells, pic : UNION {[S -> Shades] : S \in SUBSET Cells},
            pending : Parts, dirty : BOOLEAN, started : BOOLEAN]
Entries == [slot : 1 .. CACHE_SLOTS, of : Shades, settled : BOOLEAN]

Encoders ==
  [mirror : [Cells -> Shades], restart : BOOLEAN, live : SUBSET Streams, ended : SUBSET Nat,
   debts : SUBSET Cells, cache : Seq(Entries), stills : Parts, moved : BOOLEAN,
   picture : Picture, held : [Cells -> Passes]]

Clients ==
  [shown : [Cells -> Drawn], kept : UNION {[S -> Drawn] : S \in SUBSET (1 .. CACHE_SLOTS)},
   streams : SUBSET [id : Nat, area : SUBSET Cells], fault : BOOLEAN]

Work == [enc : Encoders, client : Clients]

\* Settled, of the pair w rather than of the state.
Whole(w, tile) == tile.level >= IF w.enc.picture = "progressive" THEN FULL ELSE EXACT

\* The record: of n entries the slots are the first n, each once, and no tile is twice.
CacheGood(q) ==
  \A i, j \in 1 .. Len(q) :
    /\ q[i].slot <= Len(q)
    /\ q[i].slot = q[j].slot \/ q[i].of = q[j].of => i = j

\* The slot of an entry keeps what the entry says.
Keeps(w, k) ==
  /\ k.slot \in DOMAIN w.client.kept
  /\ w.client.kept[k.slot].of = k.of
  /\ k.settled => Whole(w, w.client.kept[k.slot])

CacheHolds(w) ==
  /\ CacheGood(w.enc.cache)
  /\ \A i \in 1 .. Len(w.enc.cache) : Keeps(w, w.enc.cache[i])

\* A stream carries a box, and what waits for it lies in it.
Shaped(l) ==
  /\ DOMAIN l.pending \subseteq l.area
  /\ l.pic = <<>> \/ DOMAIN l.pic = l.area
  /\ \A a, b \in l.area, c \in Cells : a <= c /\ c <= b => c \in l.area

\* No two streams have an id or a tile in common.
Apart(L) ==
  /\ IsFiniteSet(L)
  /\ \A l, m \in L : l.id = m.id \/ l.area \cap m.area # {} => l = m
  /\ \A l \in L : Shaped(l)

\* What a client told of these streams decodes.
Known(L) == {[id |-> l.id, area |-> l.area] : l \in {m \in L : m.started}}

\* What a stream carries is in debt, and no still of it is owed; the client decodes
\* those that started, or is owed the END of what it decodes.
StreamsHold(w) ==
  /\ Apart(w.enc.live)
  /\ \A l \in w.enc.live : l.area \subseteq w.enc.debts /\ l.area \cap DOMAIN w.enc.stills = {}
  /\ w.enc.picture # "held" => w.enc.live = {}
  /\ w.enc.restart => {s.id : s \in w.client.streams} = w.enc.ended
  /\ ~ w.enc.restart => w.enc.ended = {} /\ w.client.streams = Known(w.enc.live)

\* The client shows the tile as the mirror has it, settled.
Right(w, c) == w.client.shown[c].of = w.enc.mirror[c] /\ Whole(w, w.client.shown[c])

\* A tile is in debt, or right, or a still is owed of all that is wrong with it.
Sound(w, stills, c) ==
  \/ c \in w.enc.debts \/ Right(w, c)
  \/ /\ c \in DOMAIN stills
     /\ stills[c].whole \/ /\ w.client.shown[c].of \in {stills[c].from, w.enc.mirror[c]}
                           /\ Whole(w, w.client.shown[c])

\* The coefficients the encoder has for the client's are what the client shows, and
\* of the mirror unless a still is owed.
PassHolds(w, stills, c) ==
  w.enc.held[c] # NoneHeld =>
    /\ w.enc.picture = "progressive"
    /\ w.enc.held[c].stage \in 0 .. FULL
    /\ w.client.shown[c] = [of |-> w.enc.held[c].of, level |-> w.enc.held[c].stage]
    /\ c \in DOMAIN stills \/ w.enc.held[c].of = w.enc.mirror[c]

PictureHolds(w) ==
  /\ \A c \in Cells : PassHolds(w, w.enc.stills, c)
  /\ ~ w.enc.restart => \A c \in Cells : Sound(w, w.enc.stills, c)
  /\ w.enc.picture = "lossless" => w.enc.debts = {}
  /\ ~ w.client.fault

\* What each step leaves to the next: a picture to be sent whole has nothing else
\* about it, and past the stills whatever is owed is in debt.
PhaseHolds(w, at) ==
  /\ at \in {"between", "stills", "round", "tick", "rest", "again"}
  /\ w.enc.restart => /\ at = "between"
                      /\ w.enc.live = {} /\ w.enc.debts = {} /\ w.enc.stills = <<>>
  /\ at \in {"between", "tick"} => DOMAIN w.enc.stills \subseteq w.enc.debts
  /\ at \in {"round", "again"} => w.enc.picture = "held"
  /\ at \in {"round", "again"} \/ (w.enc.picture # "held" /\ at # "stills") => DOMAIN w.enc.stills = {}

TilesInv ==
  /\ Pair \in Work /\ CacheHolds(Pair) /\ StreamsHold(Pair) /\ PictureHolds(Pair)
  /\ PhaseHolds(Pair, phase)

-----------------------------------------------------------------------------
(* Steps one after the other.                                              *)

\* Induction over a set of places, which needs no predicate.
LEMMA StepByStep ==
  ASSUME NEW S, NEW n \in Nat, 0 \in S, \A i \in 0 .. n - 1 : i \in S => i + 1 \in S
  PROVE  \A i \in 0 .. n : i \in S
<1>. DEFINE T == {j \in 0 .. n : j \notin S}
            R == {ss \in Nat \X Nat : ss[1] < ss[2]}
<1>1. SUFFICES ASSUME T # {} PROVE FALSE  OBVIOUS
<1>2. T \subseteq Nat  OBVIOUS
<1>3. IsWellFoundedOn(R, Nat)  BY NatLessThanWellFounded DEF OpToRel
<1>4. PICK x \in T : \A y \in T : ~ (<<y, x>> \in R)
  <2>. HIDE DEF T, R
  <2>. QED  BY ONLY <1>1, <1>2, <1>3, WFMin
<1>5. \A y \in T : ~ (y < x)  BY <1>2, <1>4
<1>6. x # 0 /\ x \in 0 .. n /\ x \notin S  OBVIOUS
<1>7. x - 1 \in 0 .. n - 1 /\ x - 1 \notin T  BY <1>5, <1>6
<1>8. x - 1 \in S  BY <1>7
<1>. QED  BY <1>6, <1>7, <1>8

\* What is at each place of g is made by G of what is at the one before.
Follows(g, n, base, G) ==
  g = [i \in 0 .. n |-> IF i = 0 THEN base ELSE G[<<g[i - 1], i>>]]

\* What such a function is at each place.
LEMMA FollowsAt ==
  ASSUME NEW n \in Nat, NEW base, NEW G, NEW g, Follows(g, n, base, G)
  PROVE  g[0] = base /\ \A i \in 1 .. n : g[i] = G[<<g[i - 1], i>>]
<1>. DEFINE E == [i \in 0 .. n |-> IF i = 0 THEN base ELSE G[<<g[i - 1], i>>]]
<1>1. g = E  BY DEF Follows
<1>2. E[0] = base /\ \A i \in 1 .. n : E[i] = G[<<g[i - 1], i>>]  OBVIOUS
<1>. HIDE DEF E
<1>. QED  BY <1>1, <1>2

\* There is such a function.
LEMMA FollowsThere ==
  ASSUME NEW n \in Nat, NEW base, NEW G
  PROVE  \E g : Follows(g, n, base, G)
<1>. DEFINE S == {m \in 0 .. n : \E g : Follows(g, m, base, G)}
<1>1. 0 \in S
  <2>. DEFINE g == [i \in 0 .. 0 |-> base]
  <2>1. Follows(g, 0, base, G)  BY DEF Follows
  <2>. HIDE DEF g
  <2>. QED  BY <2>1
<1>2. ASSUME NEW m \in 0 .. n - 1, m \in S  PROVE m + 1 \in S
  <2>1. PICK g : Follows(g, m, base, G)  BY <1>2
  <2>2. g[0] = base /\ (\A i \in 1 .. m : g[i] = G[<<g[i - 1], i>>])  BY <2>1, FollowsAt
  <2>. DEFINE longer == [i \in 0 .. m + 1 |-> IF i <= m THEN g[i] ELSE G[<<g[m], m + 1>>]]
              E == [i \in 0 .. m + 1 |-> IF i = 0 THEN base ELSE G[<<longer[i - 1], i>>]]
  <2>3. ASSUME NEW i \in 0 .. m + 1  PROVE longer[i] = E[i]
    <3>1. CASE i = 0  BY <2>2, <3>1
    <3>2. CASE i # 0 /\ i <= m
      <4>1. longer[i] = g[i] /\ longer[i - 1] = g[i - 1] /\ i \in 1 .. m  BY <3>2
      <4>. QED  BY <2>2, <3>2, <4>1
    <3>3. CASE i = m + 1
      <4>1. longer[i] = G[<<g[m], m + 1>>] /\ longer[i - 1] = g[m] /\ i # 0  BY <3>3
      <4>. QED  BY <3>3, <4>1
    <3>. QED  BY <3>1, <3>2, <3>3
  <2>4. longer = E
    <3>1. longer = [i \in 0 .. m + 1 |-> longer[i]] /\ E = [i \in 0 .. m + 1 |-> E[i]]  OBVIOUS
    <3>. HIDE DEF longer, E
    <3>. QED  BY <2>3, <3>1
  <2>5. Follows(longer, m + 1, base, G)  BY <2>4 DEF Follows
  <2>. HIDE DEF longer
  <2>. QED  BY <2>5
<1>3. n \in S
  <2>. HIDE DEF S
  <2>1. \A i \in 0 .. n : i \in S  BY <1>1, <1>2, StepByStep
  <2>. QED  BY <2>1
<1>. QED  BY <1>3

\* Each of them is in its set, and so are those of any function made by steps that
\* are G's wherever they start in these sets.
LEMMA FollowsIn ==
  ASSUME NEW n \in Nat, NEW g, NEW I, g[0] \in I[0],
         \A i \in 1 .. n : g[i - 1] \in I[i - 1] => g[i] \in I[i]
  PROVE  \A i \in 0 .. n : g[i] \in I[i]
<1>. DEFINE S == {i \in 0 .. n : g[i] \in I[i]}
<1>1. 0 \in S  OBVIOUS
<1>2. ASSUME NEW i \in 0 .. n - 1, i \in S  PROVE i + 1 \in S
  <2>1. i + 1 \in 1 .. n /\ (i + 1) - 1 = i  OBVIOUS
  <2>2. g[i] \in I[i]  BY <1>2
  <2>3. g[i + 1] \in I[i + 1]  BY <2>1, <2>2
  <2>. QED  BY <2>1, <2>3
<1>. HIDE DEF S
<1>3. \A i \in 0 .. n : i \in S  BY <1>1, <1>2, StepByStep
<1>. QED  BY <1>3 DEF S

-----------------------------------------------------------------------------
(* What is made tile after tile stays in the sets its steps lead into.     *)

\* A run drawn is in the last of the sets that each tile's still leads along.
LEMMA DrawnRunRuns ==
  ASSUME NEW w, NEW run, NEW stills, NEW hits, NEW I, w \in I[0],
         \A c \in Cells : \A v \in I[c - 1] :
           (IF c \in run THEN StillTile(v, c, stills, hits) ELSE v) \in I[c]
  PROVE  DrawnRun(w, run, stills, hits) \in I[Width]
<1>. DEFINE One(v, c) == IF c \in run THEN StillTile(v, c, stills, hits) ELSE v
            U == UNION {I[c] : c \in 0 .. Width}
            G == [p \in U \X Cells |-> One(p[1], p[2])]
            E(g) == [c \in 0 .. Width |-> IF c = 0 THEN w
                                          ELSE IF c \in run THEN StillTile(g[c - 1], c, stills, hits)
                                          ELSE g[c - 1]]
            chosen == CHOOSE g : g = E(g)
<1>1. Width \in Nat /\ Cells = 1 .. Width  BY TilesAssumption DEF Cells
<1>2. DrawnRun(w, run, stills, hits) = chosen[Width]  BY DEF DrawnRun, InOrder
<1>3. PICK g : Follows(g, Width, w, G)
  <2>. HIDE DEF G
  <2>. QED  BY <1>1, FollowsThere
<1>4. g[0] = w /\ \A c \in 1 .. Width : g[c] = G[<<g[c - 1], c>>]
  <2>. HIDE DEF G
  <2>. QED  BY <1>1, <1>3, FollowsAt
<1>5. \A c \in 1 .. Width : g[c - 1] \in I[c - 1] => g[c] = One(g[c - 1], c)
  <2>. SUFFICES ASSUME NEW c \in 1 .. Width, g[c - 1] \in I[c - 1] PROVE g[c] = One(g[c - 1], c)
    OBVIOUS
  <2>1. c - 1 \in 0 .. Width  BY <1>1
  <2>2. <<g[c - 1], c>> \in U \X Cells  BY <1>1, <2>1
  <2>3. G[<<g[c - 1], c>>] = One(g[c - 1], c)
    <3>. HIDE DEF U, One
    <3>. QED  BY <2>2
  <2>. HIDE DEF G, One
  <2>. QED  BY <1>4, <2>3
<1>6. \A c \in 0 .. Width : g[c] \in I[c]
  <2>1. \A c \in 1 .. Width : g[c - 1] \in I[c - 1] => g[c] \in I[c]
    <3>. HIDE DEF G
    <3>. QED  BY <1>1, <1>5
  <2>. QED  BY <1>1, <1>4, <2>1, FollowsIn
<1>7. g = E(g)
  <2>. DEFINE F == [c \in 0 .. Width |-> IF c = 0 THEN w ELSE G[<<g[c - 1], c>>]]
  <2>1. g = F  BY <1>3 DEF Follows
  <2>2. ASSUME NEW c \in 0 .. Width  PROVE F[c] = E(g)[c]
    <3>1. CASE c = 0  BY <3>1
    <3>2. CASE c # 0
      <4>1. c \in 1 .. Width /\ c - 1 \in 0 .. Width  BY <1>1, <3>2
      <4>2. g[c] = One(g[c - 1], c)  BY <1>5, <1>6, <4>1
      <4>3. F[c] = g[c]  BY <2>1
      <4>. QED  BY <3>2, <4>2, <4>3
    <3>. QED  BY <3>1, <3>2
  <2>3. F = E(g)  BY <2>2
  <2>. HIDE DEF E, F
  <2>. QED  BY <2>1, <2>3
<1>8. chosen = E(chosen)
  <2>. HIDE DEF E
  <2>. QED  BY <1>7
<1>9. chosen[0] = w /\ \A c \in 1 .. Width : chosen[c] = One(chosen[c - 1], c)
  <2>. DEFINE D == E(chosen)
  <2>1. D[0] = w /\ \A c \in 1 .. Width : D[c] = One(chosen[c - 1], c)
    <3>. HIDE DEF chosen
    <3>. QED  BY <1>1
  <2>2. chosen = D  BY <1>8
  <2>. HIDE DEF D, chosen
  <2>. QED  BY <2>1, <2>2
<1>. HIDE DEF chosen
<1>10. \A c \in 1 .. Width : chosen[c - 1] \in I[c - 1] => chosen[c] \in I[c]
  BY SMTT(60), <1>1, <1>9
<1>11. \A c \in 0 .. Width : chosen[c] \in I[c]  BY <1>1, <1>9, <1>10, FollowsIn
<1>. QED  BY <1>1, <1>2, <1>11
\* And so is a record touched.
LEMMA TouchedRuns ==
  ASSUME NEW x, NEW w, NEW run, NEW stills, NEW hits, NEW I, w \in I[0],
         \A c \in Cells : \A v \in I[c - 1] :
           (IF c \in run THEN TouchHit(v, c, x, stills, hits) ELSE v) \in I[c]
  PROVE  TouchedCache(w, run, x, stills, hits) \in I[Width]
<1>. DEFINE One(v, c) == IF c \in run THEN TouchHit(v, c, x, stills, hits) ELSE v
            U == UNION {I[c] : c \in 0 .. Width}
            G == [p \in U \X Cells |-> One(p[1], p[2])]
            E(g) == [c \in 0 .. Width |-> IF c = 0 THEN w
                                          ELSE IF c \in run THEN TouchHit(g[c - 1], c, x, stills, hits)
                                          ELSE g[c - 1]]
            chosen == CHOOSE g : g = E(g)
<1>1. Width \in Nat /\ Cells = 1 .. Width  BY TilesAssumption DEF Cells
<1>2. TouchedCache(w, run, x, stills, hits) = chosen[Width]  BY DEF TouchedCache, InOrder
<1>3. PICK g : Follows(g, Width, w, G)
  <2>. HIDE DEF G
  <2>. QED  BY <1>1, FollowsThere
<1>4. g[0] = w /\ \A c \in 1 .. Width : g[c] = G[<<g[c - 1], c>>]
  <2>. HIDE DEF G
  <2>. QED  BY <1>1, <1>3, FollowsAt
<1>5. \A c \in 1 .. Width : g[c - 1] \in I[c - 1] => g[c] = One(g[c - 1], c)
  <2>. SUFFICES ASSUME NEW c \in 1 .. Width, g[c - 1] \in I[c - 1] PROVE g[c] = One(g[c - 1], c)
    OBVIOUS
  <2>1. c - 1 \in 0 .. Width  BY <1>1
  <2>2. <<g[c - 1], c>> \in U \X Cells  BY <1>1, <2>1
  <2>3. G[<<g[c - 1], c>>] = One(g[c - 1], c)
    <3>. HIDE DEF U, One
    <3>. QED  BY <2>2
  <2>. HIDE DEF G, One
  <2>. QED  BY <1>4, <2>3
<1>6. \A c \in 0 .. Width : g[c] \in I[c]
  <2>1. \A c \in 1 .. Width : g[c - 1] \in I[c - 1] => g[c] \in I[c]
    <3>. HIDE DEF G
    <3>. QED  BY <1>1, <1>5
  <2>. QED  BY <1>1, <1>4, <2>1, FollowsIn
<1>7. g = E(g)
  <2>. DEFINE F == [c \in 0 .. Width |-> IF c = 0 THEN w ELSE G[<<g[c - 1], c>>]]
  <2>1. g = F  BY <1>3 DEF Follows
  <2>2. ASSUME NEW c \in 0 .. Width  PROVE F[c] = E(g)[c]
    <3>1. CASE c = 0  BY <3>1
    <3>2. CASE c # 0
      <4>1. c \in 1 .. Width /\ c - 1 \in 0 .. Width  BY <1>1, <3>2
      <4>2. g[c] = One(g[c - 1], c)  BY <1>5, <1>6, <4>1
      <4>3. F[c] = g[c]  BY <2>1
      <4>. QED  BY <3>2, <4>2, <4>3
    <3>. QED  BY <3>1, <3>2
  <2>3. F = E(g)  BY <2>2
  <2>. HIDE DEF E, F
  <2>. QED  BY <2>1, <2>3
<1>8. chosen = E(chosen)
  <2>. HIDE DEF E
  <2>. QED  BY <1>7
<1>9. chosen[0] = w /\ \A c \in 1 .. Width : chosen[c] = One(chosen[c - 1], c)
  <2>. DEFINE D == E(chosen)
  <2>1. D[0] = w /\ \A c \in 1 .. Width : D[c] = One(chosen[c - 1], c)
    <3>. HIDE DEF chosen
    <3>. QED  BY <1>1
  <2>2. chosen = D  BY <1>8
  <2>. HIDE DEF D, chosen
  <2>. QED  BY <2>1, <2>2
<1>. HIDE DEF chosen
<1>10. \A c \in 1 .. Width : chosen[c - 1] \in I[c - 1] => chosen[c] \in I[c]
  BY SMTT(60), <1>1, <1>9
<1>11. \A c \in 0 .. Width : chosen[c] \in I[c]  BY <1>1, <1>9, <1>10, FollowsIn
<1>. QED  BY <1>1, <1>2, <1>11
\* And a progressive run.
LEMMA ProgressiveRuns ==
  ASSUME NEW w, NEW run, NEW stills, NEW stage, NEW I, w \in I[0],
         \A c \in Cells : \A v \in I[c - 1] :
           (IF c \in run THEN ProgressiveTile(v, c, stills, stage) ELSE v) \in I[c]
  PROVE  ProgressiveStill(w, run, stills, stage) \in I[Width]
<1>. DEFINE One(v, c) == IF c \in run THEN ProgressiveTile(v, c, stills, stage) ELSE v
            U == UNION {I[c] : c \in 0 .. Width}
            G == [p \in U \X Cells |-> One(p[1], p[2])]
            E(g) == [c \in 0 .. Width |-> IF c = 0 THEN w
                                          ELSE IF c \in run THEN ProgressiveTile(g[c - 1], c, stills, stage)
                                          ELSE g[c - 1]]
            chosen == CHOOSE g : g = E(g)
<1>1. Width \in Nat /\ Cells = 1 .. Width  BY TilesAssumption DEF Cells
<1>2. ProgressiveStill(w, run, stills, stage) = chosen[Width]  BY DEF ProgressiveStill, InOrder
<1>3. PICK g : Follows(g, Width, w, G)
  <2>. HIDE DEF G
  <2>. QED  BY <1>1, FollowsThere
<1>4. g[0] = w /\ \A c \in 1 .. Width : g[c] = G[<<g[c - 1], c>>]
  <2>. HIDE DEF G
  <2>. QED  BY <1>1, <1>3, FollowsAt
<1>5. \A c \in 1 .. Width : g[c - 1] \in I[c - 1] => g[c] = One(g[c - 1], c)
  <2>. SUFFICES ASSUME NEW c \in 1 .. Width, g[c - 1] \in I[c - 1] PROVE g[c] = One(g[c - 1], c)
    OBVIOUS
  <2>1. c - 1 \in 0 .. Width  BY <1>1
  <2>2. <<g[c - 1], c>> \in U \X Cells  BY <1>1, <2>1
  <2>3. G[<<g[c - 1], c>>] = One(g[c - 1], c)
    <3>. HIDE DEF U, One
    <3>. QED  BY <2>2
  <2>. HIDE DEF G, One
  <2>. QED  BY <1>4, <2>3
<1>6. \A c \in 0 .. Width : g[c] \in I[c]
  <2>1. \A c \in 1 .. Width : g[c - 1] \in I[c - 1] => g[c] \in I[c]
    <3>. HIDE DEF G
    <3>. QED  BY <1>1, <1>5
  <2>. QED  BY <1>1, <1>4, <2>1, FollowsIn
<1>7. g = E(g)
  <2>. DEFINE F == [c \in 0 .. Width |-> IF c = 0 THEN w ELSE G[<<g[c - 1], c>>]]
  <2>1. g = F  BY <1>3 DEF Follows
  <2>2. ASSUME NEW c \in 0 .. Width  PROVE F[c] = E(g)[c]
    <3>1. CASE c = 0  BY <3>1
    <3>2. CASE c # 0
      <4>1. c \in 1 .. Width /\ c - 1 \in 0 .. Width  BY <1>1, <3>2
      <4>2. g[c] = One(g[c - 1], c)  BY <1>5, <1>6, <4>1
      <4>3. F[c] = g[c]  BY <2>1
      <4>. QED  BY <3>2, <4>2, <4>3
    <3>. QED  BY <3>1, <3>2
  <2>3. F = E(g)  BY <2>2
  <2>. HIDE DEF E, F
  <2>. QED  BY <2>1, <2>3
<1>8. chosen = E(chosen)
  <2>. HIDE DEF E
  <2>. QED  BY <1>7
<1>9. chosen[0] = w /\ \A c \in 1 .. Width : chosen[c] = One(chosen[c - 1], c)
  <2>. DEFINE D == E(chosen)
  <2>1. D[0] = w /\ \A c \in 1 .. Width : D[c] = One(chosen[c - 1], c)
    <3>. HIDE DEF chosen
    <3>. QED  BY <1>1
  <2>2. chosen = D  BY <1>8
  <2>. HIDE DEF D, chosen
  <2>. QED  BY <2>1, <2>2
<1>. HIDE DEF chosen
<1>10. \A c \in 1 .. Width : chosen[c - 1] \in I[c - 1] => chosen[c] \in I[c]
  BY SMTT(60), <1>1, <1>9
<1>11. \A c \in 0 .. Width : chosen[c] \in I[c]  BY <1>1, <1>9, <1>10, FollowsIn
<1>. QED  BY <1>1, <1>2, <1>11
\* And runs sent one after the other.
LEMMA SendRunsRuns ==
  ASSUME NEW w, NEW runs, NEW stills, NEW stage, NEW I, w \in I[0],
         \A c \in Cells : \A v \in I[c - 1] :
           (IF c \in DOMAIN runs THEN SendRun(v, runs[c], stills, stage) ELSE v) \in I[c]
  PROVE  SendRuns(w, runs, stills, stage) \in I[Width]
<1>. DEFINE One(v, c) == IF c \in DOMAIN runs THEN SendRun(v, runs[c], stills, stage) ELSE v
            U == UNION {I[c] : c \in 0 .. Width}
            G == [p \in U \X Cells |-> One(p[1], p[2])]
            E(g) == [c \in 0 .. Width |-> IF c = 0 THEN w
                                          ELSE IF c \in DOMAIN runs THEN SendRun(g[c - 1], runs[c], stills, stage)
                                          ELSE g[c - 1]]
            chosen == CHOOSE g : g = E(g)
<1>1. Width \in Nat /\ Cells = 1 .. Width  BY TilesAssumption DEF Cells
<1>2. SendRuns(w, runs, stills, stage) = chosen[Width]  BY DEF SendRuns, InOrder
<1>3. PICK g : Follows(g, Width, w, G)
  <2>. HIDE DEF G
  <2>. QED  BY <1>1, FollowsThere
<1>4. g[0] = w /\ \A c \in 1 .. Width : g[c] = G[<<g[c - 1], c>>]
  <2>. HIDE DEF G
  <2>. QED  BY <1>1, <1>3, FollowsAt
<1>5. \A c \in 1 .. Width : g[c - 1] \in I[c - 1] => g[c] = One(g[c - 1], c)
  <2>. SUFFICES ASSUME NEW c \in 1 .. Width, g[c - 1] \in I[c - 1] PROVE g[c] = One(g[c - 1], c)
    OBVIOUS
  <2>1. c - 1 \in 0 .. Width  BY <1>1
  <2>2. <<g[c - 1], c>> \in U \X Cells  BY <1>1, <2>1
  <2>3. G[<<g[c - 1], c>>] = One(g[c - 1], c)
    <3>. HIDE DEF U, One
    <3>. QED  BY <2>2
  <2>. HIDE DEF G, One
  <2>. QED  BY <1>4, <2>3
<1>6. \A c \in 0 .. Width : g[c] \in I[c]
  <2>1. \A c \in 1 .. Width : g[c - 1] \in I[c - 1] => g[c] \in I[c]
    <3>. HIDE DEF G
    <3>. QED  BY SMTT(60), <1>1, <1>5
  <2>. QED  BY <1>1, <1>4, <2>1, FollowsIn
<1>7. g = E(g)
  <2>. DEFINE F == [c \in 0 .. Width |-> IF c = 0 THEN w ELSE G[<<g[c - 1], c>>]]
  <2>1. g = F  BY <1>3 DEF Follows
  <2>2. ASSUME NEW c \in 0 .. Width  PROVE F[c] = E(g)[c]
    <3>1. CASE c = 0  BY <3>1
    <3>2. CASE c # 0
      <4>1. c \in 1 .. Width /\ c - 1 \in 0 .. Width  BY <1>1, <3>2
      <4>2. g[c] = One(g[c - 1], c)  BY <1>5, <1>6, <4>1
      <4>3. F[c] = g[c]  BY <2>1
      <4>. QED  BY <3>2, <4>2, <4>3
    <3>. QED  BY <3>1, <3>2
  <2>3. F = E(g)  BY <2>2
  <2>. HIDE DEF E, F
  <2>. QED  BY <2>1, <2>3
<1>8. chosen = E(chosen)
  <2>. HIDE DEF E
  <2>. QED  BY <1>7
<1>9. chosen[0] = w /\ \A c \in 1 .. Width : chosen[c] = One(chosen[c - 1], c)
  <2>. DEFINE D == E(chosen)
  <2>1. D[0] = w /\ \A c \in 1 .. Width : D[c] = One(chosen[c - 1], c)
    <3>. HIDE DEF chosen
    <3>. QED  BY <1>1
  <2>2. chosen = D  BY <1>8
  <2>. HIDE DEF D, chosen
  <2>. QED  BY <2>1, <2>2
<1>. HIDE DEF chosen
<1>10. \A c \in 1 .. Width : chosen[c - 1] \in I[c - 1] => chosen[c] \in I[c]
  BY SMTT(60), <1>1, <1>9
<1>11. \A c \in 0 .. Width : chosen[c] \in I[c]  BY <1>1, <1>9, <1>10, FollowsIn
<1>. QED  BY <1>1, <1>2, <1>11
\* And the upgrades of a tick.
LEMMA UpgradedRuns ==
  ASSUME NEW w, NEW pay, NEW I, w \in I[0],
         \A c \in Cells : \A v \in I[c - 1] :
           (IF c \in pay THEN Upgraded(v, c) ELSE v) \in I[c]
  PROVE  InOrder(pay, w, Upgraded) \in I[Width]
<1>. DEFINE One(v, c) == IF c \in pay THEN Upgraded(v, c) ELSE v
            U == UNION {I[c] : c \in 0 .. Width}
            G == [p \in U \X Cells |-> One(p[1], p[2])]
            E(g) == [c \in 0 .. Width |-> IF c = 0 THEN w
                                          ELSE IF c \in pay THEN Upgraded(g[c - 1], c)
                                          ELSE g[c - 1]]
            chosen == CHOOSE g : g = E(g)
<1>1. Width \in Nat /\ Cells = 1 .. Width  BY TilesAssumption DEF Cells
<1>2. InOrder(pay, w, Upgraded) = chosen[Width]  BY DEF InOrder
<1>3. PICK g : Follows(g, Width, w, G)
  <2>. HIDE DEF G
  <2>. QED  BY <1>1, FollowsThere
<1>4. g[0] = w /\ \A c \in 1 .. Width : g[c] = G[<<g[c - 1], c>>]
  <2>. HIDE DEF G
  <2>. QED  BY <1>1, <1>3, FollowsAt
<1>5. \A c \in 1 .. Width : g[c - 1] \in I[c - 1] => g[c] = One(g[c - 1], c)
  <2>. SUFFICES ASSUME NEW c \in 1 .. Width, g[c - 1] \in I[c - 1] PROVE g[c] = One(g[c - 1], c)
    OBVIOUS
  <2>1. c - 1 \in 0 .. Width  BY <1>1
  <2>2. <<g[c - 1], c>> \in U \X Cells  BY <1>1, <2>1
  <2>3. G[<<g[c - 1], c>>] = One(g[c - 1], c)
    <3>. HIDE DEF U, One
    <3>. QED  BY <2>2
  <2>. HIDE DEF G, One
  <2>. QED  BY <1>4, <2>3
<1>6. \A c \in 0 .. Width : g[c] \in I[c]
  <2>1. \A c \in 1 .. Width : g[c - 1] \in I[c - 1] => g[c] \in I[c]
    <3>. HIDE DEF G
    <3>. QED  BY <1>1, <1>5
  <2>. QED  BY <1>1, <1>4, <2>1, FollowsIn
<1>7. g = E(g)
  <2>. DEFINE F == [c \in 0 .. Width |-> IF c = 0 THEN w ELSE G[<<g[c - 1], c>>]]
  <2>1. g = F  BY <1>3 DEF Follows
  <2>2. ASSUME NEW c \in 0 .. Width  PROVE F[c] = E(g)[c]
    <3>1. CASE c = 0  BY <3>1
    <3>2. CASE c # 0
      <4>1. c \in 1 .. Width /\ c - 1 \in 0 .. Width  BY <1>1, <3>2
      <4>2. g[c] = One(g[c - 1], c)  BY <1>5, <1>6, <4>1
      <4>3. F[c] = g[c]  BY <2>1
      <4>. QED  BY <3>2, <4>2, <4>3
    <3>. QED  BY <3>1, <3>2
  <2>3. F = E(g)  BY <2>2
  <2>. HIDE DEF E, F
  <2>. QED  BY <2>1, <2>3
<1>8. chosen = E(chosen)
  <2>. HIDE DEF E
  <2>. QED  BY <1>7
<1>9. chosen[0] = w /\ \A c \in 1 .. Width : chosen[c] = One(chosen[c - 1], c)
  <2>. DEFINE D == E(chosen)
  <2>1. D[0] = w /\ \A c \in 1 .. Width : D[c] = One(chosen[c - 1], c)
    <3>. HIDE DEF chosen
    <3>. QED  BY <1>1
  <2>2. chosen = D  BY <1>8
  <2>. HIDE DEF D, chosen
  <2>. QED  BY <2>1, <2>2
<1>. HIDE DEF chosen
<1>10. \A c \in 1 .. Width : chosen[c - 1] \in I[c - 1] => chosen[c] \in I[c]
  BY SMTT(60), <1>1, <1>9
<1>11. \A c \in 0 .. Width : chosen[c] \in I[c]  BY <1>1, <1>9, <1>10, FollowsIn
<1>. QED  BY <1>1, <1>2, <1>11
\* And regions laid out.
LEMMA LaidRuns ==
  ASSUME NEW live, NEW wanted, NEW I, Len(wanted) \in Nat, Begun(live, wanted) \in I[0],
         \A c \in 1 .. Len(wanted) : \A v \in I[c - 1] :
           Added(v, wanted[c]) \in I[c]
  PROVE  Laid(live, wanted) \in I[Len(wanted)]
<1>. DEFINE One(v, c) == Added(v, wanted[c])
            U == UNION {I[c] : c \in 0 .. Len(wanted)}
            G == [p \in U \X (1 .. Len(wanted)) |-> One(p[1], p[2])]
            E(g) == [c \in 0 .. Len(wanted) |-> IF c = 0 THEN Begun(live, wanted)
                                          ELSE Added(g[c - 1], wanted[c])]
            chosen == CHOOSE g : g = E(g)
<1>1. Len(wanted) \in Nat  OBVIOUS
<1>2. Laid(live, wanted) = chosen[Len(wanted)]  BY DEF Laid
<1>3. PICK g : Follows(g, Len(wanted), Begun(live, wanted), G)
  <2>. HIDE DEF G
  <2>. QED  BY <1>1, FollowsThere
<1>4. g[0] = Begun(live, wanted) /\ \A c \in 1 .. Len(wanted) : g[c] = G[<<g[c - 1], c>>]
  <2>. HIDE DEF G
  <2>. QED  BY <1>1, <1>3, FollowsAt
<1>5. \A c \in 1 .. Len(wanted) : g[c - 1] \in I[c - 1] => g[c] = One(g[c - 1], c)
  <2>. SUFFICES ASSUME NEW c \in 1 .. Len(wanted), g[c - 1] \in I[c - 1] PROVE g[c] = One(g[c - 1], c)
    OBVIOUS
  <2>1. c - 1 \in 0 .. Len(wanted)  BY <1>1
  <2>2. <<g[c - 1], c>> \in U \X (1 .. Len(wanted))  BY <1>1, <2>1
  <2>3. G[<<g[c - 1], c>>] = One(g[c - 1], c)
    <3>. HIDE DEF U, One
    <3>. QED  BY <2>2
  <2>. HIDE DEF G, One
  <2>. QED  BY <1>4, <2>3
<1>6. \A c \in 0 .. Len(wanted) : g[c] \in I[c]
  <2>1. \A c \in 1 .. Len(wanted) : g[c - 1] \in I[c - 1] => g[c] \in I[c]
    <3>. HIDE DEF G
    <3>. QED  BY <1>1, <1>5
  <2>. QED  BY <1>1, <1>4, <2>1, FollowsIn
<1>7. g = E(g)
  <2>. DEFINE F == [c \in 0 .. Len(wanted) |-> IF c = 0 THEN Begun(live, wanted) ELSE G[<<g[c - 1], c>>]]
  <2>1. g = F  BY <1>3 DEF Follows
  <2>2. ASSUME NEW c \in 0 .. Len(wanted)  PROVE F[c] = E(g)[c]
    <3>1. CASE c = 0  BY <3>1
    <3>2. CASE c # 0
      <4>1. c \in 1 .. Len(wanted) /\ c - 1 \in 0 .. Len(wanted)  BY <1>1, <3>2
      <4>2. g[c] = One(g[c - 1], c)  BY <1>5, <1>6, <4>1
      <4>3. F[c] = g[c]  BY <2>1
      <4>. QED  BY <3>2, <4>2, <4>3
    <3>. QED  BY <3>1, <3>2
  <2>3. F = E(g)  BY <2>2
  <2>. HIDE DEF E, F
  <2>. QED  BY <2>1, <2>3
<1>8. chosen = E(chosen)
  <2>. HIDE DEF E
  <2>. QED  BY <1>7
<1>9. chosen[0] = Begun(live, wanted) /\ \A c \in 1 .. Len(wanted) : chosen[c] = One(chosen[c - 1], c)
  <2>. DEFINE D == E(chosen)
  <2>1. D[0] = Begun(live, wanted) /\ \A c \in 1 .. Len(wanted) : D[c] = One(chosen[c - 1], c)
    <3>. HIDE DEF chosen
    <3>. QED  BY <1>1
  <2>2. chosen = D  BY <1>8
  <2>. HIDE DEF D, chosen
  <2>. QED  BY <2>1, <2>2
<1>. HIDE DEF chosen
<1>10. \A c \in 1 .. Len(wanted) : chosen[c - 1] \in I[c - 1] => chosen[c] \in I[c]
  BY <1>1, <1>9
<1>11. \A c \in 0 .. Len(wanted) : chosen[c] \in I[c]  BY <1>1, <1>9, <1>10, FollowsIn
<1>. QED  BY <1>1, <1>2, <1>11

-----------------------------------------------------------------------------
(* The record of the cache.                                                *)

\* What a sequence is without its i-th.
LEMMA RemovedAt ==
  ASSUME NEW S, NEW q \in Seq(S), NEW i \in 1 .. Len(q)
  PROVE  /\ RemoveAt(q, i) \in Seq(S)
         /\ Len(RemoveAt(q, i)) = Len(q) - 1
         /\ \A j \in 1 .. Len(q) - 1 :
              RemoveAt(q, i)[j] = IF j < i THEN q[j] ELSE q[j + 1]
<1>. DEFINE a == SubSeq(q, 1, i - 1)
            b == SubSeq(q, i + 1, Len(q))
<1>1. Len(q) \in Nat /\ i \in Nat  OBVIOUS
<1>2. a \in Seq(S) /\ Len(a) = i - 1 /\ \A j \in 1 .. i - 1 : a[j] = q[j]  OBVIOUS
<1>3. b \in Seq(S) /\ Len(b) = Len(q) - i /\ \A j \in 1 .. Len(q) - i : b[j] = q[i + j]
  OBVIOUS
<1>4. RemoveAt(q, i) = a \o b  BY DEF RemoveAt
<1>. HIDE DEF a, b
<1>5. a \o b \in Seq(S) /\ Len(a \o b) = Len(q) - 1
  <2>1. a \o b \in Seq(S) /\ Len(a \o b) = Len(a) + Len(b)  BY <1>2, <1>3, ConcatProperties
  <2>. QED  BY <1>1, <1>2, <1>3, <2>1
<1>6. \A j \in 1 .. Len(q) - 1 : (a \o b)[j] = IF j < i THEN q[j] ELSE q[j + 1]
  <2>. SUFFICES ASSUME NEW j \in 1 .. Len(q) - 1
                PROVE  (a \o b)[j] = IF j < i THEN q[j] ELSE q[j + 1]
    OBVIOUS
  <2>1. CASE j < i
    <3>1. (a \o b)[j] = a[j]  BY <1>1, <1>2, <1>3, <2>1
    <3>. QED  BY <1>1, <1>2, <2>1, <3>1
  <2>2. CASE ~ (j < i)
    <3>1. (a \o b)[j] = b[j - (i - 1)]  BY <1>1, <1>2, <1>3, <2>2
    <3>2. j - (i - 1) \in 1 .. Len(q) - i  BY <1>1, <2>2
    <3>3. b[j - (i - 1)] = q[i + (j - (i - 1))] /\ i + (j - (i - 1)) = j + 1
      BY <1>1, <1>3, <3>2
    <3>. QED  BY <2>2, <3>1, <3>3
  <2>. QED  BY <2>1, <2>2
<1>. QED  BY <1>4, <1>5, <1>6

\* Where the slot of a touched record was, and how the others moved.
TouchedAs(r, q, k) ==
  /\ r \in Seq(Entries)
  /\ \/ /\ \A i \in 1 .. Len(q) : q[i].slot # k.slot
        /\ Len(r) = Len(q) + 1 /\ r[Len(q) + 1] = k
        /\ \A j \in 1 .. Len(q) : r[j] = q[j]
     \/ \E i \in 1 .. Len(q) :
          /\ q[i].slot = k.slot
          /\ Len(r) = Len(q) /\ r[Len(q)] = k
          /\ \A j \in 1 .. Len(q) - 1 : r[j] = IF j < i THEN q[j] ELSE q[j + 1]

\* A touch takes the slot of its entry out and puts the entry last.
LEMMA TouchIs ==
  ASSUME NEW q \in Seq(Entries), NEW k \in Entries
  PROVE  TouchedAs(Touch(q, k), q, k)
<1>. DEFINE at == {i \in 1 .. Len(q) : q[i].slot = k.slot}
            i == CHOOSE x \in at : TRUE
<1>1. Touch(q, k) = Append(IF at = {} THEN q ELSE RemoveAt(q, i), k)
  <2>1. DOMAIN q = 1 .. Len(q)  OBVIOUS
  <2>. QED  BY <2>1 DEF Touch
<1>2. CASE at = {}
  <2>1. Touch(q, k) = Append(q, k)  BY <1>1, <1>2
  <2>. HIDE DEF i
  <2>2. \A x \in 1 .. Len(q) : q[x].slot # k.slot  BY <1>2
  <2>. QED  BY <2>1, <2>2 DEF TouchedAs
<1>3. CASE at # {}
  <2>1. i \in 1 .. Len(q) /\ q[i].slot = k.slot  BY <1>3
  <2>2. Touch(q, k) = Append(RemoveAt(q, i), k)  BY <1>1, <1>3
  <2>. HIDE DEF i, at
  <2>. DEFINE rest == RemoveAt(q, i)
  <2>3. /\ rest \in Seq(Entries) /\ Len(rest) = Len(q) - 1
        /\ \A j \in 1 .. Len(q) - 1 : rest[j] = IF j < i THEN q[j] ELSE q[j + 1]
    BY <2>1, RemovedAt
  <2>. HIDE DEF rest
  <2>4. Touch(q, k) = Append(rest, k)  BY <2>2 DEF rest
  <2>5. Append(rest, k) \in Seq(Entries) /\ Len(Append(rest, k)) = Len(q)  BY <2>3
  <2>6. Append(rest, k)[Len(q)] = k  BY <2>3
  <2>7. \A j \in 1 .. Len(q) - 1 : Append(rest, k)[j] = rest[j]  BY <2>3
  <2>. QED  BY <2>1, <2>3, <2>4, <2>5, <2>6, <2>7 DEF TouchedAs
<1>. QED  BY <1>2, <1>3

\* A record touched takes the slot of one that was there or the next, and a colour no
\* record of another slot has.
Placed(q, k) ==
  /\ \/ \E i \in 1 .. Len(q) : q[i].slot = k.slot
     \/ k.slot = Len(q) + 1
  /\ \A i \in 1 .. Len(q) : q[i].of = k.of => q[i].slot = k.slot

\* A touch keeps a record good, where the entry is new or has its own slot.
LEMMA TouchedGood ==
  ASSUME NEW q \in Seq(Entries), NEW k \in Entries, NEW r, CacheGood(q), Placed(q, k),
         TouchedAs(r, q, k)
  PROVE  CacheGood(r)
<1>1. Len(q) \in Nat /\ Len(r) \in Nat /\ k.slot \in Nat
  BY DEF TouchedAs, Entries
<1>2. \A i \in 1 .. Len(q) : q[i].slot \in Nat
  <2>1. \A i \in 1 .. Len(q) : q[i] \in Entries  OBVIOUS
  <2>2. \A x \in Entries : x.slot \in Nat  BY DEF Entries
  <2>. QED  BY <2>1, <2>2
<1>3. CASE /\ \A i \in 1 .. Len(q) : q[i].slot # k.slot
           /\ Len(r) = Len(q) + 1 /\ r[Len(q) + 1] = k
           /\ \A j \in 1 .. Len(q) : r[j] = q[j]
  <2>1. k.slot = Len(q) + 1 /\ \A i \in 1 .. Len(q) : q[i].of # k.of  BY <1>3 DEF Placed
  <2>. QED  BY <1>1, <1>2, <1>3, <2>1 DEF CacheGood
<1>4. ASSUME NEW i \in 1 .. Len(q), q[i].slot = k.slot, Len(r) = Len(q), r[Len(q)] = k,
             \A j \in 1 .. Len(q) - 1 : r[j] = IF j < i THEN q[j] ELSE q[j + 1]
      PROVE  CacheGood(r)
  <2>. DEFINE from(j) == IF j = Len(q) THEN i ELSE IF j < i THEN j ELSE j + 1
  <2>1. \A j \in 1 .. Len(q) : from(j) \in 1 .. Len(q)  BY <1>1
  <2>2. \A j, x \in 1 .. Len(q) : from(j) = from(x) => j = x  BY <1>1
  <2>3. \A j \in 1 .. Len(q) : r[j].slot = q[from(j)].slot  BY <1>1, <1>4
  <2>4. \A j \in 1 .. Len(q) : j # Len(q) => r[j].of = q[from(j)].of  BY <1>1, <1>4
  <2>5. \A j \in 1 .. Len(q) : r[j].of = k.of => from(j) = i
    <3>. SUFFICES ASSUME NEW j \in 1 .. Len(q), r[j].of = k.of, j # Len(q) PROVE from(j) = i
      OBVIOUS
    <3>. HIDE DEF from
    <3>1. q[from(j)].of = k.of /\ from(j) \in 1 .. Len(q)  BY <2>1, <2>4
    <3>. QED  BY <1>4, <3>1 DEF Placed, CacheGood
  <2>6. from(Len(q)) = i  OBVIOUS
  <2>. HIDE DEF from
  <2>10. \A y, z \in 1 .. Len(q) : q[y].slot = q[z].slot \/ q[y].of = q[z].of => y = z
    BY DEF CacheGood
  <2>7. \A j \in 1 .. Len(q) : r[j].slot <= Len(q)  BY <2>1, <2>3 DEF CacheGood
  <2>8. \A j, x \in 1 .. Len(q) : r[j].slot = r[x].slot => j = x
    <3>. SUFFICES ASSUME NEW j \in 1 .. Len(q), NEW x \in 1 .. Len(q), r[j].slot = r[x].slot
                  PROVE  j = x
      OBVIOUS
    <3>1. q[from(j)].slot = q[from(x)].slot /\ from(j) \in 1 .. Len(q) /\ from(x) \in 1 .. Len(q)
      BY <2>1, <2>3
    <3>2. from(j) = from(x)  BY <2>10, <3>1
    <3>. QED  BY <2>2, <3>2
  <2>9. \A j, x \in 1 .. Len(q) : r[j].of = r[x].of => j = x
    <3>. SUFFICES ASSUME NEW j \in 1 .. Len(q), NEW x \in 1 .. Len(q), r[j].of = r[x].of
                  PROVE  j = x
      OBVIOUS
    <3>1. CASE j = Len(q) \/ x = Len(q)
      <4>1. from(j) = i /\ from(x) = i  BY <1>4, <2>5, <2>6, <3>1
      <4>. QED  BY <2>2, <4>1
    <3>2. CASE j # Len(q) /\ x # Len(q)
      <4>1. q[from(j)].of = q[from(x)].of /\ from(j) \in 1 .. Len(q) /\ from(x) \in 1 .. Len(q)
        BY <2>1, <2>4, <3>2
      <4>2. from(j) = from(x)  BY <2>10, <4>1
      <4>. QED  BY <2>2, <4>2
    <3>. QED  BY <3>1, <3>2
  <2>. QED  BY <1>4, <2>7, <2>8, <2>9 DEF CacheGood
<1>. QED  BY <1>3, <1>4 DEF TouchedAs

\* The records of a touched cache: the new one, and those of other slots.
LEMMA TouchedHas ==
  ASSUME NEW q \in Seq(Entries), NEW k \in Entries, NEW r, CacheGood(q), TouchedAs(r, q, k)
  PROVE  /\ k \in ToSet(r)
         /\ \A x \in ToSet(r) : x = k \/ (x \in ToSet(q) /\ x.slot # k.slot)
         /\ \A x \in ToSet(q) : x.slot # k.slot => x \in ToSet(r)
<1>1. /\ Len(q) \in Nat /\ Len(r) \in Nat
      /\ ToSet(q) = {q[i] : i \in 1 .. Len(q)} /\ ToSet(r) = {r[i] : i \in 1 .. Len(r)}
  BY DEF TouchedAs, ToSet
<1>3. CASE /\ \A i \in 1 .. Len(q) : q[i].slot # k.slot
           /\ Len(r) = Len(q) + 1 /\ r[Len(q) + 1] = k
           /\ \A j \in 1 .. Len(q) : r[j] = q[j]
  <2>1. \A j \in 1 .. Len(r) : r[j] = k \/ (j \in 1 .. Len(q) /\ r[j] = q[j])  BY <1>1, <1>3
  <2>2. Len(q) + 1 \in 1 .. Len(r) /\ \A j \in 1 .. Len(q) : j \in 1 .. Len(r)  BY <1>1, <1>3
  <2>. QED  BY <1>1, <1>3, <2>1, <2>2
<1>4. ASSUME NEW i \in 1 .. Len(q), q[i].slot = k.slot, Len(r) = Len(q), r[Len(q)] = k,
             \A j \in 1 .. Len(q) - 1 : r[j] = IF j < i THEN q[j] ELSE q[j + 1]
      PROVE  /\ k \in ToSet(r)
             /\ \A x \in ToSet(r) : x = k \/ (x \in ToSet(q) /\ x.slot # k.slot)
             /\ \A x \in ToSet(q) : x.slot # k.slot => x \in ToSet(r)
  <2>1. Len(q) \in 1 .. Len(q)  BY <1>1
  <2>2. \A j \in 1 .. Len(q) : q[j].slot = k.slot => j = i  BY <1>4 DEF CacheGood
  <2>3. ASSUME NEW j \in 1 .. Len(q), j # Len(q)
        PROVE  \E x \in 1 .. Len(q) : r[j] = q[x] /\ q[x].slot # k.slot
    <3>1. j \in 1 .. Len(q) - 1 /\ j + 1 \in 1 .. Len(q)  BY <1>1, <2>3
    <3>2. CASE j < i  BY <1>4, <2>2, <3>1, <3>2
    <3>3. CASE ~ (j < i)
      <4>1. r[j] = q[j + 1] /\ j + 1 # i  BY <1>1, <1>4, <3>1, <3>3
      <4>. QED  BY <2>2, <3>1, <4>1
    <3>. QED  BY <3>2, <3>3
  <2>4. ASSUME NEW x \in 1 .. Len(q), x # i  PROVE q[x] \in ToSet(r)
    <3>1. CASE x < i
      <4>1. x \in 1 .. Len(q) - 1  BY <1>1, <3>1
      <4>. QED  BY <1>1, <1>4, <3>1, <4>1
    <3>2. CASE x > i
      <4>1. x - 1 \in 1 .. Len(q) - 1 /\ ~ (x - 1 < i) /\ (x - 1) + 1 = x  BY <1>1, <3>2
      <4>2. r[x - 1] = q[x]  BY <1>4, <4>1
      <4>. QED  BY <1>1, <1>4, <4>1, <4>2
    <3>. QED  BY <1>1, <2>4, <3>1, <3>2
  <2>5. \A x \in ToSet(r) : x = k \/ (x \in ToSet(q) /\ x.slot # k.slot)
    BY <1>1, <1>4, <2>3
  <2>6. \A x \in ToSet(q) : x.slot # k.slot => x \in ToSet(r)  BY <1>1, <1>4, <2>4
  <2>. QED  BY <1>1, <1>4, <2>1, <2>5, <2>6
<1>. QED  BY <1>3, <1>4 DEF TouchedAs

\* A record used no longer ago than the last n.
Within(q, k, n) == \E i \in 1 .. Len(q) : q[i] = k /\ Len(q) - i < n

\* The entry touched is the last, and the others are one further from the end.
LEMMA TouchedWithin ==
  ASSUME NEW q \in Seq(Entries), NEW k \in Entries, NEW r, CacheGood(q), TouchedAs(r, q, k)
  PROVE  /\ \A n \in Nat \ {0} : Within(r, k, n)
         /\ \A x, n : n \in Nat /\ Within(q, x, n) /\ x.slot # k.slot => Within(r, x, n + 1)
<1>1. Len(q) \in Nat /\ Len(r) \in Nat  BY DEF TouchedAs
<1>2. \A n \in Nat \ {0} : Within(r, k, n)
  <2>1. Len(r) \in 1 .. Len(r) /\ r[Len(r)] = k  BY <1>1 DEF TouchedAs
  <2>. QED  BY <1>1, <2>1 DEF Within
<1>3. ASSUME NEW x, NEW n \in Nat, Within(q, x, n), x.slot # k.slot  PROVE Within(r, x, n + 1)
  <2>1. PICK p \in 1 .. Len(q) : q[p] = x /\ Len(q) - p < n  BY <1>3 DEF Within
  <2>2. CASE /\ Len(r) = Len(q) + 1 /\ \A j \in 1 .. Len(q) : r[j] = q[j]
    <3>1. p \in 1 .. Len(r) /\ Len(r) - p < n + 1 /\ r[p] = x  BY <1>1, <2>1, <2>2
    <3>. QED  BY <3>1 DEF Within
  <2>3. ASSUME NEW i \in 1 .. Len(q), q[i].slot = k.slot, Len(r) = Len(q), r[Len(q)] = k,
             \A j \in 1 .. Len(q) - 1 : r[j] = IF j < i THEN q[j] ELSE q[j + 1]
        PROVE  Within(r, x, n + 1)
    <3>1. p # i  BY <1>3, <2>1, <2>3
    <3>2. CASE p < i
      <4>1. p \in 1 .. Len(q) - 1  BY <1>1, <3>2
      <4>2. r[p] = x /\ p \in 1 .. Len(r) /\ Len(r) - p < n + 1  BY <1>1, <2>1, <2>3, <3>2, <4>1
      <4>. QED  BY <4>2 DEF Within
    <3>3. CASE p > i
      <4>1. p - 1 \in 1 .. Len(q) - 1 /\ ~ (p - 1 < i) /\ (p - 1) + 1 = p  BY <1>1, <3>3
      <4>2. r[p - 1] = x  BY <2>1, <2>3, <4>1
      <4>3. p - 1 \in 1 .. Len(r) /\ Len(r) - (p - 1) < n + 1  BY <1>1, <2>1, <2>3, <4>1
      <4>. QED  BY <4>2, <4>3 DEF Within
    <3>. QED  BY <1>1, <3>1, <3>2, <3>3
  <2>. QED  BY <2>2, <2>3 DEF TouchedAs
<1>. QED  BY <1>2, <1>3

-----------------------------------------------------------------------------
(* What the pieces of a send leave alone.                                  *)

\* All but the cache, the tiles owed, the client's coefficients and what it shows and keeps.
Frame(v, w) ==
  /\ v.enc.mirror = w.enc.mirror /\ v.enc.restart = w.enc.restart
  /\ v.enc.live = w.enc.live /\ v.enc.ended = w.enc.ended /\ v.enc.stills = w.enc.stills
  /\ v.enc.moved = w.enc.moved /\ v.enc.picture = w.enc.picture
  /\ v.client.streams = w.client.streams

\* A tile no still over a stream can carry, and no coefficients but a progressive's.
Clear(w, c) ==
  /\ \A s \in w.client.streams : c \notin s.area
  /\ w.enc.picture # "progressive" => w.enc.held[c] = NoneHeld

\* A rectangle clear of the streams is drawn, and that is all.
LEMMA DrawIs ==
  ASSUME NEW w \in Work, NEW c \in Cells, NEW tile \in Drawn, Clear(w, c)
  PROVE  /\ Draw(w, c, tile) \in Work
         /\ Draw(w, c, tile).enc = w.enc
         /\ Draw(w, c, tile).client =
              [w.client EXCEPT !.shown = [w.client.shown EXCEPT ![c] = tile]]
<1>1. w = [enc |-> w.enc, client |-> w.client] /\ w.enc \in Encoders /\ w.client \in Clients
  BY DEF Work
<1>2. (w.client.fault \/ c \in UNION {s.area : s \in w.client.streams}) = w.client.fault
  <2>1. c \notin UNION {s.area : s \in w.client.streams}  BY DEF Clear
  <2>2. w.client.fault \in BOOLEAN  BY <1>1 DEF Clients
  <2>. QED  BY <2>1, <2>2
<1>3. w.client.shown \in [Cells -> Drawn]  BY <1>1 DEF Clients
<1>. DEFINE shown == [w.client.shown EXCEPT ![c] = tile]
<1>4. shown \in [Cells -> Drawn]  BY <1>3
<1>5. Draw(w, c, tile) = [enc |-> w.enc, client |-> [w.client EXCEPT !.shown = shown]]
  <2>1. Draw(w, c, tile) =
          [w EXCEPT !.client.shown[c] = tile, !.client.fault = w.client.fault]
    BY <1>2 DEF Draw
  <2>2. [w.client EXCEPT !.shown = shown] =
          [shown |-> shown, kept |-> w.client.kept, streams |-> w.client.streams, fault |-> w.client.fault]
    BY <1>1 DEF Clients
  <2>3. w.client = [shown |-> w.client.shown, kept |-> w.client.kept,
                    streams |-> w.client.streams, fault |-> w.client.fault]
    BY <1>1 DEF Clients
  <2>. QED  BY ZenonT(60), <1>1, <2>1, <2>2, <2>3
<1>. HIDE DEF shown
<1>6. [w.client EXCEPT !.shown = shown] \in Clients  BY <1>1, <1>4 DEF Clients
<1>7. Draw(w, c, tile) \in Work  BY <1>1, <1>5, <1>6 DEF Work
<1>8. Draw(w, c, tile).enc = w.enc
      /\ Draw(w, c, tile).client = [w.client EXCEPT !.shown = shown]  BY <1>5
<1>. QED  BY <1>7, <1>8 DEF shown

-----------------------------------------------------------------------------
(* A tile stored.                                                          *)

\* The members of a sequence.
LEMMA ToSetIs ==
  ASSUME NEW S, NEW q \in Seq(S)
  PROVE  ToSet(q) = {q[i] : i \in 1 .. Len(q)} /\ ToSet(q) \subseteq S
<1>1. DOMAIN q = 1 .. Len(q) /\ \A i \in 1 .. Len(q) : q[i] \in S  OBVIOUS
<1>. QED  BY <1>1 DEF ToSet

\* The record said of its members.
LEMMA CacheHas ==
  ASSUME NEW w \in Work
  PROVE  /\ w.enc.cache \in Seq(Entries)
         /\ CacheHolds(w) <=> CacheGood(w.enc.cache) /\ \A k \in ToSet(w.enc.cache) : Keeps(w, k)
<1>1. w.enc.cache \in Seq(Entries)  BY DEF Work, Encoders
<1>2. ToSet(w.enc.cache) = {w.enc.cache[i] : i \in 1 .. Len(w.enc.cache)}  BY <1>1, ToSetIs
<1>. QED  BY <1>1, <1>2 DEF CacheHolds

\* The slot of a store is new, the oldest, or the one that keeps the tile already.
LEMMA SlotIs ==
  ASSUME NEW q \in Seq(Entries), CacheGood(q), NEW of \in Shades, NEW settled \in BOOLEAN
  PROVE  /\ [slot |-> SlotFor(q, of), of |-> of, settled |-> settled] \in Entries
         /\ Placed(q, [slot |-> SlotFor(q, of), of |-> of, settled |-> settled])
         /\ \A k, n : /\ n \in Nat /\ n < CACHE_SLOTS /\ Within(q, k, n) /\ k.of # of
                     => k.slot # SlotFor(q, of)
<1>. DEFINE k == [slot |-> SlotFor(q, of), of |-> of, settled |-> settled]
<1>0. /\ Len(q) \in Nat /\ CACHE_SLOTS \in Nat /\ CACHE_SLOTS >= 1
      /\ \A i \in 1 .. Len(q) : q[i] \in Entries
  BY TilesAssumption
<1>01. \A x \in Entries : x.slot \in 1 .. CACHE_SLOTS  BY DEF Entries
<1>1. ToSet(q) = {q[i] : i \in 1 .. Len(q)}  BY ToSetIs
<1>2. k.slot = SlotFor(q, of) /\ k.of = of  OBVIOUS
<1>3. CASE Find(q, of) # {}
  <2>. DEFINE x == CHOOSE y \in Find(q, of) : TRUE
  <2>1. SlotFor(q, of) = x.slot  BY <1>3 DEF SlotFor
  <2>2. x \in ToSet(q) /\ x.of = of  BY <1>3 DEF Find
  <2>. HIDE DEF x
  <2>3. PICK i \in 1 .. Len(q) : q[i] = x  BY <1>1, <2>2
  <2>4. SlotFor(q, of) \in 1 .. CACHE_SLOTS  BY <1>0, <1>01, <2>1, <2>3
  <2>5. k \in Entries  BY <2>4 DEF Entries
  <2>6. \A j \in 1 .. Len(q) : q[j].of = of => q[j].slot = x.slot  BY <2>2, <2>3 DEF CacheGood
  <2>7. Placed(q, k)  BY <1>2, <2>1, <2>3, <2>6 DEF Placed
  <2>8. \A j \in 1 .. Len(q) : q[j].slot = x.slot => q[j] = x  BY <2>3 DEF CacheGood
  <2>9. \A y, n : Within(q, y, n) /\ y.of # of => y.slot # x.slot
    BY <2>2, <2>8 DEF Within
  <2>. QED  BY <2>1, <2>5, <2>7, <2>9
<1>4. ASSUME Find(q, of) = {}  PROVE \A j \in 1 .. Len(q) : q[j].of # of
  BY <1>1, <1>4 DEF Find
<1>5. CASE Find(q, of) = {} /\ Len(q) < CACHE_SLOTS
  <2>1. SlotFor(q, of) = Len(q) + 1  BY <1>5 DEF SlotFor
  <2>2. k \in Entries  BY <1>0, <1>5, <2>1 DEF Entries
  <2>3. Placed(q, k)  BY <1>2, <1>4, <1>5, <2>1 DEF Placed
  <2>4. \A j \in 1 .. Len(q) : q[j].slot # Len(q) + 1
    <3>1. \A j \in 1 .. Len(q) : q[j].slot <= Len(q) /\ q[j].slot \in Nat
      BY <1>0, <1>01 DEF CacheGood
    <3>. QED  BY <1>0, <3>1
  <2>5. \A y, n : Within(q, y, n) => y.slot # Len(q) + 1  BY <2>4 DEF Within
  <2>. QED  BY <2>1, <2>2, <2>3, <2>5
<1>6. CASE Find(q, of) = {} /\ ~ (Len(q) < CACHE_SLOTS)
  <2>1. SlotFor(q, of) = q[1].slot /\ 1 \in 1 .. Len(q)  BY <1>0, <1>6 DEF SlotFor
  <2>2. SlotFor(q, of) \in 1 .. CACHE_SLOTS  BY <1>0, <1>01, <2>1
  <2>3. k \in Entries  BY <2>2 DEF Entries
  <2>4. Placed(q, k)  BY <1>2, <1>4, <1>6, <2>1 DEF Placed
  <2>5. ASSUME NEW y, NEW n \in Nat, n < CACHE_SLOTS, Within(q, y, n)  PROVE y.slot # q[1].slot
    <3>1. PICK i \in 1 .. Len(q) : q[i] = y /\ Len(q) - i < n  BY <2>5 DEF Within
    <3>2. i # 1  BY <1>0, <1>6, <2>5, <3>1
    <3>. QED  BY <2>1, <3>1, <3>2 DEF CacheGood
  <2>. QED  BY <2>1, <2>3, <2>4, <2>5
<1>. QED  BY <1>3, <1>5, <1>6

\* The records near enough to use, but those of one colour, are a use farther.
Later(q, r, of) ==
  \A k, n : n \in Nat /\ n < CACHE_SLOTS /\ Within(q, k, n) /\ k.of # of => Within(r, k, n + 1)

\* A store of what the mirror has keeps the record what the slots keep.
LEMMA StoreIs ==
  ASSUME NEW w \in Work, CacheHolds(w), NEW c \in Cells, NEW settled \in BOOLEAN,
         w.client.shown[c].of = w.enc.mirror[c], settled => Whole(w, w.client.shown[c])
  PROVE  /\ Store(w, c, settled) \in Work
         /\ Store(w, c, settled).enc = [w.enc EXCEPT !.cache = Store(w, c, settled).enc.cache]
         /\ Store(w, c, settled).client = [w.client EXCEPT !.kept = Store(w, c, settled).client.kept]
         /\ CacheHolds(Store(w, c, settled))
         /\ Later(w.enc.cache, Store(w, c, settled).enc.cache, w.enc.mirror[c])
<1>. DEFINE q == w.enc.cache
            of == w.enc.mirror[c]
            slot == SlotFor(q, of)
            k == [slot |-> slot, of |-> of, settled |-> settled]
            r == Touch(q, k)
            tile == w.client.shown[c]
            kept == [s \in DOMAIN w.client.kept \cup {slot} |->
                       IF s = slot THEN tile ELSE w.client.kept[s]]
            v == Store(w, c, settled)
<1>1. /\ w = [enc |-> w.enc, client |-> w.client] /\ w.enc \in Encoders /\ w.client \in Clients
      /\ q \in Seq(Entries) /\ CacheGood(q) /\ \A x \in ToSet(q) : Keeps(w, x)
  BY CacheHas DEF Work
<1>2. of \in Shades /\ tile \in Drawn
  <2>1. w.enc.mirror \in [Cells -> Shades] /\ w.client.shown \in [Cells -> Drawn]
    BY <1>1 DEF Encoders, Clients
  <2>. QED  BY <2>1
<1>. HIDE DEF of, tile, q
<1>3. /\ k \in Entries /\ Placed(q, k)
      /\ \A x, n : /\ n \in Nat /\ n < CACHE_SLOTS /\ Within(q, x, n) /\ x.of # of => x.slot # slot
  <2>. QED  BY <1>1, <1>2, SlotIs
<1>4. k.slot = slot /\ k.of = of /\ k.settled = settled  OBVIOUS
<1>5. slot \in 1 .. CACHE_SLOTS  BY <1>3, <1>4 DEF Entries
<1>6. v = [w EXCEPT !.enc.cache = r, !.client.kept = kept]
  BY DEF Store, q, of, tile
<1>. HIDE DEF slot, k, v
<1>7. TouchedAs(r, q, k)  BY <1>1, <1>3, TouchIs
<1>8. r \in Seq(Entries)  BY <1>7 DEF TouchedAs
<1>9. CacheGood(r)  BY <1>1, <1>3, <1>7, TouchedGood
<1>10. \A x \in ToSet(r) : x = k \/ (x \in ToSet(q) /\ x.slot # k.slot)
  BY <1>1, <1>3, <1>7, TouchedHas
<1>11. \A x, n : n \in Nat /\ Within(q, x, n) /\ x.slot # k.slot => Within(r, x, n + 1)
  BY <1>1, <1>3, <1>7, TouchedWithin
<1>12. /\ kept \in UNION {[S -> Drawn] : S \in SUBSET (1 .. CACHE_SLOTS)}
       /\ slot \in DOMAIN kept /\ kept[slot] = tile
       /\ \A s \in DOMAIN w.client.kept : s \in DOMAIN kept
            /\ (s # slot => kept[s] = w.client.kept[s])
  <2>1. PICK S \in SUBSET (1 .. CACHE_SLOTS) : w.client.kept \in [S -> Drawn]
    BY <1>1 DEF Clients
  <2>2. kept = [s \in {slot} \cup S |-> IF s = slot THEN tile ELSE w.client.kept[s]]
    BY <2>1
  <2>3. kept \in [{slot} \cup S -> Drawn] /\ {slot} \cup S \in SUBSET (1 .. CACHE_SLOTS)
    BY <1>2, <1>5, <2>1, <2>2
  <2>. HIDE DEF kept
  <2>4. slot \in DOMAIN kept /\ kept[slot] = tile  BY <2>2
  <2>5. \A s \in DOMAIN w.client.kept : s \in DOMAIN kept
            /\ (s # slot => kept[s] = w.client.kept[s])  BY <2>1, <2>2
  <2>. QED  BY <2>3, <2>4, <2>5
<1>. HIDE DEF r, kept
<1>13. v = [enc |-> [w.enc EXCEPT !.cache = r], client |-> [w.client EXCEPT !.kept = kept]]
  BY <1>1, <1>6
<1>14. [w.enc EXCEPT !.cache = r] \in Encoders  BY <1>1, <1>8 DEF Encoders
<1>15. [w.client EXCEPT !.kept = kept] \in Clients  BY <1>1, <1>12 DEF Clients
<1>16. v \in Work  BY <1>13, <1>14, <1>15 DEF Work
<1>17. /\ v.enc.cache = r /\ v.client.kept = kept /\ v.enc.picture = w.enc.picture
  BY <1>1, <1>13 DEF Encoders, Clients
<1>18. CacheHolds(v)
  <2>1. \A x \in ToSet(r) : Keeps(v, x)
    <3>. SUFFICES ASSUME NEW x \in ToSet(r) PROVE Keeps(v, x)  OBVIOUS
    <3>1. \A y : Whole(v, y) = Whole(w, y)  BY <1>17 DEF Whole
    <3>2. CASE x = k
      <4>1. tile.of = of /\ (settled => Whole(w, tile))  BY DEF of, tile
      <4>. QED  BY <1>4, <1>12, <1>17, <3>1, <3>2, <4>1 DEF Keeps
    <3>3. CASE x \in ToSet(q) /\ x.slot # k.slot
      <4>1. Keeps(w, x)  BY <1>1, <3>3
      <4>. QED  BY <1>4, <1>12, <1>17, <3>1, <3>3, <4>1 DEF Keeps
    <3>. QED  BY <1>10, <3>2, <3>3
  <2>. QED  BY <1>9, <1>16, <1>17, <2>1, CacheHas
<1>19. Later(q, r, of)  BY <1>3, <1>4, <1>11 DEF Later
<1>20. v.enc = [w.enc EXCEPT !.cache = r] /\ v.client = [w.client EXCEPT !.kept = kept]  BY <1>13
<1>. QED  BY <1>16, <1>17, <1>18, <1>19, <1>20 DEF v, q, of

-----------------------------------------------------------------------------
(* What a piece of a send makes, field by field.                           *)

Made(v, w) == v \in Work /\ Frame(v, w) /\ v.client.fault = w.client.fault

\* The types of the fields.
LEMMA WorkHas ==
  ASSUME NEW w \in Work
  PROVE  /\ w.enc.mirror \in [Cells -> Shades] /\ w.enc.debts \subseteq Cells
         /\ w.enc.held \in [Cells -> Passes] /\ w.client.shown \in [Cells -> Drawn]
         /\ w.enc.restart \in BOOLEAN /\ w.enc.live \subseteq Streams /\ w.enc.ended \subseteq Nat
         /\ w.enc.stills \in Parts /\ w.enc.moved \in BOOLEAN /\ w.enc.picture \in Picture
         /\ w.client.fault \in BOOLEAN
         /\ w.client.streams \subseteq [id : Nat, area : SUBSET Cells]
<1>1. w.enc \in Encoders /\ w.client \in Clients  BY DEF Work
<1>2. /\ w.enc.mirror \in [Cells -> Shades] /\ w.enc.debts \subseteq Cells
      /\ w.enc.held \in [Cells -> Passes] /\ w.enc.restart \in BOOLEAN
      /\ w.enc.live \subseteq Streams /\ w.enc.ended \subseteq Nat
      /\ w.enc.stills \in Parts /\ w.enc.moved \in BOOLEAN /\ w.enc.picture \in Picture
  BY <1>1 DEF Encoders
<1>3. /\ w.client.shown \in [Cells -> Drawn] /\ w.client.fault \in BOOLEAN
      /\ w.client.streams \subseteq [id : Nat, area : SUBSET Cells]
  BY <1>1 DEF Clients
<1>. QED  BY <1>2, <1>3

\* A rectangle drawn, as a piece of a send.
LEMMA DrawMakes ==
  ASSUME NEW w \in Work, NEW c \in Cells, NEW tile \in Drawn, Clear(w, c), NEW v,
         v = Draw(w, c, tile)
  PROVE  /\ Made(v, w) /\ v.enc = w.enc
         /\ v.client.kept = w.client.kept
         /\ v.client.shown = [w.client.shown EXCEPT ![c] = tile]
<1>1. v \in Work /\ v.enc = w.enc /\ w.client \in Clients
      /\ v.client = [w.client EXCEPT !.shown = [w.client.shown EXCEPT ![c] = tile]]
  BY DrawIs DEF Work
<1>2. /\ v.client.kept = w.client.kept /\ v.client.streams = w.client.streams
      /\ v.client.fault = w.client.fault
      /\ v.client.shown = [w.client.shown EXCEPT ![c] = tile]
  BY <1>1 DEF Clients
<1>. QED  BY <1>1, <1>2 DEF Made, Frame

\* A store, as a piece of a send.
LEMMA StoreMakes ==
  ASSUME NEW w \in Work, CacheHolds(w), NEW c \in Cells, NEW settled \in BOOLEAN,
         w.client.shown[c].of = w.enc.mirror[c], settled => Whole(w, w.client.shown[c]),
         NEW v, v = Store(w, c, settled)
  PROVE  /\ Made(v, w) /\ CacheHolds(v)
         /\ v.enc.debts = w.enc.debts /\ v.enc.held = w.enc.held
         /\ v.client.shown = w.client.shown
         /\ Later(w.enc.cache, v.enc.cache, w.enc.mirror[c])
<1>1. /\ v \in Work /\ w.enc \in Encoders /\ w.client \in Clients /\ CacheHolds(v)
      /\ v.enc = [w.enc EXCEPT !.cache = v.enc.cache]
      /\ v.client = [w.client EXCEPT !.kept = v.client.kept]
      /\ Later(w.enc.cache, v.enc.cache, w.enc.mirror[c])
  BY StoreIs DEF Work
<1>2. PICK cache : cache = v.enc.cache  OBVIOUS
<1>3. v.enc = [w.enc EXCEPT !.cache = cache]  BY <1>1, <1>2
<1>4. PICK kept : kept = v.client.kept  OBVIOUS
<1>5. v.client = [w.client EXCEPT !.kept = kept]  BY <1>1, <1>4
<1>6. /\ v.client.shown = w.client.shown /\ v.client.streams = w.client.streams
      /\ v.client.fault = w.client.fault
  BY <1>1, <1>5 DEF Clients
<1>7. /\ v.enc.mirror = w.enc.mirror /\ v.enc.restart = w.enc.restart
      /\ v.enc.live = w.enc.live /\ v.enc.ended = w.enc.ended /\ v.enc.stills = w.enc.stills
      /\ v.enc.moved = w.enc.moved /\ v.enc.picture = w.enc.picture
      /\ v.enc.debts = w.enc.debts /\ v.enc.held = w.enc.held
  BY <1>1, <1>3 DEF Encoders
<1>. QED  BY <1>1, <1>6, <1>7 DEF Made, Frame

Owing(w, d) == [w EXCEPT !.enc.debts = d]

\* Debts changed, as a piece of a send.
LEMMA OwedMakes ==
  ASSUME NEW w \in Work, NEW d \in SUBSET Cells, NEW v, v = Owing(w, d)
  PROVE  /\ Made(v, w) /\ v.client = w.client
         /\ v.enc.debts = d /\ v.enc.held = w.enc.held /\ v.enc.cache = w.enc.cache
<1>1. /\ w = [enc |-> w.enc, client |-> w.client] /\ w.enc \in Encoders /\ w.client \in Clients
  BY DEF Work
<1>2. v = [enc |-> [w.enc EXCEPT !.debts = d], client |-> w.client]  BY <1>1 DEF Owing
<1>3. [w.enc EXCEPT !.debts = d] \in Encoders  BY <1>1 DEF Encoders
<1>4. v \in Work /\ v.enc = [w.enc EXCEPT !.debts = d] /\ v.client = w.client
  BY <1>1, <1>2, <1>3 DEF Work
<1>5. /\ v.enc.mirror = w.enc.mirror /\ v.enc.restart = w.enc.restart
      /\ v.enc.live = w.enc.live /\ v.enc.ended = w.enc.ended /\ v.enc.stills = w.enc.stills
      /\ v.enc.moved = w.enc.moved /\ v.enc.picture = w.enc.picture
      /\ v.enc.debts = d /\ v.enc.held = w.enc.held /\ v.enc.cache = w.enc.cache
  BY <1>1, <1>4 DEF Encoders
<1>. QED  BY <1>4, <1>5 DEF Made, Frame

\* Pieces follow one another.
LEMMA MadeThen ==
  ASSUME NEW u, NEW v, NEW w, Made(u, v), Made(v, w)  PROVE Made(u, w)
BY DEF Made, Frame

\* What leaves record, slots and picture alone leaves the cache holding.
LEMMA CacheSame ==
  ASSUME NEW w \in Work, NEW v \in Work, CacheHolds(w), v.enc.cache = w.enc.cache,
         v.client.kept = w.client.kept, v.enc.picture = w.enc.picture
  PROVE  CacheHolds(v)
<1>1. \A k : Keeps(v, k) = Keeps(w, k)  BY DEF Keeps, Whole
<1>. QED  BY <1>1 DEF CacheHolds

-----------------------------------------------------------------------------
(* A send: some tiles are sent, each right, or better and in debt, and     *)
(* the others are as they were.                                            *)

\* What the encoder has of the client's coefficients is what the client shows.
Settles(v, c) ==
  /\ c \in v.enc.debts \/ Right(v, c)
  /\ v.enc.held[c] # NoneHeld =>
       /\ v.enc.picture = "progressive" /\ v.enc.held[c].stage \in 0 .. FULL
       /\ v.client.shown[c] = [of |-> v.enc.held[c].of, level |-> v.enc.held[c].stage]
       /\ v.enc.held[c].of = v.enc.mirror[c]

Kept(v, w, c) ==
  /\ v.client.shown[c] = w.client.shown[c] /\ v.enc.held[c] = w.enc.held[c]
  /\ c \in v.enc.debts <=> c \in w.enc.debts

Sends(v, w, D) ==
  /\ Made(v, w) /\ CacheHolds(v)
  /\ (w.enc.picture = "lossless" /\ w.enc.debts = {}) => v.enc.debts = {}
  /\ \A c \in D : Settles(v, c)
  /\ \A c \in Cells \ D : Kept(v, w, c)

\* Nothing sent is a send of nothing.
LEMMA SendsNone ==
  ASSUME NEW w \in Work, CacheHolds(w)  PROVE Sends(w, w, {})
BY DEF Sends, Made, Frame, Kept

\* Two sends are one of both their tiles.
LEMMA SendsThen ==
  ASSUME NEW u, NEW v, NEW w, NEW D, NEW E, Sends(u, v, E), Sends(v, w, D),
         D \subseteq Cells, E \subseteq Cells
  PROVE  Sends(u, w, D \cup E)
<1>1. Made(u, w)  BY MadeThen DEF Sends
<1>2. v.enc.picture = w.enc.picture /\ u.enc.mirror = v.enc.mirror /\ u.enc.picture = v.enc.picture
  BY DEF Sends, Made, Frame
<1>3. (w.enc.picture = "lossless" /\ w.enc.debts = {}) => u.enc.debts = {}
  BY <1>2 DEF Sends
<1>4. ASSUME NEW c \in D \cup E  PROVE Settles(u, c)
  <2>1. CASE c \in E  BY <2>1 DEF Sends
  <2>2. CASE c \in D /\ c \notin E
    <3>1. Settles(v, c) /\ Kept(u, v, c)  BY <2>2 DEF Sends
    <3>. QED  BY <1>2, <3>1 DEF Settles, Kept, Right, Whole
  <2>. QED  BY <2>1, <2>2
<1>5. ASSUME NEW c \in Cells \ (D \cup E)  PROVE Kept(u, w, c)
  <2>1. Kept(u, v, c) /\ Kept(v, w, c)  BY DEF Sends
  <2>. QED  BY <2>1 DEF Kept
<1>. QED  BY <1>1, <1>3, <1>4, <1>5 DEF Sends

\* What settles one tile and leaves the others alone is a send of it.
LEMMA SendsOne ==
  ASSUME NEW v, NEW w \in Work, NEW c \in Cells, Made(v, w), CacheHolds(v), Settles(v, c),
         \A x \in Cells \ {c} : /\ v.client.shown[x] = w.client.shown[x]
                                /\ v.enc.held[x] = w.enc.held[x]
                                /\ x \in v.enc.debts <=> x \in w.enc.debts,
         w.enc.picture = "lossless" => c \notin v.enc.debts \/ c \in w.enc.debts
  PROVE  Sends(v, w, {c})
<1>1. v.enc.debts \subseteq Cells  BY WorkHas DEF Made
<1>2. (w.enc.picture = "lossless" /\ w.enc.debts = {}) => v.enc.debts = {}  BY <1>1
<1>. QED  BY <1>2 DEF Sends, Kept

\* A change that a still can be sent for: all of the tile, or a part of what the client
\* shows of it.
Fit(w, change, c) ==
  /\ change \in [whole : BOOLEAN, from : Shades]
  /\ Clear(w, c)
  /\ \/ change.whole \/ c \in w.enc.debts
     \/ w.client.shown[c].of \in {change.from, w.enc.mirror[c]} /\ Whole(w, w.client.shown[c])

\* A still owed stays fit to be sent while others are.
LEMMA FitStays ==
  ASSUME NEW v, NEW w, NEW D, Sends(v, w, D), NEW c \in Cells \ D, NEW change, Fit(w, change, c)
  PROVE  Fit(v, change, c)
<1>1. Kept(v, w, c) /\ Frame(v, w)  BY DEF Sends, Made
<1>. QED  BY <1>1 DEF Fit, Clear, Kept, Frame, Whole

\* A still of lossless pixels sends its tile, and stores no more than that.
LEMMA ExactSends ==
  ASSUME NEW w \in Work, CacheHolds(w), NEW c \in Cells, NEW change, Fit(w, change, c),
         w.enc.picture # "progressive", NEW v, v = Exact(w, c, change)
  PROVE  /\ Sends(v, w, {c})
         /\ ~ change.whole => v.enc.cache = w.enc.cache
         /\ change.whole => Later(w.enc.cache, v.enc.cache, w.enc.mirror[c])
<1>. DEFINE was == w.client.shown[c]
            whole == [of |-> w.enc.mirror[c], level |-> EXACT]
            part == [was EXCEPT !.of = IF @ \in {change.from, w.enc.mirror[c]}
                                       THEN w.enc.mirror[c] ELSE Torn]
<1>0. /\ Clear(w, c) /\ change.whole \in BOOLEAN /\ w.enc.held[c] = NoneHeld
      /\ change.from \in Shades /\ FULL \in Nat /\ EXACT = FULL + 1
  BY TilesAssumption DEF Fit, Clear, EXACT
<1>1. /\ w.enc.mirror[c] \in Shades /\ was \in Drawn /\ w.enc.debts \subseteq Cells
      /\ w.client.shown \in [Cells -> Drawn]
  BY WorkHas
<1>2. CASE change.whole
  <2>1. whole \in Drawn  BY <1>0, <1>1 DEF Drawn
  <2>. DEFINE a == Draw(w, c, whole)
              b == [a EXCEPT !.enc.debts = @ \ {c}]
  <2>2. v = Store(b, c, TRUE)  BY <1>2 DEF Exact
  <2>3. /\ Made(a, w) /\ a.enc = w.enc /\ a.client.kept = w.client.kept
        /\ a.client.shown = [w.client.shown EXCEPT ![c] = whole]
    <3>. HIDE DEF whole
    <3>. QED  BY <1>0, <2>1, DrawMakes
  <2>. HIDE DEF a
  <2>4. b = [a EXCEPT !.enc.debts = a.enc.debts \ {c}] /\ a \in Work
    BY <2>3 DEF Made
  <2>. HIDE DEF b
  <2>5. PICK d : d = a.enc.debts \ {c}  OBVIOUS
  <2>6. /\ Made(b, a) /\ b.client = a.client
        /\ b.enc.debts = a.enc.debts \ {c} /\ b.enc.held = a.enc.held /\ b.enc.cache = a.enc.cache
    <3>1. d \in SUBSET Cells  BY <1>1, <2>3, <2>5
    <3>2. b = Owing(a, d)  BY ONLY <2>4, <2>5 DEF Owing
    <3>3. a \in Work  BY <2>4
    <3>. QED  BY ONLY <2>5, <3>1, <3>2, <3>3, OwedMakes
  <2>7. b \in Work /\ Made(b, w)  BY <2>3, <2>6, MadeThen DEF Made
  <2>8. CacheHolds(b)
    <3>1. b.enc.picture = w.enc.picture  BY <2>7 DEF Made, Frame
    <3>. QED  BY <2>3, <2>6, <2>7, <3>1, CacheSame
  <2>9. b.client.shown[c] = whole /\ \A x \in Cells \ {c} : b.client.shown[x] = w.client.shown[x]
    <3>. HIDE DEF whole
    <3>. QED  BY <1>1, <2>3, <2>6
  <2>10. b.enc.mirror = w.enc.mirror /\ b.enc.picture = w.enc.picture  BY <2>7 DEF Made, Frame
  <2>11. b.client.shown[c].of = b.enc.mirror[c] /\ Whole(b, b.client.shown[c])
    BY <1>0, <2>9, <2>10 DEF Whole
  <2>12. /\ Made(v, b) /\ CacheHolds(v)
         /\ v.enc.debts = b.enc.debts /\ v.enc.held = b.enc.held
         /\ v.client.shown = b.client.shown
         /\ Later(b.enc.cache, v.enc.cache, b.enc.mirror[c])
    BY <2>2, <2>7, <2>8, <2>11, StoreMakes
  <2>13. Made(v, w)  BY <2>7, <2>12, MadeThen
  <2>14. v.enc.mirror = w.enc.mirror /\ v.enc.picture = w.enc.picture  BY <2>13 DEF Made, Frame
  <2>15. Right(v, c)  BY <2>10, <2>11, <2>12, <2>14 DEF Right, Whole
  <2>16. v.enc.held = w.enc.held /\ v.enc.debts = w.enc.debts \ {c}  BY <2>3, <2>6, <2>12
  <2>17. Settles(v, c)  BY <1>0, <2>15, <2>16 DEF Settles
  <2>18. Sends(v, w, {c})
    BY <2>9, <2>12, <2>13, <2>16, <2>17, SendsOne
  <2>. QED  BY <1>2, <2>3, <2>6, <2>10, <2>12, <2>18
<1>3. CASE ~ change.whole
  <2>1. part \in Drawn /\ part.level = was.level
        /\ (was.of \in {change.from, w.enc.mirror[c]} => part.of = w.enc.mirror[c])
    <3>1. Torn \in Shades  BY DEF Shades
    <3>. HIDE DEF was
    <3>. QED  BY <1>1, <3>1 DEF Drawn
  <2>2. v = Draw(w, c, part)  BY <1>3 DEF Exact
  <2>. HIDE DEF part
  <2>3. /\ Made(v, w) /\ v.enc = w.enc /\ v.client.kept = w.client.kept
        /\ v.client.shown = [w.client.shown EXCEPT ![c] = part]
    BY <1>0, <2>1, <2>2, DrawMakes
  <2>4. CacheHolds(v)
    <3>1. v \in Work  BY <2>3 DEF Made
    <3>. QED  BY <2>3, <3>1, CacheSame
  <2>5. v.client.shown[c] = part /\ \A x \in Cells \ {c} : v.client.shown[x] = w.client.shown[x]
    BY <1>1, <2>3
  <2>6. Settles(v, c)
    <3>1. c \in w.enc.debts \/ (was.of \in {change.from, w.enc.mirror[c]} /\ Whole(w, was))
      BY <1>3 DEF Fit
    <3>2. c \in v.enc.debts \/ Right(v, c)  BY <2>1, <2>3, <2>5, <3>1 DEF Right, Whole
    <3>. QED  BY <1>0, <2>3, <3>2 DEF Settles
  <2>7. Sends(v, w, {c})  BY <2>3, <2>4, <2>5, <2>6, SendsOne
  <2>. QED  BY <1>3, <2>3, <2>7
<1>. QED  BY <1>0, <1>2, <1>3

-----------------------------------------------------------------------------
(* A still's run: the slots it draws from outlast the run's stores.        *)

IsHit(w, c, stills, hits) == stills[c].whole /\ \E x \in hits : x.of = w.enc.mirror[c]

HitCells(w, run, stills, hits) == {c \in run : IsHit(w, c, stills, hits)}

Near(q, hits, n) == \A x \in hits : Within(q, x, n)

\* What is near the end of the record is nearer than more.
LEMMA NearIs ==
  ASSUME NEW q \in Seq(Entries), NEW hits, NEW n \in Nat, NEW m \in Nat, Near(q, hits, n), n <= m
  PROVE  Near(q, hits, m) /\ hits \subseteq ToSet(q)
<1>1. Len(q) \in Nat  OBVIOUS
<1>2. ToSet(q) = {q[i] : i \in 1 .. Len(q)}  BY ToSetIs
<1>3. ASSUME NEW x \in hits  PROVE Within(q, x, m) /\ x \in ToSet(q)
  <2>1. PICK i \in 1 .. Len(q) : q[i] = x /\ Len(q) - i < n  BY DEF Near, Within
  <2>2. Len(q) - i < m  BY <1>1, <2>1
  <2>. QED  BY <1>2, <2>1, <2>2 DEF Within
<1>. QED  BY <1>3 DEF Near

\* The number of tiles in a set of them.
LEMMA CellsCount ==
  ASSUME NEW S, S \subseteq Cells
  PROVE  /\ IsFiniteSet(S) /\ Cardinality(S) \in Nat /\ Cardinality(S) <= CACHE_SLOTS
         /\ \A c \in Cells \ S : Cardinality(S \cup {c}) = Cardinality(S) + 1
                                 /\ Cardinality(S) < CACHE_SLOTS
<1>1. Width \in Nat /\ CACHE_SLOTS \in Nat /\ CACHE_SLOTS >= Width /\ Cells = 1 .. Width
  BY TilesAssumption DEF Cells
<1>2. IsFiniteSet(Cells) /\ Cardinality(Cells) = Width
  <2>1. IsFiniteSet(1 .. Width) /\ Cardinality(1 .. Width) =
           IF 1 > Width THEN 0 ELSE Width - 1 + 1
    BY <1>1, FS_Interval
  <2>. QED  BY <1>1, <2>1
<1>3. ASSUME NEW T, T \subseteq Cells
      PROVE  IsFiniteSet(T) /\ Cardinality(T) \in Nat /\ Cardinality(T) <= Width
  BY <1>2, <1>3, FS_Subset, FS_CardinalityType
<1>4. ASSUME NEW c \in Cells \ S
      PROVE  Cardinality(S \cup {c}) = Cardinality(S) + 1 /\ Cardinality(S) < CACHE_SLOTS
  <2>1. IsFiniteSet(S) /\ c \notin S  BY <1>3
  <2>2. Cardinality(S \cup {c}) = Cardinality(S) + 1  BY <2>1, FS_AddElement
  <2>3. Cardinality(S \cup {c}) <= Width /\ Cardinality(S) \in Nat  BY <1>3
  <2>. QED  BY <1>1, <2>2, <2>3
<1>5. IsFiniteSet(S) /\ Cardinality(S) \in Nat /\ Cardinality(S) <= Width  BY <1>3
<1>6. Cardinality(S) <= CACHE_SLOTS  BY <1>1, <1>5
<1>. QED  BY <1>4, <1>5, <1>6

\* What is drawn from a slot is the tile the record has in it.
LEMMA SlotDrawn ==
  ASSUME NEW w \in Work, CacheHolds(w), NEW c \in Cells, Clear(w, c), NEW x \in ToSet(w.enc.cache),
         NEW v, v = DrawSlot(w, c, x.slot)
  PROVE  /\ Made(v, w) /\ v.enc = w.enc /\ v.client.kept = w.client.kept
         /\ v.client.shown[c].of = x.of
         /\ v.client.shown[c] = w.client.kept[x.slot]
         /\ x.settled => Whole(w, v.client.shown[c])
         /\ \A y \in Cells \ {c} : v.client.shown[y] = w.client.shown[y]
<1>1. Keeps(w, x)  BY CacheHas
<1>2. PICK tile : tile = w.client.kept[x.slot]  OBVIOUS
<1>3. tile \in Drawn
  <2>1. PICK S \in SUBSET (1 .. CACHE_SLOTS) : w.client.kept \in [S -> Drawn]
    BY DEF Work, Clients
  <2>. QED  BY <1>1, <1>2, <2>1 DEF Keeps
<1>4. v = Draw(w, c, tile)  BY <1>1, <1>2 DEF DrawSlot, Keeps
<1>5. /\ Made(v, w) /\ v.enc = w.enc /\ v.client.kept = w.client.kept
      /\ v.client.shown = [w.client.shown EXCEPT ![c] = tile]
  BY <1>3, <1>4, DrawMakes
<1>6. w.client.shown \in [Cells -> Drawn]  BY WorkHas
<1>7. v.client.shown[c] = tile /\ \A y \in Cells \ {c} : v.client.shown[y] = w.client.shown[y]
  BY <1>5, <1>6
<1>. QED  BY <1>1, <1>2, <1>5, <1>7 DEF Keeps

\* A tile of a run is sent, from a slot or as pixels, and the slots yet to be drawn
\* from move back by one.
LEMMA StillTileSends ==
  ASSUME NEW w \in Work, CacheHolds(w), NEW c \in Cells, NEW stills, Fit(w, stills[c], c),
         w.enc.picture # "progressive", NEW hits, \A x \in hits : x.settled,
         NEW n \in Nat, Near(w.enc.cache, hits, n), NEW v, v = StillTile(w, c, stills, hits)
  PROVE  /\ Sends(v, w, {c})
         /\ IsHit(w, c, stills, hits) => Near(v.enc.cache, hits, n)
         /\ n < CACHE_SLOTS => Near(v.enc.cache, hits, n + 1)
<1>. DEFINE k == {x \in hits : x.of = w.enc.mirror[c]}
<1>0. w.enc.cache \in Seq(Entries) /\ stills[c].whole \in BOOLEAN /\ w.enc.debts \subseteq Cells
  BY CacheHas, WorkHas DEF Fit
<1>1. hits \subseteq ToSet(w.enc.cache) /\ Near(w.enc.cache, hits, n + 1)
  BY <1>0, NearIs
<1>2. IsHit(w, c, stills, hits) <=> (stills[c].whole /\ k # {})  BY DEF IsHit
<1>3. CASE stills[c].whole /\ k # {}
  <2>. DEFINE x == CHOOSE y \in k : TRUE
  <2>1. x \in hits /\ x.of = w.enc.mirror[c]  BY <1>3
  <2>2. PICK d : d = w.enc.debts \ {c}  OBVIOUS
  <2>3. v = DrawSlot(Owing(w, d), c, x.slot)
    <3>1. v = DrawSlot([w EXCEPT !.enc.debts = @ \ {c}], c, x.slot)  BY <1>3 DEF StillTile
    <3>2. [w EXCEPT !.enc.debts = @ \ {c}] = Owing(w, d)  BY ONLY <2>2 DEF Owing
    <3>. HIDE DEF x
    <3>. QED  BY ONLY <3>1, <3>2
  <2>. HIDE DEF x
  <2>4. PICK u : u = Owing(w, d)  OBVIOUS
  <2>5. /\ Made(u, w) /\ u.client = w.client
        /\ u.enc.debts = d /\ u.enc.held = w.enc.held /\ u.enc.cache = w.enc.cache
    <3>1. d \in SUBSET Cells  BY <1>0, <2>2
    <3>. QED  BY <2>4, <3>1, OwedMakes
  <2>6. u \in Work /\ u.enc.mirror = w.enc.mirror /\ u.enc.picture = w.enc.picture
        /\ u.client.streams = w.client.streams
    BY <2>5 DEF Made, Frame
  <2>7. CacheHolds(u)  BY <2>5, <2>6, CacheSame
  <2>8. Clear(u, c) /\ w.enc.held[c] = NoneHeld  BY <2>5, <2>6 DEF Fit, Clear
  <2>9. v = DrawSlot(u, c, x.slot)  BY <2>3, <2>4
  <2>10. x \in ToSet(u.enc.cache) /\ x.settled  BY <1>1, <2>1, <2>5
  <2>11. /\ Made(v, u) /\ v.enc = u.enc /\ v.client.kept = u.client.kept
         /\ v.client.shown[c].of = x.of /\ Whole(u, v.client.shown[c])
         /\ \A y \in Cells \ {c} : v.client.shown[y] = u.client.shown[y]
    BY <2>6, <2>7, <2>8, <2>9, <2>10, SlotDrawn
  <2>12. Made(v, w)  BY <2>5, <2>11, MadeThen
  <2>13. v \in Work /\ v.enc.picture = w.enc.picture /\ v.enc.mirror = w.enc.mirror
    BY <2>12 DEF Made, Frame
  <2>14. CacheHolds(v)  BY <2>5, <2>6, <2>7, <2>11, <2>13, CacheSame
  <2>15. Right(v, c)  BY <2>1, <2>6, <2>11, <2>13 DEF Right, Whole
  <2>16. Settles(v, c)  BY <2>5, <2>8, <2>11, <2>15 DEF Settles
  <2>17. Sends(v, w, {c})
    <3>1. v.enc.debts = w.enc.debts \ {c} /\ v.enc.held = w.enc.held  BY <2>2, <2>5, <2>11
    <3>2. \A y \in Cells \ {c} : v.client.shown[y] = w.client.shown[y]  BY <2>5, <2>11
    <3>. QED  BY <2>12, <2>14, <2>16, <3>1, <3>2, SendsOne
  <2>18. v.enc.cache = w.enc.cache  BY <2>5, <2>11
  <2>. QED  BY <1>1, <2>17, <2>18
<1>4. CASE ~ (stills[c].whole /\ k # {})
  <2>1. v = Exact(w, c, stills[c])  BY <1>4 DEF StillTile
  <2>2. /\ Sends(v, w, {c})
        /\ ~ stills[c].whole => v.enc.cache = w.enc.cache
        /\ stills[c].whole => Later(w.enc.cache, v.enc.cache, w.enc.mirror[c])
    BY <2>1, ExactSends
  <2>3. ASSUME n < CACHE_SLOTS  PROVE Near(v.enc.cache, hits, n + 1)
    <3>1. CASE ~ stills[c].whole  BY <1>1, <2>2, <3>1
    <3>2. CASE stills[c].whole
      <4>1. \A x \in hits : x.of # w.enc.mirror[c]  BY <1>4, <3>2
      <4>. QED  BY <2>2, <2>3, <3>2, <4>1 DEF Near, Later
    <3>. QED  BY <1>0, <3>1, <3>2
  <2>. QED  BY <1>2, <1>4, <2>2, <2>3
<1>. QED  BY <1>3, <1>4

UpTo(S, c) == S \cap (1 .. c)

\* The first tiles of none and of all.
LEMMA UpToIs ==
  ASSUME NEW S, S \subseteq Cells
  PROVE  UpTo(S, 0) = {} /\ UpTo(S, Width) = S
<1>1. Width \in Nat /\ Cells = 1 .. Width  BY TilesAssumption DEF Cells
<1>2. UpTo(S, 0) = {}  BY DEF UpTo
<1>3. UpTo(S, Width) = S  BY <1>1 DEF UpTo
<1>. QED  BY <1>2, <1>3

\* The first tiles of one more.
LEMMA UpToAt ==
  ASSUME NEW S, S \subseteq Cells, NEW c \in Cells
  PROVE  /\ c \in S => UpTo(S, c) = UpTo(S, c - 1) \cup {c}
         /\ c \notin S => UpTo(S, c) = UpTo(S, c - 1)
         /\ c \notin UpTo(S, c - 1)
         /\ UpTo(S, c) \subseteq Cells /\ UpTo(S, c - 1) \subseteq Cells
<1>1. Width \in Nat /\ Cells = 1 .. Width /\ c \in 1 .. Width  BY TilesAssumption DEF Cells
<1>2. \A x \in 1 .. Width : x \in 1 .. c <=> (x = c \/ x \in 1 .. c - 1)  BY <1>1
<1>3. c \in S => UpTo(S, c) = UpTo(S, c - 1) \cup {c}  BY <1>1, <1>2 DEF UpTo
<1>4. c \notin S => UpTo(S, c) = UpTo(S, c - 1)  BY <1>1, <1>2 DEF UpTo
<1>5. c \notin UpTo(S, c - 1)  BY <1>1 DEF UpTo
<1>. QED  BY <1>3, <1>4, <1>5 DEF UpTo

\* A run is sent, where the slots it draws from outlast its stores.
LEMMA DrawnRunSends ==
  ASSUME NEW w \in Work, CacheHolds(w), NEW run, run \subseteq Cells, NEW stills,
         w.enc.picture # "progressive", \A c \in run : Fit(w, stills[c], c),
         NEW hits, \A x \in hits : x.settled,
         Near(w.enc.cache, hits, Cardinality(HitCells(w, run, stills, hits)))
  PROVE  Sends(DrawnRun(w, run, stills, hits), w, run)
<1>. DEFINE H == HitCells(w, run, stills, hits)
            B(c) == Cardinality(H \cup UpTo(run, c))
            I == [c \in 0 .. Width |->
                    {v \in Work : /\ Sends(v, w, UpTo(run, c))
                                  /\ Near(v.enc.cache, hits, B(c))}]
<1>0. Width \in Nat /\ Cells = 1 .. Width /\ CACHE_SLOTS \in Nat  BY TilesAssumption DEF Cells
<1>1. w \in I[0]
  <2>1. UpTo(run, 0) = {} /\ H \cup {} = H  BY UpToIs
  <2>2. Sends(w, w, UpTo(run, 0)) /\ B(0) = Cardinality(H)  BY <2>1, SendsNone
  <2>. QED  BY <1>0, <2>2
<1>2. ASSUME NEW c \in Cells, NEW v \in I[c - 1]
      PROVE  (IF c \in run THEN StillTile(v, c, stills, hits) ELSE v) \in I[c]
  <2>0. c - 1 \in 0 .. Width /\ c \in 0 .. Width  BY <1>0
  <2>1. v \in Work /\ Sends(v, w, UpTo(run, c - 1)) /\ Near(v.enc.cache, hits, B(c - 1))
    BY <2>0
  <2>2. CASE c \notin run
    <3>1. UpTo(run, c) = UpTo(run, c - 1)  BY <2>2, UpToAt
    <3>. HIDE DEF H
    <3>2. v \in I[c]  BY <2>0, <2>1, <3>1
    <3>. HIDE DEF I, B
    <3>. QED  BY <2>2, <3>2
  <2>3. CASE c \in run
    <3>1. PICK u : u = StillTile(v, c, stills, hits)  OBVIOUS
    <3>2. UpTo(run, c) = UpTo(run, c - 1) \cup {c} /\ c \notin UpTo(run, c - 1)
          /\ UpTo(run, c - 1) \subseteq Cells /\ UpTo(run, c) \subseteq Cells
      BY <2>3, UpToAt
    <3>3. Fit(w, stills[c], c)  BY <2>3
    <3>4. Fit(v, stills[c], c)  BY <2>1, <3>2, <3>3, FitStays
    <3>5. CacheHolds(v) /\ v.enc.mirror = w.enc.mirror /\ v.enc.picture = w.enc.picture
      BY <2>1 DEF Sends, Made, Frame
    <3>6. H \cup UpTo(run, c - 1) \subseteq Cells /\ H \cup UpTo(run, c) \subseteq Cells
      BY <3>2 DEF HitCells
    <3>7. B(c - 1) \in Nat /\ B(c) \in Nat  BY <3>6, CellsCount
    <3>8. PICK n \in Nat : n = B(c - 1)  BY <3>7
    <3>9. Near(v.enc.cache, hits, n)  BY <2>1, <3>8
    <3>10. IsHit(v, c, stills, hits) = IsHit(w, c, stills, hits)  BY <3>5 DEF IsHit
    <3>. HIDE DEF B, H
    <3>11. /\ Sends(u, v, {c})
           /\ IsHit(v, c, stills, hits) => Near(u.enc.cache, hits, n)
           /\ n < CACHE_SLOTS => Near(u.enc.cache, hits, n + 1)
      BY <2>1, <3>1, <3>4, <3>5, <3>9, StillTileSends
    <3>12. Sends(u, w, UpTo(run, c))  BY <2>1, <3>2, <3>11, SendsThen
    <3>13. Near(u.enc.cache, hits, B(c))
      <4>1. CASE IsHit(w, c, stills, hits)
        <5>1. c \in H  BY <2>3, <4>1 DEF H, HitCells
        <5>2. H \cup UpTo(run, c) = H \cup UpTo(run, c - 1)  BY <3>2, <5>1
        <5>3. B(c) = n  BY <3>8, <5>2 DEF B
        <5>. QED  BY <3>10, <3>11, <4>1, <5>3
      <4>2. CASE ~ IsHit(w, c, stills, hits)
        <5>1. c \in Cells \ (H \cup UpTo(run, c - 1))  BY <3>2, <4>2 DEF H, HitCells
        <5>2. H \cup UpTo(run, c) = (H \cup UpTo(run, c - 1)) \cup {c}  BY <3>2
        <5>3. B(c) = n + 1 /\ n < CACHE_SLOTS  BY <3>6, <3>8, <5>1, <5>2, CellsCount DEF B
        <5>. QED  BY <3>11, <5>3
      <4>. QED  BY <4>1, <4>2
    <3>14. u \in Work  BY <3>12 DEF Sends, Made
    <3>15. u \in I[c]  BY <2>0, <3>12, <3>13, <3>14
    <3>. HIDE DEF I
    <3>. QED  BY <2>3, <3>1, <3>15
  <2>. QED  BY <2>2, <2>3
<1>. HIDE DEF H, B
<1>3. \A v \in I[Width] : Sends(v, w, run)
  <2>1. UpTo(run, Width) = run  BY UpToIs
  <2>. QED  BY <1>0, <2>1
<1>. HIDE DEF I
<1>4. DrawnRun(w, run, stills, hits) \in I[Width]  BY <1>1, <1>2, DrawnRunRuns
<1>. QED  BY <1>3, <1>4

-----------------------------------------------------------------------------
(* The touches of a run: the same records, those drawn from the latest.    *)

\* A record of the cache touched as it is.
LEMMA TouchedSame ==
  ASSUME NEW q \in Seq(Entries), CacheGood(q), NEW k \in ToSet(q), NEW r, r = Touch(q, k)
  PROVE  /\ r \in Seq(Entries) /\ CacheGood(r) /\ ToSet(r) = ToSet(q)
         /\ \A n \in Nat \ {0} : Within(r, k, n)
         /\ \A x, n : n \in Nat /\ Within(q, x, n) /\ x # k => Within(r, x, n + 1)
<1>1. ToSet(q) = {q[i] : i \in 1 .. Len(q)} /\ k \in Entries  BY ToSetIs
<1>2. PICK p \in 1 .. Len(q) : q[p] = k  BY <1>1
<1>3. \A i \in 1 .. Len(q) : q[i].slot = k.slot \/ q[i].of = k.of => q[i] = k
  BY <1>2 DEF CacheGood
<1>4. Placed(q, k)  BY <1>2, <1>3 DEF Placed
<1>5. TouchedAs(r, q, k)  BY <1>1, TouchIs
<1>6. CacheGood(r)  BY <1>1, <1>4, <1>5, TouchedGood
<1>7. /\ k \in ToSet(r)
      /\ \A x \in ToSet(r) : x = k \/ (x \in ToSet(q) /\ x.slot # k.slot)
      /\ \A x \in ToSet(q) : x.slot # k.slot => x \in ToSet(r)
  BY <1>1, <1>5, TouchedHas
<1>8. ToSet(r) = ToSet(q)  BY <1>1, <1>3, <1>7
<1>9. /\ \A n \in Nat \ {0} : Within(r, k, n)
      /\ \A x, n : n \in Nat /\ Within(q, x, n) /\ x.slot # k.slot => Within(r, x, n + 1)
  BY <1>1, <1>5, TouchedWithin
<1>10. \A x, n : Within(q, x, n) /\ x # k => x.slot # k.slot  BY <1>3 DEF Within
<1>. QED  BY <1>5, <1>6, <1>8, <1>9, <1>10 DEF TouchedAs

\* The touches of a run leave the slots it draws from the latest of the record.
LEMMA TouchedCacheIs ==
  ASSUME NEW w \in Work, CacheHolds(w), NEW run, run \subseteq Cells, NEW stills,
         \A c \in run : stills[c].whole \in BOOLEAN,
         NEW hits, hits = Hits(w, run, stills),
         NEW r, r = TouchedCache(w.enc.cache, run, w.enc.mirror, stills, hits)
  PROVE  /\ r \in Seq(Entries) /\ CacheGood(r) /\ ToSet(r) = ToSet(w.enc.cache)
         /\ Near(r, hits, Cardinality(HitCells(w, run, stills, hits)))
<1>. DEFINE q0 == w.enc.cache
            mirror == w.enc.mirror
            H == HitCells(w, run, stills, hits)
            Met(c) == {x \in hits : \E d \in UpTo(H, c) : x.of = mirror[d]}
            I == [c \in 0 .. Width |->
                    {q \in Seq(Entries) :
                       /\ CacheGood(q) /\ ToSet(q) = ToSet(q0)
                       /\ Near(q, Met(c), Cardinality(UpTo(H, c)))}]
<1>0. Width \in Nat /\ Cells = 1 .. Width /\ H \subseteq Cells
  BY TilesAssumption DEF Cells, HitCells
<1>1. q0 \in I[0]
  <2>1. UpTo(H, 0) = {}  BY <1>0, UpToIs
  <2>2. Met(0) = {}  BY <2>1
  <2>3. q0 \in Seq(Entries) /\ CacheGood(q0)  BY CacheHas
  <2>4. Near(q0, Met(0), Cardinality(UpTo(H, 0)))  BY <2>2 DEF Near
  <2>. HIDE DEF q0, Met, H
  <2>. QED  BY <1>0, <2>3, <2>4
<1>2. ASSUME NEW c \in Cells, NEW q \in I[c - 1]
      PROVE  (IF c \in run THEN TouchHit(q, c, mirror, stills, hits) ELSE q) \in I[c]
  <2>0. c - 1 \in 0 .. Width /\ c \in 0 .. Width  BY <1>0
  <2>1. /\ q \in Seq(Entries) /\ CacheGood(q) /\ ToSet(q) = ToSet(q0)
        /\ Near(q, Met(c - 1), Cardinality(UpTo(H, c - 1)))
    BY <2>0
  <2>2. hits \subseteq ToSet(q)  BY <2>1 DEF Hits
  <2>3. CASE c \notin H
    <3>1. UpTo(H, c) = UpTo(H, c - 1)  BY <1>0, <2>3, UpToAt
    <3>2. Met(c) = Met(c - 1)  BY <3>1
    <3>3. q \in I[c]
      <4>. HIDE DEF H, Met, q0
      <4>. QED  BY <2>0, <2>1, <3>1, <3>2
    <3>4. c \in run => TouchHit(q, c, mirror, stills, hits) = q
      <4>. SUFFICES ASSUME c \in run PROVE TouchHit(q, c, mirror, stills, hits) = q  OBVIOUS
      <4>1. ~ IsHit(w, c, stills, hits) /\ stills[c].whole \in BOOLEAN  BY <2>3 DEF HitCells
      <4>2. ~ (stills[c].whole /\ {x \in hits \cap ToSet(q) : x.of = mirror[c]} # {})
        BY <4>1 DEF IsHit
      <4>. QED  BY <4>2 DEF TouchHit
    <3>. HIDE DEF I, H
    <3>. QED  BY <3>3, <3>4
  <2>4. CASE c \in H
    <3>. DEFINE k == CHOOSE x \in {y \in hits \cap ToSet(q) : y.of = mirror[c]} : TRUE
    <3>1. {y \in hits \cap ToSet(q) : y.of = mirror[c]} # {} /\ stills[c].whole
      BY <2>2, <2>4 DEF IsHit, HitCells
    <3>2. k \in hits /\ k \in ToSet(q) /\ k.of = mirror[c]  BY <3>1
    <3>3. TouchHit(q, c, mirror, stills, hits) = Touch(q, k)  BY <3>1 DEF TouchHit
    <3>. HIDE DEF k
    <3>4. PICK p : p = Touch(q, k)  OBVIOUS
    <3>5. /\ p \in Seq(Entries) /\ CacheGood(p) /\ ToSet(p) = ToSet(q)
          /\ \A n \in Nat \ {0} : Within(p, k, n)
          /\ \A x, n : n \in Nat /\ Within(q, x, n) /\ x # k => Within(p, x, n + 1)
      BY <2>1, <3>2, <3>4, TouchedSame
    <3>6. /\ UpTo(H, c) = UpTo(H, c - 1) \cup {c} /\ c \notin UpTo(H, c - 1)
          /\ UpTo(H, c - 1) \subseteq Cells
      BY <1>0, <2>4, UpToAt
    <3>7. Cardinality(UpTo(H, c)) = Cardinality(UpTo(H, c - 1)) + 1
          /\ Cardinality(UpTo(H, c - 1)) \in Nat
      <4>. HIDE DEF H
      <4>. QED  BY <3>6, CellsCount
    <3>8. PICK n \in Nat : n = Cardinality(UpTo(H, c - 1))  BY <3>7
    <3>9. Near(p, Met(c), n + 1)
      <4>1. SUFFICES ASSUME NEW x \in Met(c) PROVE Within(p, x, n + 1)  BY DEF Near
      <4>2. CASE x = k  BY <3>5, <3>8, <4>2
      <4>3. CASE x # k
        <5>1. x \in hits /\ \E d \in UpTo(H, c) : x.of = mirror[d]  OBVIOUS
        <5>2. PICK d \in UpTo(H, c) : x.of = mirror[d]  BY <5>1
        <5>3. d # c
          <6>1. SUFFICES ASSUME d = c PROVE FALSE  OBVIOUS
          <6>2. x \in ToSet(q) /\ x.of = k.of  BY <2>2, <3>2, <5>1, <5>2, <6>1
          <6>3. ToSet(q) = {q[i] : i \in 1 .. Len(q)}  BY <2>1, ToSetIs
          <6>. QED  BY <2>1, <3>2, <4>3, <6>2, <6>3 DEF CacheGood
        <5>4. x \in Met(c - 1)  BY <3>6, <5>1, <5>2, <5>3
        <5>. HIDE DEF Met, H
        <5>5. Within(q, x, n)  BY <2>1, <3>8, <5>4 DEF Near
        <5>. QED  BY <3>5, <3>8, <4>3, <5>5
      <4>. QED  BY <4>2, <4>3
    <3>10. p \in I[c]
      <4>1. ToSet(p) = ToSet(q0)  BY <2>1, <3>5
      <4>2. Near(p, Met(c), Cardinality(UpTo(H, c)))
        <5>. HIDE DEF Met, H
        <5>. QED  BY <3>7, <3>8, <3>9
      <4>. HIDE DEF Met, H, q0
      <4>. QED  BY <2>0, <3>5, <4>1, <4>2
    <3>11. c \in run  BY <2>4 DEF HitCells
    <3>. HIDE DEF I
    <3>. QED  BY <3>3, <3>4, <3>10, <3>11
  <2>. QED  BY <2>3, <2>4
<1>3. \A q \in I[Width] : /\ q \in Seq(Entries) /\ CacheGood(q) /\ ToSet(q) = ToSet(q0)
                          /\ Near(q, hits, Cardinality(H))
  <2>1. UpTo(H, Width) = H  BY <1>0, UpToIs
  <2>2. Met(Width) = hits
    <3>1. ASSUME NEW x \in hits  PROVE \E d \in H : x.of = mirror[d]
      <4>1. PICK d \in run : stills[d].whole /\ mirror[d] = x.of  BY DEF Hits
      <4>2. IsHit(w, d, stills, hits)  BY <4>1 DEF IsHit
      <4>. QED  BY <4>1, <4>2 DEF HitCells
    <3>. QED  BY <2>1, <3>1
  <2>. HIDE DEF H, Met, q0
  <2>. QED  BY <1>0, <2>1, <2>2
<1>. HIDE DEF I
<1>4. r \in I[Width]
  <2>. HIDE DEF q0, mirror
  <2>1. TouchedCache(q0, run, mirror, stills, hits) \in I[Width]  BY <1>1, <1>2, TouchedRuns
  <2>. QED  BY <2>1 DEF q0, mirror
<1>. QED  BY <1>3, <1>4

\* A run is sent, its slots touched before it is stored.
LEMMA StillSends ==
  ASSUME NEW w \in Work, CacheHolds(w), NEW run, run \subseteq Cells, NEW stills,
         w.enc.picture # "progressive", \A c \in run : Fit(w, stills[c], c)
  PROVE  Sends(Still(w, run, stills), w, run)
<1>1. PICK hits : hits = Hits(w, run, stills)  OBVIOUS
<1>2. PICK r : r = TouchedCache(w.enc.cache, run, w.enc.mirror, stills, hits)  OBVIOUS
<1>3. PICK v : v = Touched(w, run, stills, hits)  OBVIOUS
<1>4. Still(w, run, stills) = DrawnRun(v, run, stills, hits)  BY <1>1, <1>3 DEF Still
<1>5. v = [w EXCEPT !.enc.cache = r]  BY ONLY <1>2, <1>3 DEF Touched
<1>6. /\ w = [enc |-> w.enc, client |-> w.client] /\ w.enc \in Encoders /\ w.client \in Clients
  BY DEF Work
<1>7. /\ r \in Seq(Entries) /\ CacheGood(r) /\ ToSet(r) = ToSet(w.enc.cache)
      /\ Near(r, hits, Cardinality(HitCells(w, run, stills, hits)))
  <2>1. \A c \in run : stills[c].whole \in BOOLEAN  BY DEF Fit
  <2>. QED  BY <1>1, <1>2, <2>1, TouchedCacheIs
<1>8. v = [enc |-> [w.enc EXCEPT !.cache = r], client |-> w.client]  BY <1>5, <1>6
<1>9. [w.enc EXCEPT !.cache = r] \in Encoders  BY <1>6, <1>7 DEF Encoders
<1>10. v \in Work  BY <1>6, <1>8, <1>9 DEF Work
<1>11. /\ v.enc.cache = r /\ v.client = w.client /\ v.enc.debts = w.enc.debts
       /\ v.enc.held = w.enc.held /\ Frame(v, w)
  BY <1>6, <1>8 DEF Encoders, Frame
<1>12. CacheHolds(v)
  <2>1. \A x \in ToSet(w.enc.cache) : Keeps(w, x)  BY CacheHas
  <2>2. v.enc.picture = w.enc.picture  BY <1>11 DEF Frame
  <2>3. \A x : Keeps(v, x) = Keeps(w, x)  BY <1>11, <2>2 DEF Keeps, Whole
  <2>4. \A x \in ToSet(v.enc.cache) : Keeps(v, x)  BY <1>7, <1>11, <2>1, <2>3
  <2>. QED  BY <1>7, <1>10, <1>11, <2>4, CacheHas
<1>13. Made(v, w)  BY <1>10, <1>11 DEF Made
<1>14. Sends(v, w, {})  BY <1>11, <1>12, <1>13 DEF Sends, Kept
<1>15. \A c \in run : Fit(v, stills[c], c)
  <2>1. \A c \in run : c \in Cells \ {}  OBVIOUS
  <2>. QED  BY <1>14, <2>1, FitStays
<1>16. v.enc.picture # "progressive" /\ v.enc.mirror = w.enc.mirror  BY <1>11 DEF Frame
<1>17. HitCells(w, run, stills, hits) = HitCells(v, run, stills, hits)
  BY <1>16 DEF IsHit, HitCells
<1>18. Near(v.enc.cache, hits, Cardinality(HitCells(v, run, stills, hits)))
  BY <1>7, <1>11, <1>17
<1>19. \A x \in hits : x.settled
  <2>1. ASSUME NEW x \in hits PROVE x.settled
    <3>1. ToSet(w.enc.cache) \subseteq Entries  BY CacheHas, ToSetIs
    <3>. QED  BY <1>1, <3>1 DEF Hits, Entries
  <2>. QED  BY <2>1
<1>20. Sends(DrawnRun(v, run, stills, hits), v, run)
  BY <1>10, <1>12, <1>15, <1>16, <1>18, <1>19, DrawnRunSends
<1>21. Sends(DrawnRun(v, run, stills, hits), w, {} \cup run)
  <2>1. {} \subseteq Cells  OBVIOUS
  <2>. QED  BY <1>14, <1>20, <2>1, SendsThen
<1>. QED  BY <1>4, <1>21

-----------------------------------------------------------------------------
(* The progressive tiles.                                                  *)

Put(w, q, c, h, d) == [w EXCEPT !.enc.cache = q, !.enc.held[c] = h, !.enc.debts = d]

\* Record, coefficients and debts changed, as a piece of a send.
LEMMA PutMakes ==
  ASSUME NEW w \in Work, NEW q \in Seq(Entries), NEW c \in Cells, NEW h \in Passes,
         NEW d \in SUBSET Cells, NEW v, v = Put(w, q, c, h, d)
  PROVE  /\ Made(v, w) /\ v.client = w.client /\ v.enc.cache = q /\ v.enc.debts = d
         /\ v.enc.held[c] = h /\ \A x \in Cells \ {c} : v.enc.held[x] = w.enc.held[x]
<1>1. /\ w = [enc |-> w.enc, client |-> w.client] /\ w.enc \in Encoders /\ w.client \in Clients
  BY DEF Work
<1>2. PICK g : g = [w.enc.held EXCEPT ![c] = h]  OBVIOUS
<1>3. w.enc.held \in [Cells -> Passes]  BY WorkHas
<1>4. g \in [Cells -> Passes] /\ g[c] = h /\ \A x \in Cells \ {c} : g[x] = w.enc.held[x]
  BY <1>2, <1>3
<1>5. w.enc = [mirror |-> w.enc.mirror, restart |-> w.enc.restart, live |-> w.enc.live,
               ended |-> w.enc.ended, debts |-> w.enc.debts, cache |-> w.enc.cache,
               stills |-> w.enc.stills, moved |-> w.enc.moved, picture |-> w.enc.picture,
               held |-> w.enc.held]
  BY <1>1 DEF Encoders
<1>6. v = [enc |-> [w.enc EXCEPT !.cache = q, !.held = g, !.debts = d], client |-> w.client]
  BY <1>1, <1>2, <1>5 DEF Put
<1>7. [w.enc EXCEPT !.cache = q, !.held = g, !.debts = d] \in Encoders  BY <1>1, <1>4 DEF Encoders
<1>8. v \in Work  BY <1>1, <1>6, <1>7 DEF Work
<1>9. v.enc = [w.enc EXCEPT !.cache = q, !.held = g, !.debts = d] /\ v.client = w.client
  BY <1>6
<1>10. v.enc.cache = q /\ v.enc.held = g /\ v.enc.debts = d  BY <1>1, <1>9 DEF Encoders
<1>11. /\ v.enc.mirror = w.enc.mirror /\ v.enc.restart = w.enc.restart
       /\ v.enc.live = w.enc.live /\ v.enc.ended = w.enc.ended
  BY <1>1, <1>9 DEF Encoders
<1>12. /\ v.enc.stills = w.enc.stills /\ v.enc.moved = w.enc.moved
       /\ v.enc.picture = w.enc.picture
  BY <1>1, <1>9 DEF Encoders
<1>. QED  BY <1>4, <1>8, <1>9, <1>10, <1>11, <1>12 DEF Made, Frame

\* A pass drawn.
Passed(v, w, c, of, stage) ==
  /\ Made(v, w) /\ v.client.kept = w.client.kept /\ v.enc.cache = w.enc.cache
  /\ v.client.shown[c] = [of |-> of, level |-> stage]
  /\ v.enc.held[c] = [of |-> of, stage |-> stage]
  /\ v.enc.debts = IF stage = FULL THEN w.enc.debts \ {c} ELSE w.enc.debts \cup {c}
  /\ \A x \in Cells \ {c} : /\ v.client.shown[x] = w.client.shown[x]
                            /\ v.enc.held[x] = w.enc.held[x]

\* A pass, as a piece of a send.
LEMMA PassMakes ==
  ASSUME NEW w \in Work, NEW c \in Cells, Clear(w, c), NEW of \in Shades, NEW stage, stage \in 0 .. FULL,
         NEW v, v = Pass(w, c, of, stage)
  PROVE  Passed(v, w, c, of, stage)
<1>0. FULL \in Nat /\ EXACT = FULL + 1  BY TilesAssumption DEF EXACT
<1>. DEFINE tile == [of |-> of, level |-> stage]
            h == [of |-> of, stage |-> stage]
<1>1. tile \in Drawn  BY <1>0 DEF Drawn
<1>2. h \in Passes  BY <1>0 DEF Passes
<1>3. PICK u : u = Draw(w, c, tile)  OBVIOUS
<1>4. PICK d : d = IF stage = FULL THEN w.enc.debts \ {c} ELSE w.enc.debts \cup {c}  OBVIOUS
<1>5. v = [u EXCEPT !.enc.held[c] = h,
                    !.enc.debts = IF stage = FULL THEN @ \ {c} ELSE @ \cup {c}]
  BY <1>3 DEF Pass
<1>. HIDE DEF tile, h
<1>6. /\ Made(u, w) /\ u.enc = w.enc /\ u.client.kept = w.client.kept
      /\ u.client.shown = [w.client.shown EXCEPT ![c] = tile]
  BY <1>1, <1>3, DrawMakes
<1>7. u \in Work /\ u.enc \in Encoders /\ u = [enc |-> u.enc, client |-> u.client]
  BY <1>6 DEF Made, Work
<1>8. PICK g : g = [u.enc.held EXCEPT ![c] = h]  OBVIOUS
<1>9. g \in [Cells -> Passes] /\ g[c] = h /\ \A x \in Cells \ {c} : g[x] = u.enc.held[x]
  <2>1. u.enc.held \in [Cells -> Passes]  BY <1>7, WorkHas
  <2>. QED  BY <1>2, <1>8, <2>1
<1>10. d \in SUBSET Cells  BY <1>4, <1>6, WorkHas
<1>11. v.enc = [u.enc EXCEPT !.held = g, !.debts = d] /\ v.client = u.client
  <2>1. d = IF stage = FULL THEN u.enc.debts \ {c} ELSE u.enc.debts \cup {c}  BY <1>4, <1>6
  <2>2. PICK e : e = u.enc  OBVIOUS
  <2>3. PICK l : l = u.client  OBVIOUS
  <2>4. u = [enc |-> e, client |-> l] /\ e \in Encoders  BY <1>7, <2>2, <2>3
  <2>5. d = IF stage = FULL THEN e.debts \ {c} ELSE e.debts \cup {c}  BY <2>1, <2>2
  <2>6. v = [enc |-> [e EXCEPT !.held = [e.held EXCEPT ![c] = h], !.debts = d], client |-> l]
    BY ONLY <1>5, <2>4, <2>5 DEF Encoders
  <2>. QED  BY <1>8, <2>2, <2>3, <2>6
<1>12. /\ Made(v, u) /\ v.client = u.client /\ v.enc.cache = u.enc.cache /\ v.enc.debts = d
       /\ v.enc.held = g
  <2>1. PICK e : e = v.enc  OBVIOUS
  <2>2. e = [u.enc EXCEPT !.held = g, !.debts = d]  BY <1>11, <2>1
  <2>3. e \in Encoders  BY <1>7, <1>9, <1>10, <2>2 DEF Encoders
  <2>4. v = [enc |-> e, client |-> u.client]
    <3>1. PICK a : a = [u.enc EXCEPT !.held[c] = h]  OBVIOUS
    <3>2. DOMAIN v = {"enc", "client"} /\ v = [x \in {"enc", "client"} |-> v[x]]
      BY <1>5, <1>7
    <3>. QED  BY <1>11, <2>1, <3>2
  <2>5. v \in Work  BY <1>7, <2>3, <2>4 DEF Work
  <2>6. e.cache = u.enc.cache /\ e.held = g /\ e.debts = d  BY <1>7, <2>2 DEF Encoders
  <2>7. e.mirror = u.enc.mirror /\ e.restart = u.enc.restart
        /\ e.live = u.enc.live /\ e.ended = u.enc.ended
    BY <1>7, <2>2 DEF Encoders
  <2>8. e.stills = u.enc.stills /\ e.moved = u.enc.moved /\ e.picture = u.enc.picture
    BY <1>7, <2>2 DEF Encoders
  <2>. QED  BY <1>11, <2>1, <2>5, <2>6, <2>7, <2>8 DEF Made, Frame
<1>13. w.client.shown \in [Cells -> Drawn]  BY WorkHas
<1>14. u.client.shown[c] = tile /\ \A x \in Cells \ {c} : u.client.shown[x] = w.client.shown[x]
  BY <1>6, <1>13
<1>15. Made(v, w)  BY <1>6, <1>12, MadeThen
<1>16. v.enc.debts = IF stage = FULL THEN w.enc.debts \ {c} ELSE w.enc.debts \cup {c}
  BY <1>4, <1>12
<1>. QED  BY <1>6, <1>9, <1>12, <1>14, <1>15, <1>16 DEF tile, h, Passed

\* A tile sent, and then stored.
LEMMA StoredSends ==
  ASSUME NEW u, NEW w, NEW c \in Cells, Sends(u, w, {c}), NEW settled \in BOOLEAN,
         u.client.shown[c].of = u.enc.mirror[c], settled => Whole(u, u.client.shown[c]),
         NEW v, v = Store(u, c, settled)
  PROVE  Sends(v, w, {c})
<1>1. u \in Work /\ CacheHolds(u) /\ Settles(u, c)  BY DEF Sends, Made
<1>2. /\ Made(v, u) /\ CacheHolds(v)
      /\ v.enc.debts = u.enc.debts /\ v.enc.held = u.enc.held
      /\ v.client.shown = u.client.shown
  BY <1>1, StoreMakes
<1>3. v.enc.picture = u.enc.picture /\ v.enc.mirror = u.enc.mirror  BY <1>2 DEF Made, Frame
<1>4. Settles(v, c)  BY <1>1, <1>2, <1>3 DEF Settles, Right, Whole
<1>5. u.enc.picture = "lossless" => c \notin v.enc.debts \/ c \in u.enc.debts  BY <1>2
<1>6. Sends(v, u, {c})  BY <1>1, <1>2, <1>4, <1>5, SendsOne
<1>7. Sends(v, w, {c} \cup {c})  BY <1>6, SendsThen
<1>. QED  BY <1>7

PassSent(v, w, c, stage) ==
  /\ Sends(v, w, {c})
  /\ v.client.shown[c].of = v.enc.mirror[c]
  /\ stage = FULL => Whole(v, v.client.shown[c])
  /\ v.enc.held[c].stage = stage

\* A pass of the mirror sends its tile.
LEMMA PassSends ==
  ASSUME NEW w \in Work, CacheHolds(w), NEW c \in Cells, Clear(w, c),
         w.enc.picture = "progressive", NEW stage, stage \in 0 .. FULL,
         NEW v, v = Pass(w, c, w.enc.mirror[c], stage)
  PROVE  PassSent(v, w, c, stage)
<1>0. FULL \in Nat  BY TilesAssumption
<1>1. PICK of : of = w.enc.mirror[c]  OBVIOUS
<1>2. of \in Shades  BY <1>1, WorkHas
<1>3. /\ Made(v, w) /\ v.client.kept = w.client.kept /\ v.enc.cache = w.enc.cache
      /\ v.client.shown[c] = [of |-> of, level |-> stage]
      /\ v.enc.held[c] = [of |-> of, stage |-> stage]
      /\ v.enc.debts = IF stage = FULL THEN w.enc.debts \ {c} ELSE w.enc.debts \cup {c}
      /\ \A x \in Cells \ {c} : /\ v.client.shown[x] = w.client.shown[x]
                                /\ v.enc.held[x] = w.enc.held[x]
  <2>1. v = Pass(w, c, of, stage)  BY <1>1
  <2>2. Passed(v, w, c, of, stage)  BY <1>2, <2>1, PassMakes
  <2>. QED  BY <2>2 DEF Passed
<1>4. v \in Work /\ v.enc.mirror = w.enc.mirror /\ v.enc.picture = "progressive"
  BY <1>3 DEF Made, Frame
<1>5. CacheHolds(v)  BY SMTT(60), <1>3, <1>4, CacheSame
<1>6. /\ v.client.shown[c].of = v.enc.mirror[c] /\ v.client.shown[c].level = stage
      /\ v.enc.held[c].stage = stage /\ v.enc.held[c].of = v.enc.mirror[c]
      /\ v.client.shown[c] = [of |-> v.enc.held[c].of, level |-> v.enc.held[c].stage]
  BY SMTT(60), <1>1, <1>3, <1>4
<1>7. stage = FULL => Right(v, c)  BY <1>0, <1>4, <1>6 DEF Right, Whole
<1>8. Settles(v, c)
  <2>1. stage # FULL => c \in v.enc.debts  BY <1>3
  <2>. QED  BY <1>4, <1>6, <1>7, <2>1 DEF Settles
<1>9. \A x \in Cells \ {c} : x \in v.enc.debts <=> x \in w.enc.debts  BY <1>3
<1>10. Sends(v, w, {c})  BY <1>3, <1>5, <1>8, <1>9, SendsOne
<1>. QED  BY <1>6, <1>7, <1>10 DEF Right, PassSent

\* A progressive tile is sent, from a slot or as a pass.
LEMMA ProgressiveTileSends ==
  ASSUME NEW w \in Work, CacheHolds(w), NEW c \in Cells, NEW stills, Fit(w, stills[c], c),
         w.enc.picture = "progressive", NEW stage, stage[c] \in 0 .. FULL,
         NEW v, v = ProgressiveTile(w, c, stills, stage)
  PROVE  Sends(v, w, {c})
<1>. DEFINE k == Find(w.enc.cache, w.enc.mirror[c])
            kept == CHOOSE x \in k : TRUE
<1>0. Clear(w, c) /\ stills[c].whole \in BOOLEAN /\ w.enc.debts \subseteq Cells
      /\ w.enc.cache \in Seq(Entries) /\ CacheGood(w.enc.cache)
      /\ \A x \in ToSet(w.enc.cache) : Keeps(w, x)
  BY WorkHas, CacheHas DEF Fit
<1>1. CASE stills[c].whole /\ k # {}
  <2>1. kept \in ToSet(w.enc.cache) /\ kept.of = w.enc.mirror[c]  BY <1>1 DEF Find
  <2>2. v = DrawSlot([w EXCEPT !.enc.cache = Touch(@, kept), !.enc.held[c] = NoneHeld,
                               !.enc.debts = IF kept.settled THEN @ \ {c} ELSE @ \cup {c}],
                     c, kept.slot)
    BY <1>1 DEF ProgressiveTile
  <2>. HIDE DEF kept
  <2>3. PICK q : q = Touch(w.enc.cache, kept)  OBVIOUS
  <2>4. PICK d : d = IF kept.settled THEN w.enc.debts \ {c} ELSE w.enc.debts \cup {c}  OBVIOUS
  <2>5. v = DrawSlot(Put(w, q, c, NoneHeld, d), c, kept.slot)  BY ONLY <2>2, <2>3, <2>4 DEF Put
  <2>6. PICK u : u = Put(w, q, c, NoneHeld, d)  OBVIOUS
  <2>7. /\ q \in Seq(Entries) /\ CacheGood(q) /\ ToSet(q) = ToSet(w.enc.cache)
    BY <1>0, <2>1, <2>3, TouchedSame
  <2>8. NoneHeld \in Passes /\ d \in SUBSET Cells
    BY <1>0, <2>4, TilesAssumption DEF NoneHeld, Passes, Shades
  <2>9. /\ Made(u, w) /\ u.client = w.client /\ u.enc.cache = q /\ u.enc.debts = d
        /\ u.enc.held[c] = NoneHeld /\ \A x \in Cells \ {c} : u.enc.held[x] = w.enc.held[x]
    BY <2>6, <2>7, <2>8, PutMakes
  <2>10. u \in Work /\ u.enc.mirror = w.enc.mirror /\ u.enc.picture = "progressive"
         /\ u.client.streams = w.client.streams
    BY <2>9 DEF Made, Frame
  <2>11. CacheHolds(u)
    <3>1. \A x \in ToSet(u.enc.cache) : Keeps(u, x)
      BY <1>0, <2>7, <2>9, <2>10 DEF Keeps, Whole
    <3>. QED  BY <2>7, <2>9, <2>10, <3>1, CacheHas
  <2>12. Clear(u, c)  BY <1>0, <2>10 DEF Clear
  <2>13. kept \in ToSet(u.enc.cache)  BY <2>1, <2>7, <2>9
  <2>14. v = DrawSlot(u, c, kept.slot)  BY <2>5, <2>6
  <2>15. /\ Made(v, u) /\ v.enc = u.enc /\ v.client.kept = u.client.kept
         /\ v.client.shown[c].of = kept.of
         /\ kept.settled => Whole(u, v.client.shown[c])
         /\ \A y \in Cells \ {c} : v.client.shown[y] = u.client.shown[y]
    BY <2>10, <2>11, <2>12, <2>13, <2>14, SlotDrawn
  <2>16. Made(v, w)  BY <2>9, <2>15, MadeThen
  <2>17. v \in Work /\ v.enc.picture = u.enc.picture /\ v.enc.mirror = w.enc.mirror
    BY <2>10, <2>15, <2>16 DEF Made
  <2>18. CacheHolds(v)  BY <2>10, <2>11, <2>15, <2>17, CacheSame
  <2>19. Settles(v, c)
    <3>1. kept.settled => Right(v, c)  BY <2>1, <2>15, <2>17 DEF Right, Whole
    <3>2. ~ kept.settled => c \in v.enc.debts  BY <2>4, <2>9, <2>15
    <3>3. v.enc.held[c] = NoneHeld  BY <2>9, <2>15
    <3>. QED  BY <3>1, <3>2, <3>3 DEF Settles
  <2>20. \A x \in Cells \ {c} : /\ v.client.shown[x] = w.client.shown[x]
                                /\ v.enc.held[x] = w.enc.held[x]
                                /\ x \in v.enc.debts <=> x \in w.enc.debts
    BY <2>4, <2>9, <2>15
  <2>. QED  BY <2>16, <2>18, <2>19, <2>20, SendsOne
<1>2. CASE ~ (stills[c].whole /\ k # {})
  <2>1. PICK u : u = Pass(w, c, w.enc.mirror[c], stage[c])  OBVIOUS
  <2>2. /\ Sends(u, w, {c})
        /\ u.client.shown[c].of = u.enc.mirror[c]
        /\ stage[c] = FULL => Whole(u, u.client.shown[c])
    <3>1. PICK n : n = stage[c]  OBVIOUS
    <3>2. n \in 0 .. FULL /\ u = Pass(w, c, w.enc.mirror[c], n)  BY <2>1, <3>1
    <3>3. PassSent(u, w, c, n)  BY <1>0, <3>2, PassSends
    <3>. QED  BY <3>1, <3>3 DEF PassSent
  <2>3. CASE stills[c].whole
    <3>1. v = Store(u, c, stage[c] = FULL)  BY <1>2, <2>1, <2>3 DEF ProgressiveTile
    <3>2. PICK full \in BOOLEAN : full = (stage[c] = FULL)  OBVIOUS
    <3>3. v = Store(u, c, full) /\ (full => Whole(u, u.client.shown[c]))  BY <2>2, <3>1, <3>2
    <3>. QED  BY <2>2, <3>3, StoredSends
  <2>4. CASE ~ stills[c].whole
    <3>1. v = u  BY <1>2, <2>1, <2>4 DEF ProgressiveTile
    <3>. QED  BY <2>2, <3>1
  <2>. QED  BY <2>3, <2>4
<1>. QED  BY <1>1, <1>2

\* A tile that is owed its next stage.
LEMMA UpgradedSends ==
  ASSUME NEW w \in Work, CacheHolds(w), NEW c \in Cells, Clear(w, c), Settles(w, c),
         w.enc.picture = "progressive", NEW v, v = Upgraded(w, c)
  PROVE  Sends(v, w, {c})
<1>0. FULL \in Nat /\ w.enc.debts \subseteq Cells  BY TilesAssumption, WorkHas
<1>1. PICK h : h = w.enc.held[c]  OBVIOUS
<1>2. ASSUME NEW stage \in 0 .. FULL, NEW u, u = Pass(w, c, w.enc.mirror[c], stage),
             v = IF u.enc.held[c].stage = FULL THEN Store(u, c, TRUE) ELSE u
      PROVE  Sends(v, w, {c})
  <2>1. /\ Sends(u, w, {c})
        /\ u.client.shown[c].of = u.enc.mirror[c]
        /\ stage = FULL => Whole(u, u.client.shown[c])
        /\ u.enc.held[c].stage = stage
    <3>1. PassSent(u, w, c, stage)  BY <1>2, PassSends
    <3>. QED  BY <3>1 DEF PassSent
  <2>2. CASE stage = FULL
    <3>1. v = Store(u, c, TRUE)  BY <1>2, <2>1, <2>2
    <3>. QED  BY <2>1, <2>2, <3>1, StoredSends
  <2>3. CASE stage # FULL
    <3>1. v = u  BY <1>2, <2>1, <2>3
    <3>. QED  BY <2>1, <3>1
  <2>. QED  BY <2>2, <2>3
<1>3. CASE h = NoneHeld
  <2>1. PICK u : u = Pass(w, c, w.enc.mirror[c], FULL)  OBVIOUS
  <2>2. v = IF u.enc.held[c].stage = FULL THEN Store(u, c, TRUE) ELSE u
    BY <1>1, <1>3, <2>1 DEF Upgraded
  <2>3. FULL \in 0 .. FULL  BY <1>0
  <2>. QED  BY <1>2, <2>1, <2>2, <2>3
<1>4. CASE h # NoneHeld
  <2>0. /\ h.stage \in 0 .. FULL /\ h.of = w.enc.mirror[c]
        /\ w.client.shown[c] = [of |-> h.of, level |-> h.stage]
    BY <1>1, <1>4 DEF Settles
  <2>1. CASE h.stage < FULL
    <3>1. PICK stage : stage = h.stage + 1  OBVIOUS
    <3>2. stage \in 0 .. FULL  BY <1>0, <2>0, <2>1, <3>1
    <3>3. PICK u : u = Pass(w, c, w.enc.mirror[c], stage)  OBVIOUS
    <3>4. v = IF u.enc.held[c].stage = FULL THEN Store(u, c, TRUE) ELSE u
      BY <1>1, <1>4, <2>0, <2>1, <3>1, <3>3 DEF Upgraded
    <3>. QED  BY <1>2, <3>2, <3>3, <3>4
  <2>2. CASE ~ (h.stage < FULL)
    <3>1. h.stage = FULL  BY <1>0, <2>0, <2>2
    <3>2. PICK d : d = w.enc.debts \ {c}  OBVIOUS
    <3>3. PICK u : u = Owing(w, d)  OBVIOUS
    <3>4. v = IF u.enc.held[c].stage = FULL THEN Store(u, c, TRUE) ELSE u
      <4>1. u = [w EXCEPT !.enc.debts = @ \ {c}]  BY ONLY <3>2, <3>3 DEF Owing
      <4>. QED  BY <1>1, <1>4, <2>2, <4>1 DEF Upgraded
    <3>5. d \in SUBSET Cells  BY <1>0, <3>2
    <3>6. /\ Made(u, w) /\ u.client = w.client
          /\ u.enc.debts = d /\ u.enc.held = w.enc.held /\ u.enc.cache = w.enc.cache
      BY <3>3, <3>5, OwedMakes
    <3>7. u \in Work /\ u.enc.mirror = w.enc.mirror /\ u.enc.picture = "progressive"
      BY <3>6 DEF Made, Frame
    <3>8. CacheHolds(u)  BY <3>6, <3>7, CacheSame
    <3>9. u.client.shown[c].of = u.enc.mirror[c] /\ Whole(u, u.client.shown[c])
      BY <1>0, <2>0, <3>1, <3>6, <3>7 DEF Whole
    <3>10. Settles(u, c)  BY <3>6, <3>7, <3>9 DEF Settles, Right
    <3>11. \A x \in Cells \ {c} : x \in u.enc.debts <=> x \in w.enc.debts  BY <3>2, <3>6
    <3>12. Sends(u, w, {c})  BY <3>6, <3>8, <3>10, <3>11, SendsOne
    <3>13. v = Store(u, c, TRUE)  BY <1>1, <3>1, <3>4, <3>6
    <3>. QED  BY <3>9, <3>12, <3>13, StoredSends
  <2>. QED  BY <2>1, <2>2
<1>. QED  BY <1>3, <1>4

-----------------------------------------------------------------------------
(* Runs.                                                                   *)

\* A progressive run is sent.
LEMMA ProgressiveStillSends ==
  ASSUME NEW w \in Work, CacheHolds(w), NEW run, run \subseteq Cells, NEW stills,
         w.enc.picture = "progressive", \A c \in run : Fit(w, stills[c], c),
         NEW stage, \A c \in run : stage[c] \in 0 .. FULL
  PROVE  Sends(ProgressiveStill(w, run, stills, stage), w, run)
<1>. DEFINE I == [c \in 0 .. Width |-> {v \in Work : Sends(v, w, UpTo(run, c))}]
<1>0. Width \in Nat /\ Cells = 1 .. Width  BY TilesAssumption DEF Cells
<1>1. w \in I[0]
  <2>1. Sends(w, w, UpTo(run, 0))  BY UpToIs, SendsNone
  <2>. QED  BY <1>0, <2>1
<1>2. ASSUME NEW c \in Cells, NEW v \in I[c - 1]
      PROVE  (IF c \in run THEN ProgressiveTile(v, c, stills, stage) ELSE v) \in I[c]
  <2>0. c - 1 \in 0 .. Width /\ c \in 0 .. Width  BY <1>0
  <2>1. v \in Work /\ Sends(v, w, UpTo(run, c - 1))  BY <2>0
  <2>2. CASE c \notin run
    <3>1. UpTo(run, c) = UpTo(run, c - 1)  BY <2>2, UpToAt
    <3>2. v \in I[c]  BY <2>0, <2>1, <3>1
    <3>. HIDE DEF I
    <3>. QED  BY <2>2, <3>2
  <2>3. CASE c \in run
    <3>1. PICK u : u = ProgressiveTile(v, c, stills, stage)  OBVIOUS
    <3>2. UpTo(run, c) = UpTo(run, c - 1) \cup {c} /\ c \notin UpTo(run, c - 1)
          /\ UpTo(run, c - 1) \subseteq Cells
      BY <2>3, UpToAt
    <3>3. Fit(w, stills[c], c)  BY <2>3
    <3>4. Fit(v, stills[c], c)  BY <2>1, <3>2, <3>3, FitStays
    <3>5. CacheHolds(v) /\ v.enc.picture = "progressive"  BY <2>1 DEF Sends, Made, Frame
    <3>6. stage[c] \in 0 .. FULL  BY <2>3
    <3>7. Sends(u, v, {c})  BY <2>1, <3>1, <3>4, <3>5, <3>6, ProgressiveTileSends
    <3>8. Sends(u, w, UpTo(run, c))  BY <2>1, <3>2, <3>7, SendsThen
    <3>9. u \in Work  BY <3>8 DEF Sends, Made
    <3>10. u \in I[c]  BY <2>0, <3>8, <3>9
    <3>. HIDE DEF I
    <3>. QED  BY <2>3, <3>1, <3>10
  <2>. QED  BY <2>2, <2>3
<1>3. \A v \in I[Width] : Sends(v, w, run)
  <2>1. UpTo(run, Width) = run  BY UpToIs
  <2>. QED  BY <1>0, <2>1
<1>. HIDE DEF I
<1>4. ProgressiveStill(w, run, stills, stage) \in I[Width]  BY <1>1, <1>2, ProgressiveRuns
<1>. QED  BY <1>3, <1>4

\* The stages of a progressive's first passes.
Staged(w, S, stage) == w.enc.picture = "progressive" => \A c \in S : stage[c] \in 0 .. FULL

\* A run is sent, whichever the picture.
LEMMA SendRunSends ==
  ASSUME NEW w \in Work, CacheHolds(w), NEW run, run \subseteq Cells, NEW stills,
         \A c \in run : Fit(w, stills[c], c), NEW stage, Staged(w, run, stage)
  PROVE  Sends(SendRun(w, run, stills, stage), w, run)
<1>1. CASE w.enc.picture = "progressive"
  <2>1. SendRun(w, run, stills, stage) = ProgressiveStill(w, run, stills, stage)  BY <1>1 DEF SendRun
  <2>2. \A c \in run : stage[c] \in 0 .. FULL  BY <1>1 DEF Staged
  <2>. QED  BY <1>1, <2>1, <2>2, ProgressiveStillSends
<1>2. CASE w.enc.picture # "progressive"
  <2>1. SendRun(w, run, stills, stage) = Still(w, run, stills)  BY <1>2 DEF SendRun
  <2>. QED  BY <1>2, <2>1, StillSends
<1>. QED  BY <1>1, <1>2

\* Runs of tiles of a set, no two with a tile in common.
Runs(runs, S) ==
  /\ DOMAIN runs \subseteq Cells /\ \A s \in DOMAIN runs : runs[s] \subseteq S
  /\ \A s, t \in DOMAIN runs : s = t \/ runs[s] \cap runs[t] = {}

InRuns(runs, T) == UNION {runs[s] : s \in T}

\* The runs of a set are sent.
LEMMA SendRunsSends ==
  ASSUME NEW w \in Work, CacheHolds(w), NEW S, S \subseteq Cells, NEW runs, Runs(runs, S),
         NEW stills, \A c \in S : Fit(w, stills[c], c), NEW stage, Staged(w, S, stage)
  PROVE  Sends(SendRuns(w, runs, stills, stage), w, InRuns(runs, DOMAIN runs))
<1>. DEFINE D(c) == InRuns(runs, UpTo(DOMAIN runs, c))
            I == [c \in 0 .. Width |-> {v \in Work : Sends(v, w, D(c))}]
<1>0. Width \in Nat /\ Cells = 1 .. Width /\ DOMAIN runs \subseteq Cells
  BY TilesAssumption DEF Cells, Runs
<1>1. w \in I[0]
  <2>1. D(0) = {}  BY <1>0, UpToIs DEF InRuns
  <2>2. Sends(w, w, D(0))  BY <2>1, SendsNone
  <2>. HIDE DEF D
  <2>. QED  BY <1>0, <2>2
<1>2. ASSUME NEW c \in Cells, NEW v \in I[c - 1]
      PROVE  (IF c \in DOMAIN runs THEN SendRun(v, runs[c], stills, stage) ELSE v) \in I[c]
  <2>0. c - 1 \in 0 .. Width /\ c \in 0 .. Width  BY <1>0
  <2>1. v \in Work /\ Sends(v, w, D(c - 1))
    <3>. HIDE DEF D
    <3>. QED  BY <2>0
  <2>2. CASE c \notin DOMAIN runs
    <3>1. D(c) = D(c - 1)  BY <1>0, <2>2, UpToAt
    <3>. HIDE DEF D
    <3>2. v \in I[c]  BY <2>0, <2>1, <3>1
    <3>. HIDE DEF I
    <3>. QED  BY <2>2, <3>2
  <2>3. CASE c \in DOMAIN runs
    <3>1. PICK u : u = SendRun(v, runs[c], stills, stage)  OBVIOUS
    <3>2. PICK run : run = runs[c]  OBVIOUS
    <3>3. run \subseteq S /\ run \subseteq Cells  BY <2>3, <3>2 DEF Runs
    <3>4. /\ UpTo(DOMAIN runs, c) = UpTo(DOMAIN runs, c - 1) \cup {c}
          /\ c \notin UpTo(DOMAIN runs, c - 1)
          /\ UpTo(DOMAIN runs, c - 1) \subseteq DOMAIN runs
      BY <1>0, <2>3, UpToAt DEF UpTo
    <3>5. D(c) = D(c - 1) \cup run  BY <3>2, <3>4 DEF InRuns
    <3>6. run \cap D(c - 1) = {}  BY <2>3, <3>2, <3>4 DEF Runs, InRuns
    <3>7. D(c - 1) \subseteq Cells  BY <3>4 DEF Runs, InRuns
    <3>. HIDE DEF D
    <3>8. \A x \in run : Fit(v, stills[x], x)
      <4>. SUFFICES ASSUME NEW x \in run PROVE Fit(v, stills[x], x)  OBVIOUS
      <4>1. x \in Cells \ D(c - 1) /\ Fit(w, stills[x], x)  BY <3>3, <3>6
      <4>. QED  BY <2>1, <4>1, FitStays
    <3>9. CacheHolds(v) /\ v.enc.picture = w.enc.picture  BY <2>1 DEF Sends, Made, Frame
    <3>10. Staged(v, run, stage)  BY <3>3, <3>9 DEF Staged
    <3>11. u = SendRun(v, run, stills, stage)  BY <3>1, <3>2
    <3>12. Sends(u, v, run)  BY <2>1, <3>3, <3>8, <3>9, <3>10, <3>11, SendRunSends
    <3>13. Sends(u, w, D(c))  BY <2>1, <3>3, <3>5, <3>7, <3>12, SendsThen
    <3>14. u \in Work  BY <3>13 DEF Sends, Made
    <3>15. u \in I[c]  BY <2>0, <3>13, <3>14
    <3>. HIDE DEF I
    <3>. QED  BY <2>3, <3>1, <3>15
  <2>. QED  BY <2>2, <2>3
<1>3. \A v \in I[Width] : Sends(v, w, InRuns(runs, DOMAIN runs))
  <2>1. D(Width) = InRuns(runs, DOMAIN runs)  BY <1>0, UpToIs
  <2>. HIDE DEF D
  <2>. QED  BY <1>0, <2>1
<1>. HIDE DEF I
<1>4. SendRuns(w, runs, stills, stage) \in I[Width]  BY <1>1, <1>2, SendRunsRuns
<1>. QED  BY <1>3, <1>4

\* The runs of a set are all of it.
LEMMA RunsAre ==
  ASSUME NEW S, S \subseteq Cells, NEW cuts, NEW runs, runs = RunsOf(S, cuts)
  PROVE  Runs(runs, S) /\ InRuns(runs, DOMAIN runs) = S /\ DOMAIN runs \subseteq S
<1>. DEFINE starts == {c \in S : c - 1 \notin S \/ c \in cuts}
            run(s) == {c \in S : c >= s /\ \A x \in (s + 1) .. c : x \in S \ starts}
            P == {i \in 0 .. Width : i \in S => \E s \in starts : i \in run(s)}
<1>0. Width \in Nat /\ Cells = 1 .. Width /\ S \subseteq Int  BY TilesAssumption DEF Cells
<1>1. DOMAIN runs = starts /\ \A s \in starts : runs[s] = run(s)  BY DEF RunsOf
<1>2. 0 \in P  BY <1>0
<1>3. ASSUME NEW i \in 0 .. Width - 1, i \in P  PROVE i + 1 \in P
  <2>1. i + 1 \in 0 .. Width /\ (i + 1) - 1 = i  BY <1>0
  <2>2. SUFFICES ASSUME i + 1 \in S PROVE \E s \in starts : i + 1 \in run(s)  BY <2>1
  <2>3. CASE i + 1 \in starts
    <3>1. i + 1 \in run(i + 1)  BY <2>1, <2>2
    <3>. QED  BY <2>3, <3>1
  <2>4. CASE i + 1 \notin starts
    <3>1. i \in S  BY <2>1, <2>2, <2>4
    <3>2. PICK s \in starts : i \in run(s)  BY <1>3, <3>1
    <3>3. s \in Int /\ i >= s  BY <1>0, <3>2
    <3>4. ASSUME NEW x \in (s + 1) .. (i + 1)  PROVE x \in S \ starts
      <4>1. CASE x = i + 1  BY <2>2, <2>4, <4>1
      <4>2. CASE x # i + 1
        <5>1. x \in (s + 1) .. i  BY <3>3, <4>2
        <5>. QED  BY <3>2, <5>1
      <4>. QED  BY <4>1, <4>2
    <3>5. i + 1 \in run(s)
      <4>1. i + 1 >= s  BY <3>3
      <4>. HIDE DEF starts
      <4>. QED  BY <2>2, <3>4, <4>1
    <3>. QED  BY <3>2, <3>5
  <2>. QED  BY <2>3, <2>4
<1>4. \A i \in 0 .. Width : i \in P
  <2>. HIDE DEF P
  <2>. QED  BY <1>0, <1>2, <1>3, StepByStep
<1>5. \A s, t \in starts : s = t \/ run(s) \cap run(t) = {}
  <2>1. ASSUME NEW s \in starts, NEW t \in starts, s < t, NEW c \in run(s) \cap run(t)  PROVE FALSE
    <3>1. s \in Int /\ t \in Int /\ c \in Int  BY <1>0
    <3>2. t \in (s + 1) .. c  BY <2>1, <3>1
    <3>. QED  BY <2>1, <3>2
  <2>2. \A s, t \in starts : s = t \/ s < t \/ t < s  BY <1>0
  <2>3. \A s, t \in starts : s < t => run(s) \cap run(t) = {}
    <3>. HIDE DEF starts, run
    <3>. QED  BY <2>1
  <2>. HIDE DEF starts, run
  <2>. QED  BY <2>2, <2>3
<1>6. \A s \in starts : run(s) \subseteq S  OBVIOUS
<1>7. starts \subseteq S  OBVIOUS
<1>8. \A c \in S : \E s \in starts : c \in run(s)
  <2>1. \A c \in S : c \in 0 .. Width  BY <1>0
  <2>2. \A c \in S : c \in P  BY <1>4, <2>1
  <2>. QED  BY <2>2
<1>. HIDE DEF starts, run
<1>9. Runs(runs, S)  BY <1>1, <1>5, <1>6, <1>7 DEF Runs
<1>10. InRuns(runs, DOMAIN runs) = S  BY <1>1, <1>6, <1>8 DEF InRuns
<1>. QED  BY <1>1, <1>7, <1>9, <1>10

\* The first runs are runs of the set.
LEMMA FirstRuns ==
  ASSUME NEW S, NEW runs, Runs(runs, S), NEW upto
  PROVE  /\ Runs(FirstOf(runs, upto), S)
         /\ (DOMAIN FirstOf(runs, upto) = DOMAIN runs) =>
              InRuns(FirstOf(runs, upto), DOMAIN FirstOf(runs, upto)) = InRuns(runs, DOMAIN runs)
<1>1. /\ DOMAIN FirstOf(runs, upto) \subseteq DOMAIN runs
      /\ \A s \in DOMAIN FirstOf(runs, upto) : FirstOf(runs, upto)[s] = runs[s]
  BY DEF FirstOf
<1>. QED  BY <1>1 DEF Runs, InRuns

-----------------------------------------------------------------------------
(* What is so once some tiles were sent.                                   *)

\* Nothing, as stills and as what slots keep.
LEMMA NoneIs ==
  /\ DOMAIN <<>> = {} /\ <<>> \in Parts
  /\ \A S : <<>> \in UNION {[T -> S] : T \in SUBSET Cells}
<1>1. DOMAIN <<>> = {}  OBVIOUS
<1>2. \A S : <<>> \in [{} -> S]
  <2>. SUFFICES ASSUME NEW S PROVE <<>> \in [{} -> S]  OBVIOUS
  <2>1. <<>> = [x \in {} |-> x]  OBVIOUS
  <2>2. [x \in {} |-> x] \in [{} -> S]  OBVIOUS
  <2>. QED  BY <2>1, <2>2
<1>3. {} \in SUBSET Cells  OBVIOUS
<1>. QED  BY <1>1, <1>2, <1>3 DEF Parts

\* A tile that was sent is sound.
LEMMA SettledHolds ==
  ASSUME NEW v, NEW stills, NEW c, Settles(v, c)
  PROVE  PassHolds(v, stills, c) /\ Sound(v, stills, c)
BY DEF Settles, PassHolds, Sound

\* A tile that was not is as sound as before.
LEMMA KeptHolds ==
  ASSUME NEW v, NEW w, NEW stills, NEW c, Frame(v, w), Kept(v, w, c),
         PassHolds(w, stills, c), Sound(w, stills, c)
  PROVE  PassHolds(v, stills, c) /\ Sound(v, stills, c)
<1>1. PassHolds(v, stills, c)  BY DEF Frame, Kept, PassHolds
<1>2. Sound(v, stills, c)  BY DEF Frame, Kept, Sound, Right, Whole
<1>. QED  BY <1>1, <1>2

\* A send leaves what holds holding.
LEMMA SendHolds ==
  ASSUME NEW b \in Work, StreamsHold(b), ~ b.enc.restart, NEW v, NEW D, D \subseteq Cells,
         D \cap Covered(b.enc.live) = {}, Sends(v, b, D),
         \A c \in Cells \ D : PassHolds(b, b.enc.stills, c) /\ Sound(b, b.enc.stills, c),
         b.enc.picture = "lossless" => b.enc.debts = {}, ~ b.client.fault
  PROVE  v \in Work /\ CacheHolds(v) /\ StreamsHold(v) /\ PictureHolds(v) /\ Frame(v, b)
<1>1. v \in Work /\ CacheHolds(v) /\ Frame(v, b) /\ v.client.fault = b.client.fault
  BY DEF Sends, Made
<1>2. \A l \in b.enc.live : l.area \subseteq Cells
  <2>1. b.enc.live \subseteq Streams  BY WorkHas
  <2>. QED  BY <2>1 DEF Streams
<1>3. \A l \in v.enc.live : l.area \subseteq v.enc.debts
  <2>. SUFFICES ASSUME NEW l \in v.enc.live, NEW c \in l.area PROVE c \in v.enc.debts  OBVIOUS
  <2>1. l \in b.enc.live /\ c \in Cells /\ c \in b.enc.debts  BY <1>1, <1>2 DEF Frame, StreamsHold
  <2>2. c \notin D  BY <2>1 DEF Covered
  <2>. QED  BY <2>1, <2>2 DEF Sends, Kept
<1>4. StreamsHold(v)  BY <1>1, <1>3 DEF StreamsHold, Frame
<1>5. ASSUME NEW c \in Cells  PROVE PassHolds(v, v.enc.stills, c) /\ Sound(v, v.enc.stills, c)
  <2>1. v.enc.stills = b.enc.stills  BY <1>1 DEF Frame
  <2>2. CASE c \in D
    <3>1. Settles(v, c)  BY <2>2 DEF Sends
    <3>. QED  BY <3>1, SettledHolds
  <2>3. CASE c \notin D
    <3>1. Kept(v, b, c)  BY <2>3 DEF Sends
    <3>. QED  BY <1>1, <2>1, <2>3, <3>1, KeptHolds
  <2>. QED  BY <2>2, <2>3
<1>6. v.enc.picture = "lossless" => v.enc.debts = {}  BY <1>1 DEF Sends, Frame
<1>7. PictureHolds(v)  BY <1>1, <1>5, <1>6 DEF PictureHolds
<1>. QED  BY <1>1, <1>4, <1>7

\* The stills taken to be sent.
Taken(w) == [w EXCEPT !.enc.stills = <<>>]

\* The stills taken, to be sent.
LEMMA TakenIs ==
  ASSUME NEW w \in Work, NEW v, v = Taken(w)
  PROVE  /\ v \in Work /\ v.client = w.client /\ v.enc.stills = <<>>
         /\ v.enc.mirror = w.enc.mirror /\ v.enc.restart = w.enc.restart
         /\ v.enc.live = w.enc.live /\ v.enc.ended = w.enc.ended /\ v.enc.debts = w.enc.debts
         /\ v.enc.cache = w.enc.cache /\ v.enc.moved = w.enc.moved
         /\ v.enc.picture = w.enc.picture /\ v.enc.held = w.enc.held
<1>1. /\ w = [enc |-> w.enc, client |-> w.client] /\ w.enc \in Encoders /\ w.client \in Clients
  BY DEF Work
<1>2. PICK none : none = <<>>  OBVIOUS
<1>3. none \in Parts  BY <1>2, NoneIs
<1>4. v = [enc |-> [w.enc EXCEPT !.stills = none], client |-> w.client]  BY <1>1, <1>2 DEF Taken
<1>5. [w.enc EXCEPT !.stills = none] \in Encoders  BY <1>1, <1>3 DEF Encoders
<1>6. v \in Work  BY <1>1, <1>4, <1>5 DEF Work
<1>7. v.enc = [w.enc EXCEPT !.stills = none] /\ v.client = w.client  BY <1>4
<1>8. v.enc.stills = none /\ v.enc.mirror = w.enc.mirror /\ v.enc.restart = w.enc.restart
      /\ v.enc.live = w.enc.live /\ v.enc.ended = w.enc.ended
  BY <1>1, <1>7 DEF Encoders
<1>9. /\ v.enc.debts = w.enc.debts /\ v.enc.cache = w.enc.cache /\ v.enc.moved = w.enc.moved
      /\ v.enc.picture = w.enc.picture /\ v.enc.held = w.enc.held
  BY <1>1, <1>7 DEF Encoders
<1>. QED  BY <1>2, <1>6, <1>7, <1>8, <1>9

\* The stills owed can be sent, and no stream carries any.
LEMMA StillsFit ==
  ASSUME NEW w \in Work, CacheHolds(w), StreamsHold(w), PictureHolds(w), ~ w.enc.restart,
         NEW b, b = Taken(w)
  PROVE  /\ b \in Work /\ CacheHolds(b) /\ StreamsHold(b)
         /\ DOMAIN w.enc.stills \subseteq Cells
         /\ DOMAIN w.enc.stills \cap Covered(b.enc.live) = {}
         /\ \A c \in DOMAIN w.enc.stills : Fit(b, w.enc.stills[c], c)
         /\ \A c \in Cells \ DOMAIN w.enc.stills :
              PassHolds(b, b.enc.stills, c) /\ Sound(b, b.enc.stills, c)
<1>. DEFINE stills == w.enc.stills
            S == DOMAIN stills
<1>1. /\ b \in Work /\ b.client = w.client /\ b.enc.stills = <<>>
      /\ b.enc.mirror = w.enc.mirror /\ b.enc.restart = w.enc.restart
      /\ b.enc.live = w.enc.live /\ b.enc.ended = w.enc.ended /\ b.enc.debts = w.enc.debts
      /\ b.enc.cache = w.enc.cache /\ b.enc.moved = w.enc.moved
      /\ b.enc.picture = w.enc.picture /\ b.enc.held = w.enc.held
  BY TakenIs
<1>2. stills \in Parts  BY WorkHas
<1>3. S \subseteq Cells /\ \A c \in S : stills[c] \in [whole : BOOLEAN, from : Shades]
  BY <1>2 DEF Parts
<1>. HIDE DEF stills
<1>4. CacheHolds(b)  BY <1>1, CacheSame
<1>5. S \cap Covered(b.enc.live) = {}  BY <1>1 DEF Covered, StreamsHold, stills
<1>6. StreamsHold(b)
  <2>1. DOMAIN b.enc.stills = {}  BY <1>1, NoneIs
  <2>2. \A l \in b.enc.live : l.area \subseteq b.enc.debts /\ l.area \cap DOMAIN b.enc.stills = {}
    BY <1>1, <2>1 DEF StreamsHold
  <2>. QED  BY <1>1, <2>2 DEF StreamsHold
<1>7. ASSUME NEW c \in S  PROVE Fit(b, stills[c], c)
  <2>1. c \in Cells /\ stills[c] \in [whole : BOOLEAN, from : Shades]  BY <1>3
  <2>2. \A s \in b.client.streams : c \notin s.area
    <3>. SUFFICES ASSUME NEW s \in b.client.streams, c \in s.area PROVE FALSE  OBVIOUS
    <3>1. s \in Known(w.enc.live)  BY <1>1 DEF StreamsHold
    <3>2. PICK l \in w.enc.live : s.area = l.area  BY <3>1 DEF Known
    <3>. QED  BY <3>2 DEF StreamsHold, stills
  <2>3. PassHolds(w, stills, c) /\ Sound(w, stills, c)  BY <2>1 DEF PictureHolds, stills
  <2>4. Clear(b, c)  BY <1>1, <2>2, <2>3 DEF Clear, PassHolds
  <2>5. \/ stills[c].whole \/ c \in b.enc.debts
        \/ b.client.shown[c].of \in {stills[c].from, b.enc.mirror[c]} /\ Whole(b, b.client.shown[c])
    BY <1>1, <2>3 DEF Sound, Right, Whole
  <2>. QED  BY <2>1, <2>4, <2>5 DEF Fit
<1>8. ASSUME NEW c \in Cells \ S
      PROVE  PassHolds(b, b.enc.stills, c) /\ Sound(b, b.enc.stills, c)
  <2>1. PassHolds(w, stills, c) /\ Sound(w, stills, c)  BY DEF PictureHolds, stills
  <2>2. PassHolds(b, b.enc.stills, c)  BY <1>1, <2>1 DEF PassHolds
  <2>3. Sound(b, b.enc.stills, c)  BY <1>1, <2>1 DEF Sound, Right, Whole
  <2>. QED  BY <2>2, <2>3
<1>. QED  BY <1>1, <1>3, <1>4, <1>5, <1>6, <1>7, <1>8 DEF stills

-----------------------------------------------------------------------------
(* Streams that end.                                                       *)

Changes == [whole : BOOLEAN, from : Shades]

\* The type of changes, by its members.
LEMMA PartsAre ==
  /\ \A p \in Parts : DOMAIN p \subseteq Cells /\ \A c \in DOMAIN p : p[c] \in Changes
  /\ \A p, S : S \subseteq Cells /\ p \in [S -> Changes] => p \in Parts
BY DEF Parts, Changes

\* Two lists of changes made one.
LEMMA BothIs ==
  ASSUME NEW old \in Parts, NEW new \in Parts
  PROVE  /\ Both(old, new) \in Parts /\ DOMAIN Both(old, new) = DOMAIN old \cup DOMAIN new
         /\ \A c \in DOMAIN new \ DOMAIN old : Both(old, new)[c] = new[c]
         /\ \A c \in DOMAIN old \ DOMAIN new : Both(old, new)[c] = old[c]
<1>1. /\ DOMAIN old \subseteq Cells /\ \A c \in DOMAIN old : old[c] \in Changes
      /\ DOMAIN new \subseteq Cells /\ \A c \in DOMAIN new : new[c] \in Changes
  BY PartsAre
<1>. DEFINE S == DOMAIN old \cup DOMAIN new
            at(c) == IF c \notin DOMAIN old THEN new[c]
                     ELSE IF c \notin DOMAIN new THEN old[c]
                     ELSE Change(old[c].whole \/ new[c].whole, old[c].from)
<1>2. Both(old, new) = [c \in S |-> at(c)]  BY DEF Both
<1>3. \A c \in S : at(c) \in Changes
  <2>. SUFFICES ASSUME NEW c \in S PROVE at(c) \in Changes  OBVIOUS
  <2>1. CASE c \notin DOMAIN old  BY <1>1, <2>1
  <2>2. CASE c \in DOMAIN old /\ c \notin DOMAIN new  BY <1>1, <2>2
  <2>3. CASE c \in DOMAIN old /\ c \in DOMAIN new
    <3>1. at(c) = Change(old[c].whole \/ new[c].whole, old[c].from)  BY <2>3
    <3>2. old[c].from \in Shades /\ (old[c].whole \/ new[c].whole) \in BOOLEAN
      BY <1>1, <2>3 DEF Changes
    <3>. HIDE DEF at
    <3>. QED  BY <3>1, <3>2 DEF Change, Changes
  <2>. QED  BY <2>1, <2>2, <2>3
<1>4. S \subseteq Cells  BY <1>1
<1>5. DOMAIN Both(old, new) = S /\ \A c \in S : Both(old, new)[c] = at(c)  BY <1>2
<1>6. Both(old, new) \in Parts
  <2>. HIDE DEF at, S
  <2>1. Both(old, new) \in [S -> Changes]  BY <1>2, <1>3
  <2>. QED  BY <1>4, <2>1, PartsAre
<1>. QED  BY <1>5, <1>6

\* What no frame carried is of the streams that end.
LEMMA UnsentIs ==
  ASSUME NEW over, over \subseteq Streams, \A l \in over : DOMAIN l.pending \subseteq l.area
  PROVE  /\ Unsent(over) \in Parts /\ DOMAIN Unsent(over) \subseteq Covered(over)
<1>. DEFINE S == UNION {DOMAIN l.pending : l \in over}
            of(c) == CHOOSE l \in over : c \in DOMAIN l.pending
<1>1. Unsent(over) = [c \in S |-> of(c).pending[c]]  BY DEF Unsent
<1>2. \A l \in over : l.pending \in Parts  BY DEF Streams
<1>3. \A l \in over : DOMAIN l.pending \subseteq Cells
                      /\ \A c \in DOMAIN l.pending : l.pending[c] \in Changes
  BY <1>2, PartsAre
<1>4. S \subseteq Cells /\ S \subseteq Covered(over)  BY <1>3 DEF Covered
<1>5. \A c \in S : of(c) \in over /\ c \in DOMAIN of(c).pending  OBVIOUS
<1>. HIDE DEF of, S
<1>6. \A c \in S : of(c).pending[c] \in Changes  BY <1>3, <1>5
<1>7. Unsent(over) \in [S -> Changes]  BY <1>1, <1>6
<1>8. Unsent(over) \in Parts  BY <1>4, <1>7, PartsAre
<1>. QED  BY <1>1, <1>4, <1>8

\* What streams that end leave as it was.
Frames(v, w) ==
  /\ v.enc.mirror = w.enc.mirror /\ v.enc.restart = w.enc.restart /\ v.enc.ended = w.enc.ended
  /\ v.enc.debts = w.enc.debts /\ v.enc.cache = w.enc.cache /\ v.enc.moved = w.enc.moved
  /\ v.enc.picture = w.enc.picture /\ v.enc.held = w.enc.held
  /\ v.client.shown = w.client.shown /\ v.client.kept = w.client.kept
  /\ v.client.fault = w.client.fault

\* The streams that stay: those live that do not end, and others that never started.
Left(live, over, left) ==
  /\ over \subseteq live /\ live \ over \subseteq left
  /\ left \subseteq Streams /\ Apart(live) /\ Apart(left)
  /\ \A l \in left : l \in live \ over \/ ~ l.started

\* Streams that end leave the client with those that are left.
LEMMA EndIs ==
  ASSUME NEW w \in Work, NEW over, NEW left, Left(w.enc.live, over, left),
         w.client.streams = Known(w.enc.live), NEW v, v = EndStreams(w, over, left)
  PROVE  /\ v \in Work /\ Frames(v, w) /\ v.enc.live = left /\ v.client.streams = Known(left)
         /\ DOMAIN v.enc.stills = DOMAIN w.enc.stills \cup (DOMAIN Unsent(over) \ Covered(left))
         /\ DOMAIN Unsent(over) \subseteq Covered(over)
<1>1. /\ w = [enc |-> w.enc, client |-> w.client] /\ w.enc \in Encoders /\ w.client \in Clients
      /\ w.enc.stills \in Parts /\ w.enc.live \subseteq Streams
  BY WorkHas DEF Work
<1>. DEFINE owed == DOMAIN Unsent(over) \ Covered(left)
            due == [c \in owed |-> Unsent(over)[c]]
            stays(s) == \A l \in over : ~ (l.started /\ l.id = s.id)
<1>2. Unsent(over) \in Parts /\ DOMAIN Unsent(over) \subseteq Covered(over)
  <2>1. over \subseteq Streams /\ \A l \in over : DOMAIN l.pending \subseteq l.area
    BY <1>1 DEF Left, Apart, Shaped
  <2>. QED  BY <2>1, UnsentIs
<1>3. due \in Parts /\ DOMAIN due = owed
  <2>1. owed \subseteq Cells /\ \A c \in owed : Unsent(over)[c] \in Changes  BY <1>2, PartsAre
  <2>2. due \in [owed -> Changes]  BY <2>1
  <2>. HIDE DEF due, owed
  <2>3. due \in Parts  BY <2>1, <2>2, PartsAre
  <2>. QED  BY <2>2, <2>3
<1>4. PICK d : d = due  OBVIOUS
<1>5. PICK stills : stills = Both(w.enc.stills, d)  OBVIOUS
<1>6. stills \in Parts /\ DOMAIN stills = DOMAIN w.enc.stills \cup owed
  <2>. HIDE DEF due, owed
  <2>. QED  BY <1>1, <1>3, <1>4, <1>5, BothIs
<1>7. PICK streams : streams = {s \in w.client.streams : stays(s)}  OBVIOUS
<1>8. v = [w EXCEPT !.enc.live = left, !.enc.stills = Both(@, d), !.client.streams = {s \in @ : stays(s)}]
  BY <1>4 DEF EndStreams
<1>9. streams = Known(left)
  <2>1. ASSUME NEW s \in streams  PROVE s \in Known(left)
    <3>1. s \in Known(w.enc.live) /\ stays(s)  BY <1>7
    <3>2. PICK l \in w.enc.live : l.started /\ s = [id |-> l.id, area |-> l.area]
      BY <3>1 DEF Known
    <3>3. s.id = l.id  BY <3>2
    <3>4. l \notin over  BY <3>1, <3>2, <3>3
    <3>5. l \in left  BY <3>4 DEF Left
    <3>. QED  BY <3>2, <3>5 DEF Known
  <2>2. ASSUME NEW s \in Known(left)  PROVE s \in streams
    <3>1. PICK l \in left : l.started /\ s = [id |-> l.id, area |-> l.area]  BY DEF Known
    <3>2. l \in w.enc.live /\ l \notin over  BY <3>1 DEF Left
    <3>3. s \in w.client.streams  BY <3>1, <3>2 DEF Known
    <3>4. s.id = l.id  BY <3>1
    <3>5. \A m \in over : m.id = s.id => m = l  BY <3>2, <3>4 DEF Left, Apart
    <3>6. stays(s)  BY <3>2, <3>5
    <3>. HIDE DEF stays
    <3>. QED  BY <1>7, <3>3, <3>6
  <2>. HIDE DEF stays
  <2>. QED  BY <2>1, <2>2
<1>10. streams \subseteq w.client.streams  BY <1>7
<1>. HIDE DEF due, stays
<1>11. PICK e : e = w.enc  OBVIOUS
<1>12. PICK k : k = w.client  OBVIOUS
<1>13. v = [enc |-> [e EXCEPT !.live = left, !.stills = stills], client |-> [k EXCEPT !.streams = streams]]
  <2>1. w = [enc |-> e, client |-> k] /\ e \in Encoders /\ k \in Clients  BY <1>1, <1>11, <1>12
  <2>2. stills = Both(e.stills, d) /\ streams = {s \in k.streams : stays(s)}
    BY <1>5, <1>7, <1>11, <1>12
  <2>. QED  BY ONLY <1>8, <2>1, <2>2 DEF Encoders, Clients
<1>14. [e EXCEPT !.live = left, !.stills = stills] \in Encoders
  BY <1>1, <1>6, <1>11 DEF Encoders, Left
<1>15. [k EXCEPT !.streams = streams] \in Clients  BY <1>1, <1>10, <1>12 DEF Clients
<1>16. v \in Work  BY <1>13, <1>14, <1>15 DEF Work
<1>17. v.enc = [e EXCEPT !.live = left, !.stills = stills] /\ v.client = [k EXCEPT !.streams = streams]
  BY <1>13
<1>18. v.enc.live = left /\ v.enc.stills = stills /\ v.enc.mirror = e.mirror /\ v.enc.restart = e.restart
       /\ v.enc.ended = e.ended
  BY <1>1, <1>11, <1>17 DEF Encoders
<1>19. v.enc.debts = e.debts /\ v.enc.cache = e.cache /\ v.enc.moved = e.moved
       /\ v.enc.picture = e.picture /\ v.enc.held = e.held
  BY <1>1, <1>11, <1>17 DEF Encoders
<1>20. v.client.streams = streams /\ v.client.shown = k.shown /\ v.client.kept = k.kept
       /\ v.client.fault = k.fault
  BY <1>1, <1>12, <1>17 DEF Clients
<1>. QED  BY <1>2, <1>6, <1>9, <1>11, <1>12, <1>16, <1>18, <1>19, <1>20 DEF Frames

-----------------------------------------------------------------------------
(* Streams that begin.                                                     *)

\* One more id than streams leaves one free.
LEMMA SomeIdFree ==
  ASSUME NEW L, IsFiniteSet(L)
  PROVE  /\ Cardinality(L) \in Nat
         /\ \E i \in 1 .. Cardinality(L) + 1 : \A l \in L : l.id # i
<1>. DEFINE n == Cardinality(L)
            I == 1 .. n + 1
            f == [i \in I |-> CHOOSE l \in L : l.id = i]
<1>1. n \in Nat  BY FS_CardinalityType
<1>2. SUFFICES ASSUME \A i \in I : \E l \in L : l.id = i  PROVE FALSE  BY <1>1
<1>3. \A i \in I : f[i] \in L /\ f[i].id = i  BY <1>2
<1>4. f \in [I -> L]  BY <1>3
<1>5. IsFiniteSet(I) /\ Cardinality(I) = n + 1
  <2>1. 1 \in Int /\ n + 1 \in Int /\ ~ (1 > n + 1)  BY <1>1
  <2>. HIDE DEF n
  <2>. QED  BY <1>1, <2>1, FS_Interval
<1>6. Cardinality(L) < Cardinality(I)  BY <1>1, <1>5
<1>. HIDE DEF f, I, n
<1>7. PICK i \in I, j \in I : i # j /\ f[i] = f[j]  BY <1>4, <1>5, <1>6, FS_PigeonHole
<1>. QED  BY <1>3, <1>7

\* A fresh id is no other stream's.
LEMMA FreshIs ==
  ASSUME NEW L, IsFiniteSet(L)
  PROVE  FreshId(L) \in Nat /\ \A l \in L : l.id # FreshId(L)
<1>. DEFINE I == 1 .. Cardinality(L) + 1
            F == {i \in I : \A l \in L : l.id # i}
            R == {ss \in Nat \X Nat : ss[1] < ss[2]}
            P(i) == /\ \A l \in L : l.id # i
                    /\ \A j \in 1 .. i - 1 : \E l \in L : l.id = j
<1>1. Cardinality(L) \in Nat /\ F # {}  BY SomeIdFree
<1>2. F \subseteq Nat  BY <1>1
<1>3. IsWellFoundedOn(R, Nat)  BY NatLessThanWellFounded DEF OpToRel
<1>4. PICK x \in F : \A y \in F : ~ (<<y, x>> \in R)
  <2>. HIDE DEF F, R
  <2>. QED  BY ONLY <1>1, <1>2, <1>3, WFMin
<1>5. \A y \in F : ~ (y < x)  BY <1>2, <1>4
<1>6. \A j \in 1 .. x - 1 : \E l \in L : l.id = j
  <2>. SUFFICES ASSUME NEW j \in 1 .. x - 1 PROVE \E l \in L : l.id = j  OBVIOUS
  <2>1. j \in I /\ j < x  BY <1>1
  <2>2. j \notin F  BY <1>5, <2>1
  <2>. QED  BY <2>1, <2>2
<1>7. \E i \in I : P(i)
  <2>1. x \in I /\ P(x)  BY <1>6
  <2>. QED  BY <2>1
<1>8. FreshId(L) = CHOOSE i \in I : P(i)  BY DEF FreshId
<1>. HIDE DEF I
<1>9. FreshId(L) \in I /\ P(FreshId(L))
  <2>. HIDE DEF P
  <2>. QED  BY <1>7, <1>8
<1>10. I \subseteq Nat  BY <1>1 DEF I
<1>. QED  BY <1>9, <1>10

\* Tiles in a row.
Interval(a) == \A x, y \in a, c \in Cells : x <= c /\ c <= y => c \in a

\* The box of a set holds it, and any stream that meets it and not the set lies
\* within.
LEMMA BoxIs ==
  ASSUME NEW S, S \subseteq Cells
  PROVE  /\ Box(S) \subseteq Cells /\ S \subseteq Box(S) /\ Interval(Box(S))
         /\ \A a : /\ a \subseteq Cells /\ Interval(a) /\ a \cap S = {} /\ a \cap Box(S) # {}
                   => a \subseteq Box(S)
<1>1. S \subseteq Int /\ Cells \subseteq Int  BY TilesAssumption DEF Cells
<1>2. Box(S) \subseteq Cells /\ S \subseteq Box(S)  BY <1>1 DEF Box
<1>3. \A c \in Cells : c \in Box(S) <=> \E a, b \in S : a <= c /\ c <= b  BY DEF Box
<1>4. Interval(Box(S))
  <2>. SUFFICES ASSUME NEW x \in Box(S), NEW y \in Box(S), NEW c \in Cells, x <= c, c <= y
                PROVE  c \in Box(S)
    BY DEF Interval
  <2>1. PICK a \in S : a <= x  BY <1>2, <1>3
  <2>2. PICK b \in S : y <= b  BY <1>2, <1>3
  <2>3. x \in Int /\ y \in Int /\ c \in Int /\ a \in Int /\ b \in Int  BY <1>1, <1>2
  <2>4. a <= c /\ c <= b  BY <2>1, <2>2, <2>3
  <2>. QED  BY <1>3, <2>4
<1>5. ASSUME NEW a, a \subseteq Cells, Interval(a), a \cap S = {}, NEW x \in a \cap Box(S), NEW y \in a
      PROVE  y \in Box(S)
  <2>1. PICK s \in S, t \in S : s <= x /\ x <= t  BY <1>2, <1>3, <1>5
  <2>2. s \in Cells /\ t \in Cells /\ s \notin a /\ t \notin a /\ x \in Cells /\ y \in Cells
    BY <1>2, <1>5
  <2>3. s \in Int /\ t \in Int /\ x \in Int /\ y \in Int  BY <1>1, <2>2
  <2>4. ~ (y <= s) /\ ~ (t <= y)
    <3>1. y <= s => s \in a  BY <1>5, <2>1, <2>2 DEF Interval
    <3>2. t <= y => t \in a  BY <1>5, <2>1, <2>2 DEF Interval
    <3>. QED  BY <2>2, <3>1, <3>2
  <2>5. s <= y /\ y <= t  BY <2>3, <2>4
  <2>. QED  BY <1>3, <2>2, <2>5
<1>. QED  BY <1>2, <1>4, <1>5

\* Boxes are intervals of the row.
LEMMA BoxesAre ==
  ASSUME NEW a \in Boxes
  PROVE  a \subseteq Cells /\ Interval(a) /\ a # {}
<1>1. PICK S \in (SUBSET Cells) \ {{}} : a = Box(S)  BY DEF Boxes
<1>. QED  BY <1>1, BoxIs

\* A stream just built.
LEMMA BuildIs ==
  ASSUME NEW i \in Nat, NEW a, a \subseteq Cells, Interval(a), NEW b, b = Build(i, a)
  PROVE  /\ b \in Streams /\ Shaped(b) /\ b.id = i /\ b.area = a /\ ~ b.started
<1>1. PICK none : none = <<>>  OBVIOUS
<1>2. /\ none \in Parts /\ DOMAIN none = {} /\ none \in UNION {[T -> Shades] : T \in SUBSET Cells}
  BY <1>1, NoneIs
<1>3. b = [id |-> i, area |-> a, pic |-> none, pending |-> none, dirty |-> TRUE, started |-> FALSE]
  BY <1>1 DEF Build
<1>4. b \in Streams
  <2>1. PICK pics : pics = UNION {[T -> Shades] : T \in SUBSET Cells}  OBVIOUS
  <2>2. Streams = [id : Nat, area : SUBSET Cells, pic : pics, pending : Parts, dirty : BOOLEAN,
                   started : BOOLEAN]
    BY <2>1 DEF Streams
  <2>3. none \in pics /\ none \in Parts /\ a \in SUBSET Cells  BY <1>2, <2>1
  <2>. QED  BY ONLY i \in Nat, <1>3, <2>2, <2>3
<1>5. /\ b.id = i /\ b.area = a /\ b.pic = none /\ b.pending = none /\ ~ b.started  BY <1>3
<1>6. Shaped(b)  BY <1>1, <1>2, <1>5 DEF Shaped, Interval
<1>. QED  BY <1>4, <1>5, <1>6

\* A new stream, beside streams that do not meet its region.
LEMMA BuildApart ==
  ASSUME NEW M, IsFiniteSet(M), NEW L, L \subseteq M, Apart(L), L \subseteq Streams,
         NEW a, a \subseteq Cells, Interval(a),
         \A l \in L : l.area \cap a = {}, NEW b, b = Build(FreshId(M), a)
  PROVE  /\ Apart(L \cup {b}) /\ L \cup {b} \subseteq Streams
         /\ ~ b.started /\ b.area = a /\ \A l \in L : l.id # b.id
<1>1. IsFiniteSet(L)  BY DEF Apart
<1>2. FreshId(M) \in Nat /\ \A l \in L : l.id # FreshId(M)  BY FreshIs
<1>3. PICK i : i = FreshId(M)  OBVIOUS
<1>4. /\ b \in Streams /\ Shaped(b) /\ b.id = i /\ b.area = a /\ ~ b.started
  <2>1. i \in Nat /\ b = Build(i, a)  BY <1>2, <1>3
  <2>. QED  BY <2>1, BuildIs
<1>5. IsFiniteSet(L \cup {b})  BY <1>1, FS_AddElement
<1>6. ASSUME NEW l \in L \cup {b}, NEW m \in L \cup {b}, l.id = m.id \/ l.area \cap m.area # {}
      PROVE  l = m
  <2>1. \A x \in L : x.id # b.id /\ x.area \cap b.area = {}  BY <1>2, <1>3, <1>4
  <2>2. \A x, y \in L : x.id = y.id \/ x.area \cap y.area # {} => x = y  BY DEF Apart
  <2>. QED  BY <1>6, <2>1, <2>2
<1>7. Apart(L \cup {b})  BY <1>4, <1>5, <1>6 DEF Apart
<1>. QED  BY <1>2, <1>3, <1>4, <1>7

-----------------------------------------------------------------------------
(* The stills owed, sent.                                                  *)

\* What holds of the work whatever the phase.
Holds(w) == w \in Work /\ CacheHolds(w) /\ StreamsHold(w) /\ PictureHolds(w)

\* The stills sent as runs leave what holds holding, and none owed.
LEMMA SentHolds ==
  ASSUME NEW w, Holds(w), ~ w.enc.restart, NEW cuts, NEW runs, runs = RunsOf(DOMAIN w.enc.stills, cuts),
         NEW stage, Staged(w, DOMAIN w.enc.stills, stage),
         NEW v, v = SendRuns(Taken(w), runs, w.enc.stills, stage)
  PROVE  /\ Holds(v) /\ ~ v.enc.restart /\ v.enc.picture = w.enc.picture
         /\ DOMAIN v.enc.stills = {}
<1>. DEFINE S == DOMAIN w.enc.stills
<1>0. w \in Work /\ CacheHolds(w) /\ StreamsHold(w) /\ PictureHolds(w)  BY DEF Holds
<1>1. PICK b : b = Taken(w)  OBVIOUS
<1>2. /\ b \in Work /\ CacheHolds(b) /\ StreamsHold(b) /\ S \subseteq Cells
      /\ S \cap Covered(b.enc.live) = {}
      /\ \A c \in S : Fit(b, w.enc.stills[c], c)
      /\ \A c \in Cells \ S : PassHolds(b, b.enc.stills, c) /\ Sound(b, b.enc.stills, c)
  BY <1>0, <1>1, StillsFit
<1>3. /\ b.client = w.client /\ b.enc.stills = <<>> /\ b.enc.restart = w.enc.restart
      /\ b.enc.debts = w.enc.debts /\ b.enc.picture = w.enc.picture
  BY <1>0, <1>1, TakenIs
<1>4. Runs(runs, S) /\ InRuns(runs, DOMAIN runs) = S  BY <1>2, RunsAre
<1>5. Staged(b, S, stage)  BY <1>3 DEF Staged
<1>6. PICK stills : stills = w.enc.stills  OBVIOUS
<1>7. \A c \in S : Fit(b, stills[c], c)  BY <1>2, <1>6
<1>8. v = SendRuns(b, runs, stills, stage)  BY <1>1, <1>6
<1>. HIDE DEF S
<1>9. Sends(v, b, S)  BY <1>2, <1>4, <1>5, <1>7, <1>8, SendRunsSends
<1>10. (b.enc.picture = "lossless" => b.enc.debts = {}) /\ ~ b.client.fault
  BY <1>0, <1>3 DEF PictureHolds
<1>11. v \in Work /\ CacheHolds(v) /\ StreamsHold(v) /\ PictureHolds(v) /\ Frame(v, b)
  BY <1>2, <1>3, <1>9, <1>10, SendHolds
<1>12. v.enc.stills = <<>> /\ v.enc.restart = b.enc.restart /\ v.enc.picture = b.enc.picture
  BY <1>3, <1>11 DEF Frame
<1>. QED  BY <1>3, <1>11, <1>12, NoneIs DEF Holds

Meeting(live, area) == {l \in live : l.area \cap area # {}}

\* What is past the bytes of an update goes as a stream around all of it.
LEMMA RegionHolds ==
  ASSUME NEW w, Holds(w), ~ w.enc.restart,
         NEW cuts, NEW runs, runs = RunsOf(DOMAIN w.enc.stills, cuts), NEW upto, NEW opens,
         AsRegion(w, runs, upto, opens), NEW stage,
         NEW v, v = SendStills(w, runs, upto, opens, stage)
  PROVE  /\ Holds(v) /\ ~ v.enc.restart /\ v.enc.picture = "held"
         /\ DOMAIN v.enc.stills = {}
<1>. DEFINE S == DOMAIN w.enc.stills
<1>s. PICK sent : sent = SendRuns(Taken(w), FirstOf(runs, upto), w.enc.stills, stage)  OBVIOUS
<1>a. PICK area : area = Box(DOMAIN w.enc.stills)  OBVIOUS
<1>o. PICK over : over = Meeting(w.enc.live, area)  OBVIOUS
<1>l. PICK left : left = (w.enc.live \ over) \cup {Build(FreshId(w.enc.live), area)}  OBVIOUS
<1>v. v = EndStreams(Owing(sent, sent.enc.debts \cup area), over, left)
  BY <1>s, <1>a, <1>o, <1>l DEF SendStills, Taken, Owing, Meeting
<1>h. w.enc.picture = "held"  BY DEF AsRegion
<1>0. w \in Work /\ CacheHolds(w) /\ StreamsHold(w) /\ PictureHolds(w) /\ w.enc.picture = "held"
  BY <1>h DEF Holds
<1>1. PICK b : b = Taken(w)  OBVIOUS
<1>2. /\ b \in Work /\ CacheHolds(b) /\ StreamsHold(b) /\ S \subseteq Cells
      /\ S \cap Covered(b.enc.live) = {}
      /\ \A c \in S : Fit(b, w.enc.stills[c], c)
      /\ \A c \in Cells \ S : PassHolds(b, b.enc.stills, c) /\ Sound(b, b.enc.stills, c)
  BY <1>0, <1>1, StillsFit
<1>3. /\ w.enc.picture = "held" /\ b.client = w.client /\ b.enc.stills = <<>> /\ b.enc.restart = w.enc.restart
      /\ b.enc.debts = w.enc.debts /\ b.enc.picture = w.enc.picture
      /\ b.enc.live = w.enc.live /\ b.enc.held = w.enc.held
  BY <1>0, <1>1, TakenIs
<1>4. PICK first : first = FirstOf(runs, upto)  OBVIOUS
<1>5. Runs(first, S)
  <2>1. S \subseteq Cells /\ runs = RunsOf(S, cuts)  BY <1>2
  <2>. HIDE DEF S
  <2>2. Runs(runs, S)  BY ONLY <2>1, RunsAre
  <2>. QED  BY ONLY <1>4, <2>2, FirstRuns
<1>6. Staged(b, S, stage)  BY <1>3 DEF Staged
<1>7. PICK stills : stills = w.enc.stills  OBVIOUS
<1>8. \A c \in S : Fit(b, stills[c], c)  BY <1>2, <1>7
<1>9. sent = SendRuns(b, first, stills, stage)  BY <1>1, <1>4, <1>7, <1>s
<1>10. PICK D : D = InRuns(first, DOMAIN first)  OBVIOUS
<1>11. D \subseteq S  BY <1>5, <1>10 DEF Runs, InRuns
<1>12. /\ area \subseteq Cells /\ S \subseteq area /\ Interval(area)
       /\ \A a : /\ a \subseteq Cells /\ Interval(a) /\ a \cap S = {} /\ a \cap area # {}
                 => a \subseteq area
  BY <1>2, <1>a, BoxIs
<1>. HIDE DEF S
<1>13. Sends(sent, b, D)  BY <1>2, <1>5, <1>6, <1>8, <1>9, <1>10, SendRunsSends
<1>14. /\ sent \in Work /\ CacheHolds(sent) /\ Frame(sent, b) /\ sent.client.fault = b.client.fault
  BY <1>13 DEF Sends, Made
<1>15. PICK d : d = sent.enc.debts \cup area  OBVIOUS
<1>16. PICK u : u = Owing(sent, d)  OBVIOUS
<1>17. d \in SUBSET Cells  BY <1>12, <1>14, <1>15, WorkHas
<1>18. /\ Made(u, sent) /\ u.client = sent.client
       /\ u.enc.debts = d /\ u.enc.held = sent.enc.held /\ u.enc.cache = sent.enc.cache
  BY <1>14, <1>16, <1>17, OwedMakes
<1>19. v = EndStreams(u, over, left)  BY <1>15, <1>16, <1>v
<1>20. u \in Work /\ Frame(u, b) /\ u.client.fault = b.client.fault
  BY <1>13, <1>18, MadeThen DEF Sends, Made
<1>21. /\ u.enc.live = w.enc.live /\ u.enc.stills = <<>> /\ u.client.streams = w.client.streams
       /\ u.enc.picture = "held" /\ u.enc.restart = w.enc.restart /\ u.enc.mirror = b.enc.mirror
       /\ u.enc.ended = b.enc.ended
  BY <1>3, <1>20 DEF Frame
<1>22. w.enc.live \subseteq Streams /\ Apart(w.enc.live) /\ w.client.streams = Known(w.enc.live)
  BY <1>0, WorkHas DEF StreamsHold
<1>23. \A l \in w.enc.live : l.area \subseteq Cells /\ Interval(l.area) /\ l.area \cap S = {}
  <2>1. \A l \in w.enc.live : l.area \subseteq Cells  BY <1>22 DEF Streams
  <2>2. \A l \in w.enc.live : Interval(l.area)  BY <1>22 DEF Apart, Shaped, Interval
  <2>3. \A l \in w.enc.live : l.area \cap S = {}  BY <1>0 DEF StreamsHold, S
  <2>. QED  BY <2>1, <2>2, <2>3
<1>24. PICK new : new = Build(FreshId(w.enc.live), area)  OBVIOUS
<1>25. /\ Apart(left) /\ left \subseteq Streams /\ ~ new.started /\ new.area = area
  <2>1. PICK L : L = w.enc.live \ over  OBVIOUS
  <2>2. L \subseteq w.enc.live /\ L \subseteq Streams /\ \A l \in L : l.area \cap area = {}
    BY <1>22, <1>o, <2>1 DEF Meeting
  <2>3. Apart(L)
    <3>1. IsFiniteSet(w.enc.live)  BY <1>22 DEF Apart
    <3>2. IsFiniteSet(L)  BY <2>2, <3>1, FS_Subset
    <3>. QED  BY <1>22, <2>2, <3>2 DEF Apart
  <2>4. left = L \cup {new}  BY <1>24, <1>l, <2>1
  <2>5. IsFiniteSet(w.enc.live)  BY <1>22 DEF Apart
  <2>. QED  BY <1>12, <1>24, <2>2, <2>3, <2>4, <2>5, BuildApart
<1>26. left = (w.enc.live \ over) \cup {new}  BY <1>24, <1>l
<1>27. Left(u.enc.live, over, left)  BY <1>21, <1>22, <1>25, <1>26, <1>o DEF Left, Meeting
<1>28. /\ v \in Work /\ Frames(v, u) /\ v.enc.live = left /\ v.client.streams = Known(left)
       /\ DOMAIN v.enc.stills = DOMAIN u.enc.stills \cup (DOMAIN Unsent(over) \ Covered(left))
       /\ DOMAIN Unsent(over) \subseteq Covered(over)
  <2>1. u \in Work /\ u.client.streams = Known(u.enc.live)  BY <1>20, <1>21, <1>22
  <2>. QED  BY ONLY <1>19, <1>27, <2>1, EndIs
<1>29. DOMAIN v.enc.stills = {}
  <2>1. Covered(over) \subseteq area  BY <1>12, <1>23, <1>o DEF Covered, Meeting
  <2>2. area \subseteq Covered(left)  BY <1>25, <1>26 DEF Covered
  <2>3. DOMAIN u.enc.stills = {}  BY <1>21, NoneIs
  <2>. QED  BY <1>28, <2>1, <2>2, <2>3
<1>30. CacheHolds(v)
  <2>1. v.enc.cache = sent.enc.cache /\ v.client.kept = sent.client.kept
    BY <1>18, <1>28 DEF Frames
  <2>2. v.enc.picture = u.enc.picture /\ u.enc.picture = b.enc.picture /\ sent.enc.picture = b.enc.picture
    BY ONLY <1>14, <1>20, <1>28 DEF Frames, Frame
  <2>. QED  BY ONLY <1>14, <1>28, <2>1, <2>2, CacheSame
<1>31. /\ v.enc.debts = sent.enc.debts \cup area /\ v.enc.held = sent.enc.held
       /\ v.client.shown = sent.client.shown /\ v.enc.mirror = b.enc.mirror
       /\ v.enc.picture = "held" /\ v.enc.restart = FALSE /\ v.enc.ended = b.enc.ended
       /\ v.client.fault = FALSE
  <2>1. w.enc.restart = FALSE  BY <1>0, WorkHas
  <2>2. w.client.fault = FALSE  BY <1>0, WorkHas DEF PictureHolds
  <2>3. v.client.fault = b.client.fault  BY <1>20, <1>28 DEF Frames
  <2>4. v.client.fault = FALSE  BY <1>3, <2>2, <2>3
  <2>5. v.enc.restart = FALSE  BY <1>21, <1>28, <2>1 DEF Frames
  <2>. QED  BY <1>15, <1>18, <1>21, <1>28, <2>4, <2>5 DEF Frames
<1>32. StreamsHold(v)
  <2>1. ASSUME NEW l \in left, NEW c \in l.area  PROVE c \in v.enc.debts
    <3>1. CASE l = new  BY <1>25, <1>31, <2>1, <3>1
    <3>2. CASE l \in w.enc.live
      <4>1. c \in Cells /\ c \notin D  BY <1>11, <1>23, <2>1, <3>2
      <4>2. Kept(sent, b, c)  BY <1>13, <4>1 DEF Sends
      <4>3. c \in w.enc.debts  BY <1>0, <2>1, <3>2 DEF StreamsHold
      <4>. QED  BY <1>3, <1>31, <4>2, <4>3 DEF Kept
    <3>. QED  BY <1>26, <3>1, <3>2
  <2>2. v.enc.ended = {}  BY <1>2, <1>3, <1>31 DEF StreamsHold
  <2>3. \A l \in left : l.area \subseteq v.enc.debts /\ l.area \cap DOMAIN v.enc.stills = {}
    BY <1>29, <2>1
  <2>. QED  BY <1>25, <1>28, <1>31, <2>2, <2>3 DEF StreamsHold
<1>33. ASSUME NEW c \in Cells  PROVE PassHolds(v, v.enc.stills, c) /\ Sound(v, v.enc.stills, c)
  <2>1. sent.enc.picture = "held"  BY <1>3, <1>14 DEF Frame
  <2>2. sent.enc.held[c] = NoneHeld
    <3>1. CASE c \in D
      <4>1. Settles(sent, c)  BY <1>13, <3>1 DEF Sends
      <4>2. sent.enc.held[c] # NoneHeld => sent.enc.picture = "progressive"  BY <4>1 DEF Settles
      <4>3. sent.enc.picture # "progressive"  BY <2>1
      <4>. QED  BY ONLY <4>2, <4>3
    <3>2. CASE c \notin D
      <4>1. Kept(sent, b, c)  BY <1>13, <3>2 DEF Sends
      <4>2. PassHolds(w, w.enc.stills, c)  BY <1>0 DEF PictureHolds
      <4>3. w.enc.held[c] = NoneHeld  BY <1>3, <4>2 DEF PassHolds
      <4>. QED  BY <1>3, <4>1, <4>3 DEF Kept
    <3>. QED  BY <3>1, <3>2
  <2>3. PassHolds(v, v.enc.stills, c)  BY <1>31, <2>2 DEF PassHolds
  <2>4. Sound(v, v.enc.stills, c)
    <3>1. CASE c \in area  BY <1>31, <3>1 DEF Sound
    <3>2. CASE c \notin area
      <4>1. c \notin S /\ c \notin D  BY <1>11, <1>12, <3>2
      <4>2. Kept(sent, b, c)  BY <1>13, <4>1 DEF Sends
      <4>3. Sound(b, b.enc.stills, c)  BY <1>2, <4>1 DEF S
      <4>4. c \notin DOMAIN b.enc.stills  BY <1>3, NoneIs
      <4>5. c \in b.enc.debts \/ Right(b, c)  BY <4>3, <4>4 DEF Sound
      <4>6. b.enc.picture = "held"  BY <1>3
      <4>7. c \in v.enc.debts \/ Right(v, c)
        BY ONLY <1>31, <4>2, <4>5, <4>6 DEF Kept, Right, Whole
      <4>. QED  BY <4>7 DEF Sound
    <3>. QED  BY <3>1, <3>2
  <2>. QED  BY <2>3, <2>4
<1>34. PictureHolds(v)
  <2>1. ~ v.client.fault /\ v.enc.picture # "lossless"  BY <1>31
  <2>. QED  BY <1>33, <2>1 DEF PictureHolds
<1>. QED  BY <1>28, <1>29, <1>30, <1>31, <1>32, <1>34 DEF Holds

AllSent(v, w) ==
  /\ Holds(v) /\ ~ v.enc.restart /\ v.enc.picture = w.enc.picture /\ DOMAIN v.enc.stills = {}

\* And so do the stills sent as runs and a region.
LEMMA SendStillsHolds ==
  ASSUME NEW w, Holds(w), ~ w.enc.restart,
         NEW cuts, NEW runs, runs = RunsOf(DOMAIN w.enc.stills, cuts), NEW upto, NEW opens,
         NEW stage, Staged(w, DOMAIN w.enc.stills, stage),
         NEW v, v = SendStills(w, runs, upto, opens, stage)
  PROVE  AllSent(v, w)
<1>1. CASE ~ AsRegion(w, runs, upto, opens)
  <2>1. v = SendRuns(Taken(w), runs, w.enc.stills, stage)  BY <1>1 DEF SendStills, Taken
  <2>2. /\ Holds(v) /\ ~ v.enc.restart /\ v.enc.picture = w.enc.picture
        /\ DOMAIN v.enc.stills = {}
    BY <2>1, SentHolds
  <2>. QED  BY <2>2 DEF AllSent
<1>2. CASE AsRegion(w, runs, upto, opens)
  <2>1. w.enc.picture = "held"  BY <1>2 DEF AsRegion
  <2>2. Holds(v) /\ ~ v.enc.restart /\ v.enc.picture = "held" /\ DOMAIN v.enc.stills = {}
    BY <1>2, RegionHolds
  <2>. QED  BY <2>1, <2>2 DEF AllSent
<1>. QED  BY <1>1, <1>2

-----------------------------------------------------------------------------
(* A round: the regions laid out again.                                    *)

Lays == [next : SUBSET Streams, old : SUBSET Streams, owed : SUBSET Cells]

\* The layout once the first `i` of the regions wanted are added.
Laying(r, live, wanted, i) ==
  /\ r \in Lays /\ Apart(r.next) /\ r.old \subseteq live
  /\ \A k \in r.next, l \in r.old : k.id # l.id
  /\ \A l \in r.next : (l \in live \/ ~ l.started) /\ (l \in live \/ l.area \subseteq r.owed)
  /\ \A l \in r.next, j \in (i + 1) .. Len(wanted) :
       l.area \cap wanted[j] = {} \/ wanted[j] \subseteq l.area

\* The regions wanted are intervals that do not meet.
LEMMA LayoutsAre ==
  ASSUME NEW wanted \in Layouts
  PROVE  /\ Len(wanted) \in Nat /\ DOMAIN wanted = 1 .. Len(wanted)
         /\ \A i \in 1 .. Len(wanted) : /\ wanted[i] \subseteq Cells /\ Interval(wanted[i])
                                        /\ wanted[i] # {}
         /\ \A i, j \in 1 .. Len(wanted) : i = j \/ wanted[i] \cap wanted[j] = {}
<1>1. PICK n \in 0 .. Width : wanted \in [1 .. n -> Boxes]  BY DEF Layouts
<1>2. n \in Nat  BY <1>1, TilesAssumption
<1>3. Len(wanted) = n /\ DOMAIN wanted = 1 .. n  BY <1>1, <1>2
<1>4. \A i \in 1 .. n : wanted[i] \in Boxes  BY <1>1
<1>5. \A i, j \in DOMAIN wanted : i = j \/ wanted[i] \cap wanted[j] = {}  BY DEF Layouts
<1>. QED  BY <1>2, <1>3, <1>4, <1>5, BoxesAre

\* Some of the streams that are apart are.
LEMMA ApartIn ==
  ASSUME NEW live, Apart(live), NEW L, L \subseteq live  PROVE Apart(L)
<1>1. IsFiniteSet(L)  BY FS_Subset DEF Apart
<1>. QED  BY <1>1 DEF Apart

\* What a layout starts from.
LEMMA BegunIs ==
  ASSUME NEW live, live \subseteq Streams, Apart(live), NEW wanted \in Layouts
  PROVE  Laying(Begun(live, wanted), live, wanted, 0)
<1>. DEFINE meets(l) == {i \in DOMAIN wanted : wanted[i] \cap l.area # {}}
            kept == {l \in live : meets(l) # {} /\ \A i \in meets(l) : wanted[i] \subseteq l.area}
<1>1. PICK r : r = Begun(live, wanted)  OBVIOUS
<1>2. r = [next |-> kept, old |-> live \ kept, owed |-> {}]  BY <1>1 DEF Begun
<1>3. kept \subseteq live  OBVIOUS
<1>4. DOMAIN wanted = 1 .. Len(wanted)  BY LayoutsAre
<1>5. \A l \in kept, j \in 1 .. Len(wanted) :
        l.area \cap wanted[j] = {} \/ wanted[j] \subseteq l.area
  BY <1>4
<1>. HIDE DEF kept
<1>6. r.next = kept /\ r.old = live \ kept /\ r.owed = {} /\ r \in Lays
  BY <1>2, <1>3 DEF Lays
<1>7. Apart(r.next)  BY <1>3, <1>6, ApartIn
<1>8. \A k \in r.next, l \in r.old : k.id # l.id  BY <1>3, <1>6 DEF Apart
<1>9. 0 + 1 = 1  OBVIOUS
<1>10. Laying(r, live, wanted, 0)  BY <1>3, <1>5, <1>6, <1>7, <1>8, <1>9 DEF Laying
<1>. QED  BY <1>1, <1>10

\* A region laid keeps the streams apart.
LEMMA AddedIs ==
  ASSUME NEW live, live \subseteq Streams, IsFiniteSet(live), NEW wanted \in Layouts,
         NEW i \in 1 .. Len(wanted),
         NEW r, Laying(r, live, wanted, i - 1)
  PROVE  Laying(Added(r, wanted[i]), live, wanted, i)
<1>0. /\ i \in Int /\ (i - 1) + 1 = i /\ Len(wanted) \in Nat /\ i \in i .. Len(wanted)
      /\ (i + 1) .. Len(wanted) \subseteq i .. Len(wanted) /\ i \notin (i + 1) .. Len(wanted)
      /\ (i + 1) .. Len(wanted) \subseteq 1 .. Len(wanted)
  BY LayoutsAre
<1>1. PICK a : a = wanted[i]  OBVIOUS
<1>2. /\ a \subseteq Cells /\ Interval(a)
      /\ \A j \in (i + 1) .. Len(wanted) : a \cap wanted[j] = {}
  BY <1>0, <1>1, LayoutsAre
<1>3. /\ r \in Lays /\ Apart(r.next) /\ r.old \subseteq live
      /\ \A k \in r.next, l \in r.old : k.id # l.id
      /\ \A l \in r.next : (l \in live \/ ~ l.started) /\ (l \in live \/ l.area \subseteq r.owed)
  BY DEF Laying
<1>4. \A l \in r.next, j \in i .. Len(wanted) :
        l.area \cap wanted[j] = {} \/ wanted[j] \subseteq l.area
  BY <1>0 DEF Laying
<1>5. CASE (\E l \in r.next : a \subseteq l.area) \/ Cardinality(r.next) >= MAX_STREAMS
  <2>1. Added(r, a) = r  BY <1>5 DEF Added
  <2>2. Laying(r, live, wanted, i)  BY <1>0, <1>3, <1>4 DEF Laying
  <2>. QED  BY <1>1, <2>1, <2>2
<1>6. CASE ~ ((\E l \in r.next : a \subseteq l.area) \/ Cardinality(r.next) >= MAX_STREAMS)
  <2>1. PICK old : old = {l \in r.old : l.area \cap a = {}}  OBVIOUS
  <2>2. PICK b : b = Build(FreshId(r.next \cup old), a)  OBVIOUS
  <2>3. PICK s : s = Added(r, a)  OBVIOUS
  <2>4. s = [next |-> r.next \cup {b}, old |-> old, owed |-> r.owed \cup a]
    BY <1>6, <2>1, <2>2, <2>3 DEF Added
  <2>5. \A l \in r.next : l.area \cap a = {}  BY <1>0, <1>1, <1>4, <1>6
  <2>6. PICK M : M = r.next \cup old  OBVIOUS
  <2>7. /\ r.next \subseteq Streams /\ old \subseteq r.old /\ r.owed \subseteq Cells
        /\ r.old \subseteq Streams
    BY <1>3, <2>1 DEF Lays
  <2>8. old \subseteq live  BY <1>3, <2>7
  <2>9. Laying(s, live, wanted, i)
    <3>0. IsFiniteSet(M)
      <4>1. IsFiniteSet(r.next)  BY <1>3 DEF Apart
      <4>2. IsFiniteSet(old)  BY <2>8, FS_Subset
      <4>. QED  BY <2>6, <4>1, <4>2, FS_Union
    <3>1. b = Build(FreshId(M), a)  BY <2>2, <2>6
    <3>2. PICK L : L = r.next  OBVIOUS
    <3>a. L \subseteq M /\ Apart(L) /\ L \subseteq Streams /\ \A l \in L : l.area \cap a = {}
      BY <1>3, <2>5, <2>6, <2>7, <3>2
    <3>b. Apart(L \cup {b}) /\ L \cup {b} \subseteq Streams /\ ~ b.started /\ b.area = a
      BY ONLY <1>2, <3>0, <3>1, <3>a, BuildApart
    <3>3. /\ Apart(r.next \cup {b}) /\ r.next \cup {b} \subseteq Streams
          /\ ~ b.started /\ b.area = a
      BY <3>2, <3>b
    <3>4. \A l \in old : b.id # l.id
      <4>1. FreshId(M) \in Nat /\ \A l \in M : l.id # FreshId(M)  BY <3>0, FreshIs
      <4>2. b.id = FreshId(M)  BY <1>2, <3>1, <4>1, BuildIs
      <4>. QED  BY <2>6, <4>1, <4>2
    <3>5. s.next = r.next \cup {b} /\ s.old = old /\ s.owed = r.owed \cup a  BY <2>4
    <3>6. s \in Lays
      <4>1. r.owed \cup a \subseteq Cells /\ old \subseteq Streams  BY <1>2, <2>7
      <4>. QED  BY <2>4, <3>3, <4>1 DEF Lays
    <3>7. \A k \in s.next, l \in s.old : k.id # l.id  BY <1>3, <2>7, <3>4, <3>5
    <3>8. \A l \in s.next : (l \in live \/ ~ l.started) /\ (l \in live \/ l.area \subseteq s.owed)
      BY <1>3, <3>3, <3>5
    <3>9. \A l \in s.next, j \in (i + 1) .. Len(wanted) :
            l.area \cap wanted[j] = {} \/ wanted[j] \subseteq l.area
      BY <1>0, <1>2, <1>4, <3>3, <3>5
    <3>. QED  BY <2>8, <3>3, <3>5, <3>6, <3>7, <3>8, <3>9 DEF Laying
  <2>. QED  BY <1>1, <2>3, <2>9
<1>. QED  BY <1>5, <1>6

\* And so do all of them.
LEMMA LaidIs ==
  ASSUME NEW live, live \subseteq Streams, Apart(live), NEW wanted \in Layouts
  PROVE  Laying(Laid(live, wanted), live, wanted, Len(wanted))
<1>. DEFINE n == Len(wanted)
            I == [i \in 0 .. n |-> {r \in Lays : Laying(r, live, wanted, i)}]
<1>0. n \in Nat  BY LayoutsAre
<1>1. Begun(live, wanted) \in I[0]
  <2>1. Laying(Begun(live, wanted), live, wanted, 0)  BY BegunIs
  <2>2. Begun(live, wanted) \in Lays  BY <2>1 DEF Laying
  <2>. QED  BY <1>0, <2>1, <2>2
<1>2. ASSUME NEW i \in 1 .. n, NEW r \in I[i - 1]  PROVE Added(r, wanted[i]) \in I[i]
  <2>0. i - 1 \in 0 .. n /\ i \in 0 .. n  BY <1>0
  <2>1. Laying(r, live, wanted, i - 1)  BY <2>0
  <2>2. IsFiniteSet(live)  BY DEF Apart
  <2>3. PICK s : s = Added(r, wanted[i])  OBVIOUS
  <2>4. Laying(s, live, wanted, i)  BY <2>1, <2>2, <2>3, AddedIs
  <2>5. s \in Lays  BY <2>4 DEF Laying
  <2>6. s \in I[i]  BY <2>0, <2>4, <2>5
  <2>. HIDE DEF I
  <2>. QED  BY <2>3, <2>6
<1>3. \A r \in I[n] : Laying(r, live, wanted, n)  BY <1>0
<1>. HIDE DEF I
<1>4. Laid(live, wanted) \in I[n]  BY <1>0, <1>1, <1>2, LaidRuns
<1>. QED  BY <1>3, <1>4

\* The streams live once the layout is made.
LEMMA NextIs ==
  ASSUME NEW live, live \subseteq Streams, Apart(live), NEW wanted \in Layouts,
         NEW laid, laid = Laid(live, wanted), NEW idle, NEW stay \in Staying(laid, idle),
         NEW next, next = laid.next \cup stay
  PROVE  /\ Left(live, live \ next, next) /\ laid.owed \subseteq Cells
         /\ \A l \in next : l \in live \/ l.area \subseteq laid.owed
<1>0. Laying(laid, live, wanted, Len(wanted))  BY LaidIs
<1>1. /\ laid \in Lays /\ Apart(laid.next) /\ laid.old \subseteq live
      /\ \A k \in laid.next, l \in laid.old : k.id # l.id
      /\ \A l \in laid.next : (l \in live \/ ~ l.started) /\ (l \in live \/ l.area \subseteq laid.owed)
  BY <1>0 DEF Laying
<1>2. laid.next \subseteq Streams /\ laid.owed \subseteq Cells  BY <1>1 DEF Lays
<1>3. stay \subseteq laid.old /\ \A l \in stay, k \in laid.next : k.area \cap l.area = {}
  BY DEF Staying
<1>4. Apart(stay)  BY <1>1, <1>3, ApartIn
<1>5. IsFiniteSet(next)  BY <1>1, <1>4, FS_Union DEF Apart
<1>6. ASSUME NEW l \in next, NEW m \in next, l.id = m.id \/ l.area \cap m.area # {}
      PROVE  l = m
  <2>1. CASE l \in laid.next /\ m \in laid.next  BY <1>1, <1>6, <2>1 DEF Apart
  <2>2. CASE l \in stay /\ m \in stay  BY <1>4, <1>6, <2>2 DEF Apart
  <2>3. CASE l \in laid.next /\ m \in stay  BY <1>1, <1>3, <1>6, <2>3
  <2>4. CASE l \in stay /\ m \in laid.next  BY <1>1, <1>3, <1>6, <2>4
  <2>. QED  BY <2>1, <2>2, <2>3, <2>4
<1>7. \A l \in next : Shaped(l)  BY <1>1, <1>4 DEF Apart
<1>8. Apart(next)  BY <1>5, <1>6, <1>7 DEF Apart
<1>9. next \subseteq Streams  BY <1>1, <1>2, <1>3
<1>10. \A l \in next : l \in live \/ ~ l.started  BY <1>1, <1>3
<1>11. Left(live, live \ next, next)  BY <1>8, <1>9, <1>10 DEF Left
<1>. QED  BY <1>1, <1>2, <1>3, <1>11

\* The regions laid out again leave what holds holding.
LEMMA RetunedHolds ==
  ASSUME NEW w, Holds(w), ~ w.enc.restart, w.enc.picture = "held", DOMAIN w.enc.stills = {},
         NEW wanted \in Layouts, NEW laid, laid = Laid(w.enc.live, wanted),
         NEW idle, NEW stay \in Staying(laid, idle), NEW v, v = Retuned(w, laid, stay)
  PROVE  /\ Holds(v) /\ ~ v.enc.restart /\ v.enc.picture = "held"
         /\ DOMAIN v.enc.stills \subseteq v.enc.debts
<1>0. w \in Work /\ CacheHolds(w) /\ StreamsHold(w) /\ PictureHolds(w)  BY DEF Holds
<1>1. PICK live : live = w.enc.live  OBVIOUS
<1>2. PICK next : next = laid.next \cup stay  OBVIOUS
<1>3. live \subseteq Streams /\ Apart(live) /\ w.client.streams = Known(live) /\ w.enc.ended = {}
      /\ w.enc.debts \subseteq Cells
  BY <1>0, <1>1, WorkHas DEF StreamsHold
<1>4. /\ Left(live, live \ next, next) /\ laid.owed \subseteq Cells
      /\ \A l \in next : l \in live \/ l.area \subseteq laid.owed
  BY ZenonT(60), <1>1, <1>2, <1>3, NextIs
<1>5. PICK d : d = w.enc.debts \cup laid.owed  OBVIOUS
<1>6. PICK u : u = Owing(w, d)  OBVIOUS
<1>7. d \in SUBSET Cells  BY <1>3, <1>4, <1>5
<1>8. /\ u \in Work /\ Frame(u, w) /\ u.client = w.client
      /\ u.enc.debts = d /\ u.enc.held = w.enc.held /\ u.enc.cache = w.enc.cache
  BY <1>0, <1>6, <1>7, OwedMakes DEF Made
<1>9. v = EndStreams(u, live \ next, next)  BY <1>1, <1>2, <1>5, <1>6 DEF Retuned, Owing
<1>10. /\ u.enc.live = live /\ u.enc.stills = w.enc.stills /\ u.enc.picture = "held"
       /\ u.enc.restart = w.enc.restart /\ u.enc.mirror = w.enc.mirror /\ u.enc.ended = {}
  BY <1>1, <1>3, <1>8 DEF Frame
<1>11. PICK over : over = live \ next  OBVIOUS
<1>12. /\ v \in Work /\ Frames(v, u) /\ v.enc.live = next /\ v.client.streams = Known(next)
       /\ DOMAIN v.enc.stills = DOMAIN u.enc.stills \cup (DOMAIN Unsent(over) \ Covered(next))
       /\ DOMAIN Unsent(over) \subseteq Covered(over)
  <2>1. u.client.streams = Known(u.enc.live)  BY <1>3, <1>8, <1>10
  <2>2. v = EndStreams(u, over, next) /\ Left(u.enc.live, over, next)  BY <1>4, <1>9, <1>10, <1>11
  <2>3. u \in Work  BY <1>8
  <2>. QED  BY ONLY <2>1, <2>2, <2>3, EndIs
<1>13. /\ v.enc.debts = d /\ v.enc.held = w.enc.held /\ v.enc.cache = w.enc.cache
       /\ v.client.shown = w.client.shown /\ v.client.kept = w.client.kept
       /\ v.enc.mirror = w.enc.mirror /\ v.enc.picture = "held" /\ ~ v.enc.restart
       /\ v.enc.ended = {} /\ v.client.fault = w.client.fault
  BY <1>8, <1>10, <1>12 DEF Frames
<1>14. CacheHolds(v)  BY <1>0, <1>12, <1>13, CacheSame
<1>15. \A l \in live : l.area \subseteq d  BY <1>0, <1>1, <1>5 DEF StreamsHold
<1>16. DOMAIN v.enc.stills = DOMAIN Unsent(over) \ Covered(next)
  <2>1. DOMAIN u.enc.stills = {}  BY <1>10
  <2>. QED  BY ONLY <1>12, <2>1
<1>17. DOMAIN v.enc.stills \subseteq d
  <2>1. Covered(over) \subseteq d  BY ONLY <1>11, <1>15 DEF Covered
  <2>2. DOMAIN v.enc.stills \subseteq Covered(over)  BY ONLY <1>12, <1>16
  <2>. QED  BY ONLY <2>1, <2>2
<1>18. StreamsHold(v)
  <2>1. \A l \in next : l.area \subseteq d  BY <1>4, <1>5, <1>15
  <2>2. \A l \in next : l.area \cap DOMAIN v.enc.stills = {}  BY <1>16 DEF Covered
  <2>3. Apart(next)  BY <1>4 DEF Left
  <2>. QED  BY <1>12, <1>13, <2>1, <2>2, <2>3 DEF StreamsHold
<1>19. ASSUME NEW c \in Cells  PROVE PassHolds(v, v.enc.stills, c) /\ Sound(v, v.enc.stills, c)
  <2>1. PassHolds(w, w.enc.stills, c) /\ Sound(w, w.enc.stills, c)  BY <1>0 DEF PictureHolds
  <2>2. w.enc.held[c] = NoneHeld  BY <2>1 DEF PassHolds
  <2>3. PassHolds(v, v.enc.stills, c)  BY <1>13, <2>2 DEF PassHolds
  <2>4. c \in w.enc.debts \/ Right(w, c)  BY <2>1 DEF Sound
  <2>5. c \in v.enc.debts \/ Right(v, c)  BY <1>5, <1>13, <2>4 DEF Right, Whole
  <2>. QED  BY <2>3, <2>5 DEF Sound
<1>20. PictureHolds(v)
  <2>1. ~ v.client.fault /\ v.enc.picture # "lossless"  BY <1>0, <1>13 DEF PictureHolds
  <2>. QED  BY <1>19, <2>1 DEF PictureHolds
<1>. QED  BY <1>12, <1>13, <1>14, <1>17, <1>18, <1>20 DEF Holds

-----------------------------------------------------------------------------
(* A round: the streams coded.                                             *)

CodedOf(w, l, framed) ==
  IF ~ l.dirty THEN l
  ELSE LET carried == l.id \in framed IN
       [l EXCEPT !.pic = [c \in l.area |-> IF @ = <<>> \/ c \in DOMAIN l.pending
                                           THEN w.enc.mirror[c] ELSE @[c]],
                 !.pending = IF carried THEN <<>> ELSE @,
                 !.dirty = ~ carried, !.started = @ \/ carried]

SentOf(w, framed) == {l \in w.enc.live : l.dirty /\ l.id \in framed}

\* The types of a stream's fields.
LEMMA StreamHas ==
  ASSUME NEW l \in Streams
  PROVE  /\ l.id \in Nat /\ l.area \subseteq Cells /\ l.pending \in Parts
         /\ l.pic \in UNION {[S -> Shades] : S \in SUBSET Cells}
         /\ l.dirty \in BOOLEAN /\ l.started \in BOOLEAN
<1>1. PICK pics : pics = UNION {[T -> Shades] : T \in SUBSET Cells}  OBVIOUS
<1>2. Streams = [id : Nat, area : SUBSET Cells, pic : pics, pending : Parts, dirty : BOOLEAN,
                 started : BOOLEAN]
  BY <1>1 DEF Streams
<1>3. /\ l.id \in Nat /\ l.area \subseteq Cells /\ l.pending \in Parts
      /\ l.pic \in pics /\ l.dirty \in BOOLEAN /\ l.started \in BOOLEAN
  BY <1>2
<1>. QED  BY <1>1, <1>3

\* A stream coded is the same but for what it carries, and started if it was sent.
LEMMA CodedOfIs ==
  ASSUME NEW w \in Work, NEW l \in w.enc.live, Shaped(l), NEW framed,
         NEW m, m = CodedOf(w, l, framed)
  PROVE  /\ m \in Streams /\ Shaped(m) /\ m.id = l.id /\ m.area = l.area
         /\ m.started = (l.started \/ (l.dirty /\ l.id \in framed))
         /\ l.dirty => DOMAIN m.pic = l.area /\ \A c \in l.area : m.pic[c] \in Shades
<1>0. l \in Streams /\ w.enc.mirror \in [Cells -> Shades]  BY WorkHas
<1>1. /\ l.id \in Nat /\ l.area \subseteq Cells /\ l.pending \in Parts
      /\ l.pic \in UNION {[S -> Shades] : S \in SUBSET Cells}
      /\ l.dirty \in BOOLEAN /\ l.started \in BOOLEAN
  BY <1>0, StreamHas
<1>2. CASE ~ l.dirty
  <2>1. m = l  BY <1>2 DEF CodedOf
  <2>. QED  BY <1>0, <1>1, <1>2, <2>1
<1>3. CASE l.dirty
  <2>. DEFINE carried == l.id \in framed
              at(c) == IF l.pic = <<>> \/ c \in DOMAIN l.pending THEN w.enc.mirror[c] ELSE l.pic[c]
              shown == [c \in l.area |-> at(c)]
              waits == IF carried THEN <<>> ELSE l.pending
  <2>1. \A c \in l.area : at(c) \in Shades
    <3>. SUFFICES ASSUME NEW c \in l.area PROVE at(c) \in Shades  OBVIOUS
    <3>1. w.enc.mirror[c] \in Shades  BY <1>0, <1>1
    <3>2. l.pic # <<>> => l.pic[c] \in Shades
      <4>1. PICK S \in SUBSET Cells : l.pic \in [S -> Shades]  BY <1>1
      <4>2. l.pic # <<>> => S = l.area  BY <4>1 DEF Shaped
      <4>. QED  BY <4>1, <4>2
    <3>. QED  BY <3>1, <3>2
  <2>. HIDE DEF at
  <2>2. shown \in [l.area -> Shades] /\ DOMAIN shown = l.area  BY <2>1
  <2>. HIDE DEF shown
  <2>3. shown \in UNION {[S -> Shades] : S \in SUBSET Cells}  BY <1>1, <2>2
  <2>4. waits \in Parts /\ DOMAIN waits \subseteq l.area
    <3>1. <<>> \in Parts /\ DOMAIN <<>> = {}  BY NoneIs
    <3>2. DOMAIN l.pending \subseteq l.area  BY DEF Shaped
    <3>. QED  BY <1>1, <3>1, <3>2
  <2>5. carried \in BOOLEAN  OBVIOUS
  <2>6. PICK p, q, r : p = shown /\ q = waits /\ r = carried  OBVIOUS
  <2>7. m = [l EXCEPT !.pic = shown, !.pending = waits, !.dirty = ~ carried,
                      !.started = l.started \/ carried]
    BY <1>3 DEF CodedOf, shown, at
  <2>. HIDE DEF waits, carried
  <2>8. m = [l EXCEPT !.pic = p, !.pending = q, !.dirty = ~ r, !.started = l.started \/ r]
    BY <2>6, <2>7
  <2>9. r \in BOOLEAN /\ p \in UNION {[S -> Shades] : S \in SUBSET Cells} /\ q \in Parts
    BY <2>3, <2>4, <2>5, <2>6
  <2>10. /\ m \in Streams /\ m.id = l.id /\ m.area = l.area /\ m.pic = p /\ m.pending = q
         /\ m.started = (l.started \/ r)
    <3>1. PICK pics : pics = UNION {[T -> Shades] : T \in SUBSET Cells}  OBVIOUS
    <3>2. Streams = [id : Nat, area : SUBSET Cells, pic : pics, pending : Parts, dirty : BOOLEAN,
                     started : BOOLEAN]
      BY <3>1 DEF Streams
    <3>3. p \in pics /\ l \in Streams  BY <1>0, <2>9, <3>1
    <3>4. (~ r) \in BOOLEAN /\ (l.started \/ r) \in BOOLEAN  BY <1>1, <2>9
    <3>5. PICK x, y : x = (~ r) /\ y = (l.started \/ r)  OBVIOUS
    <3>6. m = [l EXCEPT !.pic = p, !.pending = q, !.dirty = x, !.started = y]  BY <2>8, <3>5
    <3>. QED  BY ONLY <2>9, <3>2, <3>3, <3>4, <3>5, <3>6
  <2>11. DOMAIN m.pic = l.area /\ (\A c \in l.area : m.pic[c] \in Shades)
    BY <2>2, <2>6, <2>10
  <2>12. Shaped(m)
    <3>1. DOMAIN m.pending \subseteq m.area  BY <2>4, <2>6, <2>10
    <3>. QED  BY <2>10, <2>11, <3>1 DEF Shaped
  <2>13. r = (l.dirty /\ l.id \in framed)  BY <1>3, <2>6 DEF carried
  <2>. QED  BY <2>10, <2>11, <2>12, <2>13
<1>. QED  BY <1>1, <1>2, <1>3

LiveOf(w, framed) == {CodedOf(w, l, framed) : l \in w.enc.live}

\* The streams coded are those live, and the ones sent have started.
SameStreams(live, w, framed) ==
  /\ \A m \in live : \E l \in w.enc.live :
       /\ m.id = l.id /\ m.area = l.area
       /\ m.started = (l.started \/ l \in SentOf(w, framed))
  /\ \A l \in w.enc.live : \E m \in live :
       /\ m.id = l.id /\ m.area = l.area
       /\ m.started = (l.started \/ l \in SentOf(w, framed))

\* The streams coded are apart as they were.
LEMMA CodedLive ==
  ASSUME NEW w \in Work, Apart(w.enc.live), NEW framed, NEW live, live = LiveOf(w, framed)
  PROVE  live \subseteq Streams /\ Apart(live) /\ SameStreams(live, w, framed)
<1>. DEFINE of(l) == CodedOf(w, l, framed)
<1>1. ASSUME NEW l \in w.enc.live
      PROVE  /\ of(l) \in Streams /\ Shaped(of(l)) /\ of(l).id = l.id /\ of(l).area = l.area
             /\ of(l).started = (l.started \/ l \in SentOf(w, framed))
  <2>1. Shaped(l)  BY DEF Apart
  <2>2. PICK m : m = of(l)  OBVIOUS
  <2>3. /\ m \in Streams /\ Shaped(m) /\ m.id = l.id /\ m.area = l.area
        /\ m.started = (l.started \/ (l.dirty /\ l.id \in framed))
    BY <2>1, <2>2, CodedOfIs
  <2>4. (l.dirty /\ l.id \in framed) <=> l \in SentOf(w, framed)  BY DEF SentOf
  <2>5. l \in Streams /\ m.started \in BOOLEAN /\ l.started \in BOOLEAN /\ l.dirty \in BOOLEAN
    BY <2>3, WorkHas, StreamHas
  <2>6. m.started = (l.started \/ l \in SentOf(w, framed))  BY <2>3, <2>4, <2>5
  <2>. HIDE DEF of
  <2>. QED  BY <2>2, <2>3, <2>6
<1>2. live = {of(l) : l \in w.enc.live}  BY DEF LiveOf
<1>. HIDE DEF of
<1>3. live \subseteq Streams  BY <1>1, <1>2
<1>4. IsFiniteSet(live)
  <2>. DEFINE f == [l \in w.enc.live |-> of(l)]
  <2>1. f \in Surjection(w.enc.live, live)  BY <1>2 DEF Surjection
  <2>2. IsFiniteSet(w.enc.live)  BY DEF Apart
  <2>. HIDE DEF f
  <2>. QED  BY <2>1, <2>2, FS_Surjection
<1>5. ASSUME NEW p \in live, NEW q \in live, p.id = q.id \/ p.area \cap q.area # {}
      PROVE  p = q
  <2>1. PICK l \in w.enc.live : p = of(l)  BY <1>2
  <2>2. PICK m \in w.enc.live : q = of(m)  BY <1>2
  <2>3. l = m  BY <1>1, <1>5, <2>1, <2>2 DEF Apart
  <2>. QED  BY <2>1, <2>2, <2>3
<1>6. \A m \in live : Shaped(m)  BY <1>1, <1>2
<1>7. Apart(live)  BY <1>4, <1>5, <1>6 DEF Apart
<1>8. \A m \in live : \E l \in w.enc.live :
        /\ m.id = l.id /\ m.area = l.area
        /\ m.started = (l.started \/ l \in SentOf(w, framed))
  BY <1>1, <1>2
<1>9. \A l \in w.enc.live : of(l) \in live  BY <1>2
<1>10. \A l \in w.enc.live : \E m \in live :
         /\ m.id = l.id /\ m.area = l.area
         /\ m.started = (l.started \/ l \in SentOf(w, framed))
  BY <1>1, <1>9
<1>11. SameStreams(live, w, framed)  BY <1>8, <1>10 DEF SameStreams
<1>. QED  BY <1>3, <1>7, <1>11

\* The client decodes the streams that have started.
LEMMA CodedKnown ==
  ASSUME NEW w \in Work, Apart(w.enc.live), NEW framed, NEW live, live = LiveOf(w, framed)
  PROVE  Known(w.enc.live) \cup {[id |-> l.id, area |-> l.area] : l \in SentOf(w, framed)} = Known(live)
<1>. DEFINE K == Known(w.enc.live) \cup {[id |-> l.id, area |-> l.area] : l \in SentOf(w, framed)}
<1>0. SameStreams(live, w, framed)  BY CodedLive
<1>1. \A m \in live : \E l \in w.enc.live :
        m.id = l.id /\ m.area = l.area /\ m.started = (l.started \/ l \in SentOf(w, framed))
  BY <1>0 DEF SameStreams
<1>2. \A l \in w.enc.live : \E m \in live :
        m.id = l.id /\ m.area = l.area /\ m.started = (l.started \/ l \in SentOf(w, framed))
  BY <1>0 DEF SameStreams
<1>3. \A s : s \in K <=> \E l \in w.enc.live : /\ l.started \/ l \in SentOf(w, framed)
                                               /\ s = [id |-> l.id, area |-> l.area]
  BY DEF Known, SentOf
<1>4. \A s : s \in Known(live) <=> \E m \in live : m.started /\ s = [id |-> m.id, area |-> m.area]
  BY DEF Known
<1>. HIDE DEF K
<1>5. ASSUME NEW s \in K  PROVE s \in Known(live)
  <2>1. PICK l \in w.enc.live : (l.started \/ l \in SentOf(w, framed)) /\ s = [id |-> l.id, area |-> l.area]
    BY <1>3
  <2>2. PICK m \in live : m.id = l.id /\ m.area = l.area
                          /\ m.started = (l.started \/ l \in SentOf(w, framed))
    BY <1>2
  <2>. QED  BY <1>4, <2>1, <2>2
<1>6. ASSUME NEW s \in Known(live)  PROVE s \in K
  <2>1. PICK m \in live : m.started /\ s = [id |-> m.id, area |-> m.area]  BY <1>4
  <2>2. PICK l \in w.enc.live : m.id = l.id /\ m.area = l.area
                          /\ m.started = (l.started \/ l \in SentOf(w, framed))
    BY <1>1
  <2>. QED  BY <1>3, <2>1, <2>2
<1>7. K = Known(live)  BY <1>5, <1>6
<1>. QED  BY <1>7 DEF K

\* What each tile of the streams sent shows: a frame's.
FrameOf(w, framed, c) == CodedOf(w, CHOOSE l \in SentOf(w, framed) : c \in l.area, framed).pic[c]

\* A frame shows some picture of each of its tiles.
LEMMA FrameIs ==
  ASSUME NEW w \in Work, Apart(w.enc.live), NEW framed, NEW c \in Covered(SentOf(w, framed))
  PROVE  FrameOf(w, framed, c) \in Shades
<1>1. PICK l : l = CHOOSE x \in SentOf(w, framed) : c \in x.area  OBVIOUS
<1>2. \E x \in SentOf(w, framed) : c \in x.area  BY DEF Covered
<1>3. l \in SentOf(w, framed) /\ c \in l.area  BY <1>1, <1>2
<1>4. l \in w.enc.live /\ l.dirty  BY <1>3 DEF SentOf
<1>5. Shaped(l)  BY <1>4 DEF Apart
<1>6. PICK m : m = CodedOf(w, l, framed)  OBVIOUS
<1>7. \A x \in l.area : m.pic[x] \in Shades  BY <1>4, <1>5, <1>6, CodedOfIs
<1>8. FrameOf(w, framed, c) = m.pic[c]  BY <1>1, <1>6 DEF FrameOf
<1>. QED  BY <1>3, <1>7, <1>8

\* No frame is of a stream the client does not decode, nor on one it does.
Faults(w, framed) ==
  \E l \in SentOf(w, framed) :
    \/ l.started # ([id |-> l.id, area |-> l.area] \in w.client.streams)
    \/ \E s \in w.client.streams : s.id # l.id /\ s.area \cap l.area # {}

\* No frame is one the client cannot draw.
LEMMA NoFaults ==
  ASSUME NEW w \in Work, Apart(w.enc.live), w.client.streams = Known(w.enc.live), NEW framed
  PROVE  ~ Faults(w, framed)
<1>. SUFFICES ASSUME NEW l \in SentOf(w, framed)
              PROVE  /\ l.started = ([id |-> l.id, area |-> l.area] \in w.client.streams)
                     /\ \A s \in w.client.streams : s.id = l.id \/ s.area \cap l.area = {}
  BY DEF Faults
<1>1. l \in w.enc.live  BY DEF SentOf
<1>2. l.started \in BOOLEAN  BY <1>1, WorkHas, StreamHas
<1>3. ASSUME NEW m \in w.enc.live, [id |-> m.id, area |-> m.area] = [id |-> l.id, area |-> l.area]
      PROVE  m = l
  <2>1. m.id = l.id  BY <1>3
  <2>. QED  BY <1>1, <2>1 DEF Apart
<1>4. [id |-> l.id, area |-> l.area] \in w.client.streams <=> l.started
  BY <1>1, <1>3 DEF Known
<1>5. ASSUME NEW s \in w.client.streams, s.area \cap l.area # {}  PROVE s.id = l.id
  <2>1. PICK m \in w.enc.live : s = [id |-> m.id, area |-> m.area]  BY DEF Known
  <2>2. s.id = m.id /\ s.area = m.area  BY <2>1
  <2>3. m = l  BY <1>1, <1>5, <2>2 DEF Apart
  <2>. QED  BY <2>2, <2>3
<1>. QED  BY <1>2, <1>4, <1>5

-----------------------------------------------------------------------------
(* A round.                                                                *)

ShownOf(w, framed) ==
  [c \in Cells |-> IF c \in Covered(SentOf(w, framed))
                   THEN [of |-> FrameOf(w, framed, c), level |-> 0] ELSE w.client.shown[c]]

StreamsOf(w, framed) ==
  w.client.streams \cup {[id |-> l.id, area |-> l.area] : l \in SentOf(w, framed)}

\* The streams coded, field by field.
LEMMA CodedIs ==
  ASSUME NEW w \in Work, StreamsHold(w), ~ w.enc.restart, NEW framed, NEW v, v = Coded(w, framed)
  PROVE  /\ v \in Work
         /\ v.enc.live = LiveOf(w, framed)
         /\ v.enc.debts = w.enc.debts \cup Covered(SentOf(w, framed))
         /\ v.enc.mirror = w.enc.mirror /\ v.enc.restart = w.enc.restart
         /\ v.enc.ended = w.enc.ended /\ v.enc.cache = w.enc.cache /\ v.enc.stills = w.enc.stills
         /\ v.enc.moved = w.enc.moved /\ v.enc.picture = w.enc.picture /\ v.enc.held = w.enc.held
         /\ v.client.kept = w.client.kept /\ v.client.fault = w.client.fault
         /\ v.client.streams = Known(v.enc.live)
         /\ \A c \in Cells \ Covered(SentOf(w, framed)) :
              v.client.shown[c] = w.client.shown[c]
<1>0. /\ w = [enc |-> w.enc, client |-> w.client] /\ w.enc \in Encoders /\ w.client \in Clients
      /\ w.enc.live \subseteq Streams /\ w.enc.debts \subseteq Cells
      /\ w.client.shown \in [Cells -> Drawn] /\ w.client.fault \in BOOLEAN
      /\ w.client.streams \subseteq [id : Nat, area : SUBSET Cells]
  BY WorkHas DEF Work
<1>1. Apart(w.enc.live) /\ w.client.streams = Known(w.enc.live)  BY DEF StreamsHold
<1>2. PICK sent : sent = SentOf(w, framed)  OBVIOUS
<1>3. PICK live : live = LiveOf(w, framed)  OBVIOUS
<1>4. PICK debts : debts = w.enc.debts \cup Covered(sent)  OBVIOUS
<1>5. PICK shown : shown = ShownOf(w, framed)  OBVIOUS
<1>6. PICK streams : streams = StreamsOf(w, framed)  OBVIOUS
<1>7. PICK fault : fault = (w.client.fault \/ Faults(w, framed))  OBVIOUS
<1>8. v = [w EXCEPT !.enc.live = LiveOf(w, framed),
                    !.enc.debts = w.enc.debts \cup Covered(SentOf(w, framed)),
                    !.client.shown = ShownOf(w, framed), !.client.streams = StreamsOf(w, framed),
                    !.client.fault = w.client.fault \/ Faults(w, framed)]
  BY DEF Coded, CodedOf, SentOf, FrameOf, Faults, LiveOf, ShownOf, StreamsOf
<1>9. live \subseteq Streams /\ streams = Known(live)
  <2>1. live \subseteq Streams  BY <1>0, <1>1, <1>3, CodedLive
  <2>2. Known(w.enc.live) \cup {[id |-> l.id, area |-> l.area] : l \in SentOf(w, framed)} = Known(live)
    BY <1>1, <1>3, CodedKnown
  <2>. QED  BY <1>1, <1>2, <1>6, <2>1, <2>2 DEF StreamsOf
<1>10. sent \subseteq w.enc.live  BY <1>2 DEF SentOf
<1>11. debts \subseteq Cells
  <2>1. \A l \in sent : l.area \subseteq Cells  BY <1>0, <1>10, StreamHas
  <2>. QED  BY <1>0, <1>4, <2>1 DEF Covered
<1>12. shown \in [Cells -> Drawn]
  <2>. SUFFICES ASSUME NEW c \in Cells
                PROVE  (IF c \in Covered(sent) THEN [of |-> FrameOf(w, framed, c), level |-> 0]
                        ELSE w.client.shown[c]) \in Drawn
    BY <1>2, <1>5 DEF ShownOf
  <2>1. CASE c \in Covered(sent)
    <3>1. FrameOf(w, framed, c) \in Shades  BY <1>1, <1>2, <2>1, FrameIs
    <3>2. 0 \in 0 .. EXACT  BY TilesAssumption DEF EXACT
    <3>. QED  BY <2>1, <3>1, <3>2 DEF Drawn
  <2>2. CASE c \notin Covered(sent)  BY <1>0, <2>2
  <2>. QED  BY <2>1, <2>2
<1>13. fault = w.client.fault
  <2>1. ~ Faults(w, framed)  BY <1>1, NoFaults
  <2>. QED  BY <1>0, <1>7, <2>1
<1>14. streams \subseteq [id : Nat, area : SUBSET Cells]
  <2>1. ASSUME NEW s \in streams  PROVE s \in [id : Nat, area : SUBSET Cells]
    <3>1. PICK l \in live : s = [id |-> l.id, area |-> l.area]  BY <1>9, <2>1 DEF Known
    <3>2. l.id \in Nat /\ l.area \in SUBSET Cells  BY <1>9, StreamHas
    <3>. QED  BY <3>1, <3>2
  <2>. QED  BY <2>1
<1>15. PICK e, k : e = w.enc /\ k = w.client  OBVIOUS
<1>16. v = [enc |-> [e EXCEPT !.live = live, !.debts = debts],
            client |-> [k EXCEPT !.shown = shown, !.streams = streams, !.fault = fault]]
  <2>1. w = [enc |-> e, client |-> k] /\ e \in Encoders /\ k \in Clients  BY <1>0, <1>15
  <2>. QED  BY ONLY <1>2, <1>3, <1>4, <1>5, <1>6, <1>7, <1>8, <2>1 DEF Encoders, Clients
<1>17. [e EXCEPT !.live = live, !.debts = debts] \in Encoders
  BY <1>0, <1>9, <1>11, <1>15 DEF Encoders
<1>18. [k EXCEPT !.shown = shown, !.streams = streams, !.fault = fault] \in Clients
  <2>1. fault \in BOOLEAN  BY <1>0, <1>13
  <2>2. k \in Clients  BY <1>0, <1>15
  <2>. QED  BY ONLY <1>12, <1>14, <2>1, <2>2 DEF Clients
<1>19. v \in Work  BY <1>16, <1>17, <1>18 DEF Work
<1>20. v.enc = [e EXCEPT !.live = live, !.debts = debts]
       /\ v.client = [k EXCEPT !.shown = shown, !.streams = streams, !.fault = fault]
  BY <1>16
<1>21. v.enc.live = live /\ v.enc.debts = debts /\ v.enc.mirror = e.mirror
       /\ v.enc.restart = e.restart /\ v.enc.ended = e.ended
  BY <1>0, <1>15, <1>20 DEF Encoders
<1>22. v.enc.cache = e.cache /\ v.enc.stills = e.stills /\ v.enc.moved = e.moved
       /\ v.enc.picture = e.picture /\ v.enc.held = e.held
  BY <1>0, <1>15, <1>20 DEF Encoders
<1>23. v.client.kept = k.kept /\ v.client.fault = fault /\ v.client.streams = streams
       /\ v.client.shown = shown
  BY <1>0, <1>15, <1>20 DEF Clients
<1>24. \A c \in Cells \ Covered(sent) : shown[c] = w.client.shown[c]  BY <1>2, <1>5 DEF ShownOf
<1>25. v.enc.live = LiveOf(w, framed)  BY <1>3, <1>21
<1>26. v.client.streams = Known(v.enc.live)  BY <1>9, <1>21, <1>23
<1>27. /\ v.enc.mirror = w.enc.mirror /\ v.enc.restart = w.enc.restart
       /\ v.enc.ended = w.enc.ended /\ v.enc.cache = w.enc.cache /\ v.enc.stills = w.enc.stills
       /\ v.enc.moved = w.enc.moved /\ v.enc.picture = w.enc.picture /\ v.enc.held = w.enc.held
       /\ v.client.kept = w.client.kept /\ v.client.fault = w.client.fault
  BY <1>13, <1>15, <1>21, <1>22, <1>23
<1>28. /\ v.enc.debts = w.enc.debts \cup Covered(SentOf(w, framed))
       /\ \A c \in Cells \ Covered(SentOf(w, framed)) : v.client.shown[c] = w.client.shown[c]
  BY <1>2, <1>4, <1>21, <1>23, <1>24
<1>. QED  BY <1>19, <1>25, <1>26, <1>27, <1>28

\* The streams coded leave what holds holding.
LEMMA CodedHolds ==
  ASSUME NEW w, Holds(w), ~ w.enc.restart, w.enc.picture = "held", NEW framed,
         NEW v, v = Coded(w, framed)
  PROVE  /\ Holds(v) /\ ~ v.enc.restart /\ v.enc.picture = "held"
         /\ v.enc.stills = w.enc.stills /\ w.enc.debts \subseteq v.enc.debts
<1>0. w \in Work /\ CacheHolds(w) /\ StreamsHold(w) /\ PictureHolds(w)  BY DEF Holds
<1>1. PICK sent : sent = SentOf(w, framed)  OBVIOUS
<1>2. /\ v \in Work
      /\ v.enc.live = LiveOf(w, framed)
      /\ v.enc.debts = w.enc.debts \cup Covered(sent)
      /\ v.enc.mirror = w.enc.mirror /\ v.enc.restart = w.enc.restart
      /\ v.enc.ended = w.enc.ended /\ v.enc.cache = w.enc.cache /\ v.enc.stills = w.enc.stills
      /\ v.enc.moved = w.enc.moved /\ v.enc.picture = w.enc.picture /\ v.enc.held = w.enc.held
      /\ v.client.kept = w.client.kept /\ v.client.fault = w.client.fault
      /\ v.client.streams = Known(v.enc.live)
      /\ \A c \in Cells \ Covered(sent) : v.client.shown[c] = w.client.shown[c]
  BY <1>0, <1>1, CodedIs
<1>3. CacheHolds(v)  BY <1>0, <1>2, CacheSame
<1>4. PICK live : live = v.enc.live  OBVIOUS
<1>5. /\ Apart(live) /\ \A m \in live : \E l \in w.enc.live : m.area = l.area
  <2>1. Apart(w.enc.live)  BY <1>0 DEF StreamsHold
  <2>2. live = LiveOf(w, framed)  BY <1>2, <1>4
  <2>3. Apart(live) /\ SameStreams(live, w, framed)  BY <1>0, <2>1, <2>2, CodedLive
  <2>. QED  BY <2>3 DEF SameStreams
<1>6. StreamsHold(v)
  <2>1. \A m \in live : m.area \subseteq v.enc.debts /\ m.area \cap DOMAIN v.enc.stills = {}
    BY <1>0, <1>2, <1>5 DEF StreamsHold
  <2>2. v.enc.ended = {}  BY <1>0, <1>2 DEF StreamsHold
  <2>. QED  BY <1>2, <1>4, <1>5, <2>1, <2>2 DEF StreamsHold
<1>7. ASSUME NEW c \in Cells  PROVE PassHolds(v, v.enc.stills, c) /\ Sound(v, v.enc.stills, c)
  <2>1. PassHolds(w, w.enc.stills, c) /\ Sound(w, w.enc.stills, c)  BY <1>0 DEF PictureHolds
  <2>2. w.enc.held[c] = NoneHeld  BY <2>1 DEF PassHolds
  <2>3. PassHolds(v, v.enc.stills, c)  BY <1>2, <2>2 DEF PassHolds
  <2>4. CASE c \in Covered(sent)  BY <1>2, <2>3, <2>4 DEF Sound
  <2>5. CASE c \notin Covered(sent)
    <3>1. v.client.shown[c] = w.client.shown[c]  BY <1>2, <2>5
    <3>2. Sound(v, v.enc.stills, c)  BY <1>2, <2>1, <3>1 DEF Sound, Right, Whole
    <3>. QED  BY <2>3, <3>2
  <2>. QED  BY <2>4, <2>5
<1>8. PictureHolds(v)
  <2>1. ~ v.client.fault /\ v.enc.picture # "lossless"  BY <1>0, <1>2 DEF PictureHolds
  <2>. QED  BY <1>7, <2>1 DEF PictureHolds
<1>. QED  BY <1>2, <1>3, <1>6, <1>8 DEF Holds

-----------------------------------------------------------------------------
(* A tick.                                                                 *)

\* The upgrades of a tick send their tiles.
LEMMA UpgradesSend ==
  ASSUME NEW w \in Work, CacheHolds(w), w.enc.picture = "progressive", NEW pay, pay \subseteq Cells,
         \A c \in pay : Clear(w, c) /\ Settles(w, c)
  PROVE  Sends(InOrder(pay, w, Upgraded), w, pay)
<1>. DEFINE I == [c \in 0 .. Width |-> {v \in Work : Sends(v, w, UpTo(pay, c))}]
<1>0. Width \in Nat /\ Cells = 1 .. Width  BY TilesAssumption DEF Cells
<1>1. w \in I[0]
  <2>1. Sends(w, w, UpTo(pay, 0))  BY UpToIs, SendsNone
  <2>. QED  BY <1>0, <2>1
<1>2. ASSUME NEW c \in Cells, NEW v \in I[c - 1]
      PROVE  (IF c \in pay THEN Upgraded(v, c) ELSE v) \in I[c]
  <2>0. c - 1 \in 0 .. Width /\ c \in 0 .. Width  BY <1>0
  <2>1. v \in Work /\ Sends(v, w, UpTo(pay, c - 1))  BY <2>0
  <2>2. CASE c \notin pay
    <3>1. UpTo(pay, c) = UpTo(pay, c - 1)  BY <2>2, UpToAt
    <3>2. v \in I[c]  BY <2>0, <2>1, <3>1
    <3>. HIDE DEF I
    <3>. QED  BY <2>2, <3>2
  <2>3. CASE c \in pay
    <3>1. PICK u : u = Upgraded(v, c)  OBVIOUS
    <3>2. UpTo(pay, c) = UpTo(pay, c - 1) \cup {c} /\ c \notin UpTo(pay, c - 1)
          /\ UpTo(pay, c - 1) \subseteq Cells
      BY <2>3, UpToAt
    <3>3. Clear(w, c) /\ Settles(w, c)  BY <2>3
    <3>4. Kept(v, w, c) /\ Frame(v, w) /\ CacheHolds(v)  BY <2>1, <3>2 DEF Sends, Made
    <3>5. Clear(v, c)  BY <3>3, <3>4 DEF Clear, Kept, Frame
    <3>6. Settles(v, c)  BY <3>3, <3>4 DEF Settles, Kept, Frame, Right, Whole
    <3>7. v.enc.picture = "progressive"  BY <3>4 DEF Frame
    <3>8. Sends(u, v, {c})  BY <2>1, <3>1, <3>4, <3>5, <3>6, <3>7, UpgradedSends
    <3>9. Sends(u, w, UpTo(pay, c))  BY <2>1, <3>2, <3>8, SendsThen
    <3>10. u \in Work  BY <3>9 DEF Sends, Made
    <3>11. u \in I[c]  BY <2>0, <3>9, <3>10
    <3>. HIDE DEF I
    <3>. QED  BY <2>3, <3>1, <3>11
  <2>. QED  BY <2>2, <2>3
<1>3. \A v \in I[Width] : Sends(v, w, pay)
  <2>1. UpTo(pay, Width) = pay  BY UpToIs
  <2>. QED  BY <1>0, <2>1
<1>. HIDE DEF I
<1>4. InOrder(pay, w, Upgraded) \in I[Width]  BY <1>1, <1>2, UpgradedRuns
<1>. QED  BY <1>3, <1>4

\* Streams that end, with nothing put in their place.
LEMMA EndedHolds ==
  ASSUME NEW w, Holds(w), ~ w.enc.restart, DOMAIN w.enc.stills \subseteq w.enc.debts,
         NEW over, over \subseteq w.enc.live, NEW v, v = EndStreams(w, over, w.enc.live \ over)
  PROVE  /\ Holds(v) /\ ~ v.enc.restart /\ v.enc.picture = w.enc.picture
         /\ DOMAIN v.enc.stills \subseteq v.enc.debts
         /\ w.enc.picture # "held" => DOMAIN v.enc.stills = DOMAIN w.enc.stills
<1>0. w \in Work /\ CacheHolds(w) /\ StreamsHold(w) /\ PictureHolds(w)  BY DEF Holds
<1>1. PICK left : left = w.enc.live \ over  OBVIOUS
<1>2. w.enc.live \subseteq Streams /\ Apart(w.enc.live) /\ w.client.streams = Known(w.enc.live)
      /\ w.enc.ended = {}
  BY <1>0, WorkHas DEF StreamsHold
<1>3. Left(w.enc.live, over, left)
  <2>1. left \subseteq w.enc.live  BY <1>1
  <2>2. Apart(left)  BY <1>2, <2>1, ApartIn
  <2>. QED  BY <1>1, <1>2, <2>2 DEF Left
<1>4. v = EndStreams(w, over, left)  BY <1>1
<1>5. /\ v \in Work /\ Frames(v, w) /\ v.enc.live = left /\ v.client.streams = Known(left)
      /\ DOMAIN v.enc.stills = DOMAIN w.enc.stills \cup (DOMAIN Unsent(over) \ Covered(left))
      /\ DOMAIN Unsent(over) \subseteq Covered(over)
  BY ONLY <1>0, <1>2, <1>3, <1>4, EndIs
<1>6. CacheHolds(v)
  <2>1. v.enc.cache = w.enc.cache /\ v.client.kept = w.client.kept /\ v.enc.picture = w.enc.picture
    BY <1>5 DEF Frames
  <2>. QED  BY <1>0, <1>5, <2>1, CacheSame
<1>7. \A l \in w.enc.live : l.area \subseteq w.enc.debts  BY <1>0 DEF StreamsHold
<1>8. v.enc.debts = w.enc.debts /\ v.enc.picture = w.enc.picture /\ v.enc.restart = w.enc.restart
      /\ v.enc.ended = {} /\ v.enc.held = w.enc.held /\ v.enc.mirror = w.enc.mirror
      /\ v.client.shown = w.client.shown /\ v.client.fault = w.client.fault
  BY <1>2, <1>5 DEF Frames
<1>9. DOMAIN v.enc.stills \subseteq v.enc.debts
  <2>1. Covered(over) \subseteq w.enc.debts  BY <1>7 DEF Covered
  <2>2. DOMAIN w.enc.stills \subseteq w.enc.debts  OBVIOUS
  <2>. QED  BY ONLY <1>5, <1>8, <2>1, <2>2
<1>10. StreamsHold(v)
  <2>1. \A l \in left : l.area \subseteq v.enc.debts  BY <1>1, <1>7, <1>8
  <2>2. \A l \in left : l.area \cap DOMAIN v.enc.stills = {}
    <3>. SUFFICES ASSUME NEW l \in left, NEW c \in l.area, c \in DOMAIN v.enc.stills PROVE FALSE
      OBVIOUS
    <3>1. l \in w.enc.live /\ c \in Covered(left)  BY <1>1 DEF Covered
    <3>2. c \in DOMAIN w.enc.stills  BY <1>5, <3>1
    <3>. QED  BY <1>0, <3>1, <3>2 DEF StreamsHold
  <2>3. Apart(left)  BY <1>3 DEF Left
  <2>4. w.enc.picture # "held" => left = {}  BY <1>0, <1>1 DEF StreamsHold
  <2>. QED  BY <1>5, <1>8, <2>1, <2>2, <2>3, <2>4 DEF StreamsHold
<1>11. ASSUME NEW c \in Cells  PROVE PassHolds(v, v.enc.stills, c) /\ Sound(v, v.enc.stills, c)
  <2>1. PassHolds(w, w.enc.stills, c) /\ Sound(w, w.enc.stills, c)  BY <1>0 DEF PictureHolds
  <2>2. PassHolds(v, v.enc.stills, c)  BY <1>5, <1>8, <2>1 DEF PassHolds
  <2>3. c \in w.enc.debts \/ Right(w, c)
    <3>1. c \in DOMAIN w.enc.stills => c \in w.enc.debts  OBVIOUS
    <3>. QED  BY <2>1, <3>1 DEF Sound
  <2>4. c \in v.enc.debts \/ Right(v, c)  BY <1>8, <2>3 DEF Right, Whole
  <2>. QED  BY <2>2, <2>4 DEF Sound
<1>12. PictureHolds(v)
  <2>1. ~ v.client.fault /\ (v.enc.picture = "lossless" => v.enc.debts = {})
    BY <1>0, <1>8 DEF PictureHolds
  <2>. QED  BY <1>11, <2>1 DEF PictureHolds
<1>13. w.enc.picture # "held" => DOMAIN v.enc.stills = DOMAIN w.enc.stills
  <2>. SUFFICES ASSUME w.enc.picture # "held" PROVE DOMAIN v.enc.stills = DOMAIN w.enc.stills
    OBVIOUS
  <2>1. over = {}  BY <1>0 DEF StreamsHold
  <2>2. Covered(over) = {}  BY <2>1 DEF Covered
  <2>. QED  BY ONLY <1>5, <2>2
<1>. QED  BY <1>5, <1>6, <1>8, <1>9, <1>10, <1>12, <1>13 DEF Holds

\* What a tick settles of the tiles owed.
Paid(w, pay) ==
  IF w.enc.picture = "progressive" THEN InOrder(pay, w, Upgraded)
  ELSE SendRuns(w, RunsOf(pay, {}), [c \in Cells |-> Change(TRUE, Torn)], <<>>)

\* What a tick settles leaves what holds holding.
LEMMA PaidHolds ==
  ASSUME NEW w, Holds(w), ~ w.enc.restart, w.enc.picture # "held" => DOMAIN w.enc.stills = {},
         NEW pay, pay \subseteq w.enc.debts \ Covered(w.enc.live), NEW v, v = Paid(w, pay)
  PROVE  /\ Holds(v) /\ ~ v.enc.restart /\ v.enc.picture = w.enc.picture
         /\ v.enc.stills = w.enc.stills
<1>0. w \in Work /\ CacheHolds(w) /\ StreamsHold(w) /\ PictureHolds(w)  BY DEF Holds
<1>1. w.enc.debts \subseteq Cells /\ pay \subseteq Cells /\ pay \subseteq w.enc.debts
      /\ pay \cap Covered(w.enc.live) = {}
  BY <1>0, WorkHas
<1>2. ASSUME NEW c \in pay  PROVE Clear(w, c)
  <2>1. \A s \in w.client.streams : c \notin s.area
    <3>. SUFFICES ASSUME NEW s \in w.client.streams, c \in s.area PROVE FALSE  OBVIOUS
    <3>1. PICK l \in w.enc.live : s.area = l.area  BY <1>0 DEF StreamsHold, Known
    <3>. QED  BY <1>1, <1>2, <3>1 DEF Covered
  <2>2. PassHolds(w, w.enc.stills, c)  BY <1>0, <1>1, <1>2 DEF PictureHolds
  <2>. QED  BY <2>1, <2>2 DEF Clear, PassHolds
<1>3. Sends(v, w, pay)
  <2>1. CASE w.enc.picture = "progressive"
    <3>1. v = InOrder(pay, w, Upgraded)  BY <2>1 DEF Paid
    <3>2. ASSUME NEW c \in pay  PROVE Settles(w, c)
      <4>1. PassHolds(w, w.enc.stills, c)  BY <1>0, <1>1, <3>2 DEF PictureHolds
      <4>2. DOMAIN w.enc.stills = {}  BY <2>1
      <4>. QED  BY <1>1, <3>2, <4>1, <4>2 DEF Settles, PassHolds
    <3>3. Sends(InOrder(pay, w, Upgraded), w, pay)  BY <1>0, <1>1, <1>2, <2>1, <3>2, UpgradesSend
    <3>. QED  BY ONLY <3>1, <3>3
  <2>2. CASE w.enc.picture # "progressive"
    <3>1. PICK whole : whole = [c \in Cells |-> Change(TRUE, Torn)]  OBVIOUS
    <3>2. PICK runs : runs = RunsOf(pay, {})  OBVIOUS
    <3>3. PICK stage : stage = <<>>  OBVIOUS
    <3>4. v = SendRuns(w, runs, whole, stage)  BY <2>2, <3>1, <3>2, <3>3 DEF Paid
    <3>5. Runs(runs, pay) /\ InRuns(runs, DOMAIN runs) = pay  BY <1>1, <3>2, RunsAre
    <3>6. Staged(w, pay, stage)  BY <2>2 DEF Staged
    <3>7. ASSUME NEW c \in pay  PROVE Fit(w, whole[c], c)
      <4>1. whole[c] = Change(TRUE, Torn)  BY <1>1, <3>1, <3>7
      <4>2. PICK change : change = Change(TRUE, Torn)  OBVIOUS
      <4>3. change \in [whole : BOOLEAN, from : Shades] /\ change.whole = TRUE
        BY <4>2 DEF Change, Shades
      <4>4. Fit(w, change, c)  BY <1>2, <3>7, <4>3 DEF Fit
      <4>. QED  BY <4>1, <4>2, <4>4
    <3>. QED  BY <1>0, <1>1, <3>4, <3>5, <3>6, <3>7, SendRunsSends
  <2>. QED  BY <2>1, <2>2
<1>4. \A c \in Cells \ pay : PassHolds(w, w.enc.stills, c) /\ Sound(w, w.enc.stills, c)
  BY <1>0 DEF PictureHolds
<1>5. (w.enc.picture = "lossless" => w.enc.debts = {}) /\ ~ w.client.fault
  BY <1>0 DEF PictureHolds
<1>6. v \in Work /\ CacheHolds(v) /\ StreamsHold(v) /\ PictureHolds(v) /\ Frame(v, w)
  BY <1>0, <1>1, <1>3, <1>4, <1>5, SendHolds
<1>. QED  BY <1>6 DEF Frame, Holds

-----------------------------------------------------------------------------
(* The steps of an update once the desktop is read.                        *)

\* The invariant, of the pair.
LEMMA InvIs == TilesInv <=> Holds(Pair) /\ PhaseHolds(Pair, phase)
BY DEF TilesInv, Holds

\* What holds of the pair a step makes is the invariant after it.
LEMMA BecomesInv ==
  ASSUME NEW v, Holds(v), PhaseHolds(v, phase'), Becomes(v)  PROVE TilesInv'
<1>1. v = [enc |-> v.enc, client |-> v.client]  BY DEF Holds, Work
<1>2. Pair' = v  BY <1>1 DEF Pair, Becomes
<1>3. v \in Work /\ CacheHolds(v) /\ StreamsHold(v) /\ PictureHolds(v)  BY DEF Holds
<1>4. Pair' \in Work /\ CacheHolds(Pair') /\ StreamsHold(Pair') /\ PictureHolds(Pair')
      /\ PhaseHolds(Pair', phase')
  BY <1>2, <1>3
<1>. QED  BY <1>4 DEF TilesInv

\* The pair.
LEMMA PairIs == Pair.enc = enc /\ Pair.client = client
BY DEF Pair

\* The stills sent, and what comes after.
LEMMA SentInv ==
  ASSUME TilesInv, ~ enc.restart,
         NEW cuts \in SUBSET (DOMAIN enc.stills \ {1}), NEW stage \in Stages,
         NEW runs, runs = RunsOf(DOMAIN enc.stills, cuts), NEW upto, NEW opens,
         Becomes(SendStills(Pair, runs, upto, opens, stage)),
         phase' \in {"round", "tick", "again", "between"},
         phase' \in {"round", "again"} => enc.picture = "held"
  PROVE  TilesInv'
<1>1. PICK w : w = Pair  OBVIOUS
<1>2. w.enc = enc /\ Holds(w)  BY <1>1, InvIs, PairIs
<1>3. PICK v : v = SendStills(w, runs, upto, opens, stage)  OBVIOUS
<1>4. Staged(w, DOMAIN w.enc.stills, stage)  BY <1>2 DEF Stages, Staged
<1>5. ~ w.enc.restart /\ runs = RunsOf(DOMAIN w.enc.stills, cuts)  BY <1>2
<1>s. AllSent(v, w)  BY ONLY <1>2, <1>3, <1>4, <1>5, SendStillsHolds
<1>6. Holds(v) /\ ~ v.enc.restart /\ v.enc.picture = w.enc.picture /\ DOMAIN v.enc.stills = {}
  BY <1>s DEF AllSent
<1>7. PhaseHolds(v, phase')  BY <1>2, <1>6 DEF PhaseHolds
<1>8. Becomes(v)  BY <1>1, <1>3
<1>. QED  BY <1>6, <1>7, <1>8, BecomesInv

\* The stills of an update keep the invariant.
LEMMA StillsKeep == TilesInv /\ Stills => TilesInv'
<1>. SUFFICES ASSUME TilesInv, Stills PROVE TilesInv'  OBVIOUS
<1>1. phase = "stills"  BY DEF Stills
<1>2. PICK cuts \in SUBSET (DOMAIN enc.stills \ {1}), stage \in Stages :
        LET runs == RunsOf(DOMAIN enc.stills, cuts) IN
        \E upto \in DOMAIN runs \cup {Width}, opens \in BOOLEAN :
          /\ DOMAIN FirstOf(runs, upto) = DOMAIN runs => ~ opens
          /\ enc.picture # "held" => upto = Width
          /\ Becomes(SendStills(Pair, runs, upto, opens, stage))
          /\ phase' = IF enc.picture = "held" THEN "round" ELSE "tick"
          /\ UNCHANGED <<changes, restarts>>
  BY DEF Stills, SendOwed
<1>3. PICK runs : runs = RunsOf(DOMAIN enc.stills, cuts)  OBVIOUS
<1>4. PICK upto \in DOMAIN runs \cup {Width}, opens \in BOOLEAN :
        /\ Becomes(SendStills(Pair, runs, upto, opens, stage))
        /\ phase' = IF enc.picture = "held" THEN "round" ELSE "tick"
  BY <1>2, <1>3
<1>5. ~ enc.restart  BY <1>1, InvIs, PairIs DEF PhaseHolds
<1>6. phase' \in {"round", "tick", "again", "between"}
      /\ (phase' \in {"round", "again"} => enc.picture = "held")
  BY <1>4
<1>. QED  BY <1>3, <1>4, <1>5, <1>6, SentInv

\* What a tick ended, sent as stills, keeps the invariant.
LEMMA RestKeeps == TilesInv /\ Rest => TilesInv'
<1>. SUFFICES ASSUME TilesInv, Rest PROVE TilesInv'  OBVIOUS
<1>1. phase = "rest"  BY DEF Rest
<1>2. PICK cuts \in SUBSET (DOMAIN enc.stills \ {1}), stage \in Stages :
        LET runs == RunsOf(DOMAIN enc.stills, cuts) IN
        \E upto \in DOMAIN runs \cup {Width}, opens \in BOOLEAN :
          /\ Becomes(SendStills(Pair, runs, upto, opens, stage))
          /\ phase' = IF AsRegion(Pair, runs, upto, opens) THEN "again" ELSE "between"
  BY DEF Rest, SendOwed
<1>3. PICK runs : runs = RunsOf(DOMAIN enc.stills, cuts)  OBVIOUS
<1>4. PICK upto \in DOMAIN runs \cup {Width}, opens \in BOOLEAN :
        /\ Becomes(SendStills(Pair, runs, upto, opens, stage))
        /\ phase' = IF AsRegion(Pair, runs, upto, opens) THEN "again" ELSE "between"
  BY <1>2, <1>3
<1>5. ~ enc.restart  BY <1>1, InvIs, PairIs DEF PhaseHolds
<1>6. AsRegion(Pair, runs, upto, opens) => enc.picture = "held"  BY PairIs DEF AsRegion
<1>7. phase' \in {"round", "tick", "again", "between"}
      /\ (phase' \in {"round", "again"} => enc.picture = "held")
  BY <1>4, <1>6
<1>. QED  BY <1>3, <1>4, <1>5, <1>7, SentInv

\* A round of streams keeps the invariant.
LEMMA RoundKeeps == TilesInv /\ Round => TilesInv'
<1>. SUFFICES ASSUME TilesInv, Round PROVE TilesInv'  OBVIOUS
<1>1. PICK w : w = Pair  OBVIOUS
<1>2. w.enc = enc /\ Holds(w) /\ PhaseHolds(w, phase)  BY <1>1, InvIs, PairIs
<1>3. phase \in {"round", "again"} /\ phase' \in {"tick", "between"}  BY DEF Round
<1>4. ~ w.enc.restart /\ w.enc.picture = "held" /\ DOMAIN w.enc.stills = {}
  BY <1>2, <1>3 DEF PhaseHolds
<1>5. PICK wanted \in Layouts, idle \in SUBSET {l.id : l \in enc.live}, skip \in BOOLEAN :
        LET laid == Laid(enc.live, wanted) IN
          \E stay \in IF skip THEN {{}} ELSE Staying(laid, idle) :
            LET tuned == IF skip THEN Pair ELSE Retuned(Pair, laid, stay) IN
            \E framed \in SUBSET {l.id : l \in {m \in tuned.enc.live : m.dirty}} :
              Becomes(Coded(tuned, framed))
  BY DEF Round
<1>6. PICK laid : laid = Laid(w.enc.live, wanted)  OBVIOUS
<1>7. PICK stay \in IF skip THEN {{}} ELSE Staying(laid, idle) :
        LET tuned == IF skip THEN w ELSE Retuned(w, laid, stay) IN
        \E framed \in SUBSET {l.id : l \in {m \in tuned.enc.live : m.dirty}} :
          Becomes(Coded(tuned, framed))
  BY <1>1, <1>2, <1>5, <1>6
<1>8. PICK tuned : tuned = IF skip THEN w ELSE Retuned(w, laid, stay)  OBVIOUS
<1>9. PICK framed : Becomes(Coded(tuned, framed))  BY <1>7, <1>8
<1>10. /\ Holds(tuned) /\ ~ tuned.enc.restart /\ tuned.enc.picture = "held"
       /\ DOMAIN tuned.enc.stills \subseteq tuned.enc.debts
  <2>1. CASE skip
    <3>1. tuned = w  BY <1>8, <2>1
    <3>2. DOMAIN w.enc.stills \subseteq w.enc.debts  BY <1>4
    <3>. QED  BY <1>2, <1>4, <3>1, <3>2
  <2>2. CASE ~ skip
    <3>1. tuned = Retuned(w, laid, stay) /\ stay \in Staying(laid, idle)  BY <1>7, <1>8, <2>2
    <3>. QED  BY ZenonT(60), <1>2, <1>4, <1>6, <3>1, RetunedHolds
  <2>. QED  BY <2>1, <2>2
<1>11. PICK v : v = Coded(tuned, framed)  OBVIOUS
<1>12. /\ Holds(v) /\ ~ v.enc.restart /\ v.enc.picture = "held"
       /\ v.enc.stills = tuned.enc.stills /\ tuned.enc.debts \subseteq v.enc.debts
  BY <1>10, <1>11, CodedHolds
<1>13. DOMAIN v.enc.stills \subseteq v.enc.debts  BY <1>10, <1>12
<1>14. PhaseHolds(v, phase')  BY <1>3, <1>12, <1>13 DEF PhaseHolds
<1>15. Becomes(v)  BY <1>9, <1>11
<1>. QED  BY <1>12, <1>14, <1>15, BecomesInv

\* A tick keeps the invariant.
LEMMA TickKeeps == TilesInv /\ Tick => TilesInv'
<1>. SUFFICES ASSUME TilesInv, Tick PROVE TilesInv'  OBVIOUS
<1>1. PICK w : w = Pair  OBVIOUS
<1>2. w.enc = enc /\ Holds(w) /\ PhaseHolds(w, phase)  BY <1>1, InvIs, PairIs
<1>3. phase = "tick" /\ phase' = IF DOMAIN enc'.stills = {} THEN "between" ELSE "rest"
  BY DEF Tick
<1>4. ~ w.enc.restart /\ DOMAIN w.enc.stills \subseteq w.enc.debts
      /\ (w.enc.picture # "held" => DOMAIN w.enc.stills = {})
  BY <1>2, <1>3 DEF PhaseHolds
<1>5. PICK over \in SUBSET enc.live :
        LET ended == EndStreams(Pair, over, enc.live \ over)
            ready == ended.enc.debts \ Covered(ended.enc.live)
            whole == [c \in Cells |-> Change(TRUE, Torn)]
        IN  \E pay \in SUBSET ready :
              Becomes(IF enc.picture = "progressive"
                      THEN InOrder(pay, ended, Upgraded)
                      ELSE SendRuns(ended, RunsOf(pay, {}), whole, <<>>))
  BY DEF Tick
<1>6. PICK ended : ended = EndStreams(w, over, w.enc.live \ over)  OBVIOUS
<1>7. PICK pay \in SUBSET (ended.enc.debts \ Covered(ended.enc.live)) :
        Becomes(IF enc.picture = "progressive" THEN InOrder(pay, ended, Upgraded)
                ELSE SendRuns(ended, RunsOf(pay, {}), [c \in Cells |-> Change(TRUE, Torn)], <<>>))
  BY <1>1, <1>2, <1>5, <1>6
<1>8. /\ Holds(ended) /\ ~ ended.enc.restart /\ ended.enc.picture = w.enc.picture
      /\ DOMAIN ended.enc.stills \subseteq ended.enc.debts
      /\ w.enc.picture # "held" => DOMAIN ended.enc.stills = DOMAIN w.enc.stills
  BY <1>2, <1>4, <1>6, EndedHolds
<1>9. PICK v : v = Paid(ended, pay)  OBVIOUS
<1>10. ended.enc.picture # "held" => DOMAIN ended.enc.stills = {}  BY <1>4, <1>8
<1>11. /\ Holds(v) /\ ~ v.enc.restart /\ v.enc.picture = ended.enc.picture
       /\ v.enc.stills = ended.enc.stills
  BY <1>7, <1>8, <1>9, <1>10, PaidHolds
<1>12. Becomes(v)  BY <1>2, <1>7, <1>8, <1>9 DEF Paid
<1>13. phase' = IF DOMAIN v.enc.stills = {} THEN "between" ELSE "rest"  BY <1>3, <1>12 DEF Becomes
<1>14. PhaseHolds(v, phase')  BY <1>10, <1>11, <1>13 DEF PhaseHolds
<1>. QED  BY <1>11, <1>12, <1>14, BecomesInv

-----------------------------------------------------------------------------
(* A read: the ENDs owed, and the copy.                                    *)

\* The ENDs owed go to the client.
Told(w) == [w EXCEPT !.client.streams = {s \in @ : s.id \notin w.enc.ended}, !.enc.ended = {}]

\* The ENDs told, field by field.
LEMMA ToldIs ==
  ASSUME NEW w \in Work, NEW v, v = Told(w)
  PROVE  /\ v \in Work /\ v.enc.ended = {} /\ v.enc.mirror = w.enc.mirror
         /\ v.enc.restart = w.enc.restart /\ v.enc.live = w.enc.live /\ v.enc.debts = w.enc.debts
         /\ v.enc.cache = w.enc.cache /\ v.enc.stills = w.enc.stills
         /\ v.enc.picture = w.enc.picture /\ v.enc.held = w.enc.held
         /\ v.client.shown = w.client.shown /\ v.client.kept = w.client.kept
         /\ v.client.fault = w.client.fault
         /\ v.client.streams = {s \in w.client.streams : s.id \notin w.enc.ended}
<1>1. /\ w = [enc |-> w.enc, client |-> w.client] /\ w.enc \in Encoders /\ w.client \in Clients
      /\ w.client.streams \subseteq [id : Nat, area : SUBSET Cells]
  BY WorkHas DEF Work
<1>2. PICK none : none = {}  OBVIOUS
<1>3. PICK streams : streams = {s \in w.client.streams : s.id \notin w.enc.ended}  OBVIOUS
<1>4. streams \subseteq [id : Nat, area : SUBSET Cells]  BY <1>1, <1>3
<1>5. PICK e, k : e = w.enc /\ k = w.client  OBVIOUS
<1>6. w = [enc |-> e, client |-> k] /\ e \in Encoders /\ k \in Clients  BY <1>1, <1>5
<1>7. v = [enc |-> [e EXCEPT !.ended = none], client |-> [k EXCEPT !.streams = streams]]
  <2>1. streams = {s \in k.streams : s.id \notin e.ended}  BY <1>3, <1>5
  <2>2. v = Told(w)  OBVIOUS
  <2>. QED  BY ONLY <1>2, <1>6, <2>1, <2>2 DEF Told, Encoders, Clients
<1>8. [e EXCEPT !.ended = none] \in Encoders  BY <1>2, <1>6 DEF Encoders
<1>9. [k EXCEPT !.streams = streams] \in Clients  BY <1>4, <1>6 DEF Clients
<1>10. v \in Work  BY <1>7, <1>8, <1>9 DEF Work
<1>11. v.enc = [e EXCEPT !.ended = none] /\ v.client = [k EXCEPT !.streams = streams]  BY <1>7
<1>12. v.enc.ended = none /\ v.enc.mirror = e.mirror /\ v.enc.restart = e.restart
       /\ v.enc.live = e.live /\ v.enc.debts = e.debts
  BY <1>6, <1>11 DEF Encoders
<1>13. v.enc.cache = e.cache /\ v.enc.stills = e.stills /\ v.enc.picture = e.picture
       /\ v.enc.held = e.held
  BY <1>6, <1>11 DEF Encoders
<1>14. v.client.shown = k.shown /\ v.client.kept = k.kept /\ v.client.fault = k.fault
       /\ v.client.streams = streams
  BY <1>6, <1>11 DEF Clients
<1>. QED  BY <1>2, <1>3, <1>5, <1>10, <1>12, <1>13, <1>14

\* What a copy may be, or none.
Copying(w, k, new) ==
  /\ k.whole \subseteq Cells /\ k.edge \subseteq Cells /\ k.whole \cap k.edge = {}
  /\ \A c \in k.whole \cup k.edge : c + k.by \in Cells /\ c \notin Covered(w.enc.live)
  /\ \A c \in k.whole : new[c] = w.enc.mirror[c + k.by]
  /\ w.enc.restart => k.whole = {} /\ k.edge = {}

\* The lesser of two levels is one of them.
LEMMA MinIs ==
  ASSUME NEW a \in Int, NEW b \in Int  PROVE Min({a, b}) \in {a, b}
<1>1. \E x \in {a, b} : \A y \in {a, b} : x =< y
  <2>1. CASE a =< b  BY <2>1
  <2>2. CASE ~ (a =< b)  BY <2>2
  <2>. QED  BY <2>1, <2>2
<1>. QED  BY <1>1 DEF Min

\* What the client shows of the tiles once a copy is drawn, and what is owed.
CopiedShown(w, k, new, rest) ==
  LET was == w.client.shown
      right(c) == was[c].of = w.enc.mirror[c]
      part(c) == [of |-> IF ~ (right(c) /\ right(c + k.by)) THEN Torn
                         ELSE IF c \in rest THEN was[c].of ELSE new[c],
                  level |-> Min({was[c].level, was[c + k.by].level})]
  IN  [c \in Cells |-> IF c \in k.whole THEN was[c + k.by]
                       ELSE IF c \in k.edge THEN part(c) ELSE was[c]]

CopiedDebts(w, k) ==
  IF \E c \in k.whole \cup k.edge : c + k.by \in w.enc.debts
  THEN w.enc.debts \cup (k.whole \cup k.edge) ELSE w.enc.debts \ k.whole

CopiedHeld(w, k) ==
  [c \in Cells |-> IF c \in k.whole \cup k.edge THEN NoneHeld ELSE w.enc.held[c]]

\* What is told of them, tile by tile.
ShownCopied(shown, w, k, new, rest) ==
  /\ shown \in [Cells -> Drawn]
  /\ \A c \in k.whole : shown[c] = w.client.shown[c + k.by]
  /\ \A c \in Cells \ (k.whole \cup k.edge) : shown[c] = w.client.shown[c]
  /\ \A c \in k.edge :
       /\ shown[c].level \in {w.client.shown[c].level, w.client.shown[c + k.by].level}
       /\ (/\ w.client.shown[c].of = w.enc.mirror[c]
           /\ w.client.shown[c + k.by].of = w.enc.mirror[c + k.by]) =>
            shown[c].of = IF c \in rest THEN w.client.shown[c].of ELSE new[c]

\* A copy shows of a whole tile its source, and of a part no worse than both were.
LEMMA CopiedShownIs ==
  ASSUME NEW w \in Work, NEW new \in [Cells -> Shades], NEW k, Copying(w, k, new), NEW rest,
         NEW shown, shown = CopiedShown(w, k, new, rest)
  PROVE  ShownCopied(shown, w, k, new, rest)
<1>. DEFINE was == w.client.shown
            right(c) == was[c].of = w.enc.mirror[c]
            of(c) == IF ~ (right(c) /\ right(c + k.by)) THEN Torn
                     ELSE IF c \in rest THEN was[c].of ELSE new[c]
            level(c) == Min({was[c].level, was[c + k.by].level})
            part(c) == [of |-> of(c), level |-> level(c)]
            at(c) == IF c \in k.whole THEN was[c + k.by] ELSE IF c \in k.edge THEN part(c) ELSE was[c]
<1>1. was \in [Cells -> Drawn]  BY WorkHas
<1>2. /\ k.whole \subseteq Cells /\ k.edge \subseteq Cells /\ k.whole \cap k.edge = {}
      /\ \A c \in k.whole \cup k.edge : c + k.by \in Cells
  BY DEF Copying
<1>3. shown = [c \in Cells |-> at(c)]  BY DEF CopiedShown
<1>4. \A c \in Cells : was[c] \in Drawn /\ was[c].of \in Shades /\ was[c].level \in 0 .. EXACT
                       /\ was[c].level \in Int
  BY <1>1 DEF Drawn
<1>. HIDE DEF was
<1>5. ASSUME NEW c \in k.edge
      PROVE  part(c) \in Drawn /\ part(c).of = of(c) /\ part(c).level \in {was[c].level, was[c + k.by].level}
  <2>1. c \in Cells /\ c + k.by \in Cells  BY <1>2
  <2>2. level(c) \in {was[c].level, was[c + k.by].level}  BY <1>4, <2>1, MinIs
  <2>3. level(c) \in 0 .. EXACT  BY <1>4, <2>1, <2>2
  <2>4. of(c) \in Shades
    <3>1. Torn \in Shades /\ was[c].of \in Shades /\ new[c] \in Shades  BY <1>4, <2>1 DEF Shades
    <3>. QED  BY <3>1
  <2>. HIDE DEF of, level
  <2>. QED  BY <2>2, <2>3, <2>4 DEF Drawn
<1>. HIDE DEF part
<1>6. \A c \in Cells : at(c) \in Drawn
  <2>. SUFFICES ASSUME NEW c \in Cells PROVE at(c) \in Drawn  OBVIOUS
  <2>1. CASE c \in k.whole  BY <1>2, <1>4, <2>1
  <2>2. CASE c \in k.edge  BY <1>2, <1>5, <2>2
  <2>3. CASE c \notin k.whole \cup k.edge  BY <1>4, <2>3
  <2>. QED  BY <2>1, <2>2, <2>3
<1>7. \A c \in k.whole : at(c) = was[c + k.by]  OBVIOUS
<1>8. \A c \in Cells \ (k.whole \cup k.edge) : at(c) = was[c]  OBVIOUS
<1>9. \A c \in k.edge : at(c) = part(c)  BY <1>2
<1>. HIDE DEF at
<1>10. shown \in [Cells -> Drawn] /\ \A c \in Cells : shown[c] = at(c)  BY <1>3, <1>6
<1>11. \A c \in k.whole : shown[c] = was[c + k.by]  BY <1>2, <1>7, <1>10
<1>12. \A c \in Cells \ (k.whole \cup k.edge) : shown[c] = was[c]  BY <1>8, <1>10
<1>13. ASSUME NEW c \in k.edge
       PROVE  /\ shown[c].level \in {was[c].level, was[c + k.by].level}
              /\ (was[c].of = w.enc.mirror[c] /\ was[c + k.by].of = w.enc.mirror[c + k.by]) =>
                   shown[c].of = IF c \in rest THEN was[c].of ELSE new[c]
  <2>1. shown[c] = part(c)  BY <1>2, <1>9, <1>10
  <2>2. (right(c) /\ right(c + k.by)) => of(c) = IF c \in rest THEN was[c].of ELSE new[c]
    OBVIOUS
  <2>. HIDE DEF of
  <2>. QED  BY <1>5, <2>1, <2>2
<1>. QED  BY <1>10, <1>11, <1>12, <1>13 DEF was, ShownCopied

\* A copy, field by field.
LEMMA CopiedIs ==
  ASSUME NEW w \in Work, NEW new \in [Cells -> Shades], NEW k, Copying(w, k, new), NEW rest,
         NEW v, v = Copied(w, k, new, rest)
  PROVE  /\ v \in Work /\ v.enc.ended = w.enc.ended /\ v.enc.mirror = w.enc.mirror
         /\ v.enc.live = w.enc.live /\ v.enc.debts = CopiedDebts(w, k)
         /\ v.enc.cache = w.enc.cache /\ v.enc.stills = w.enc.stills
         /\ v.enc.picture = w.enc.picture /\ v.enc.held = CopiedHeld(w, k)
         /\ v.client.shown = CopiedShown(w, k, new, rest)
         /\ v.client.kept = w.client.kept /\ v.client.streams = w.client.streams
         /\ v.client.fault = w.client.fault
<1>1. /\ w = [enc |-> w.enc, client |-> w.client] /\ w.enc \in Encoders /\ w.client \in Clients
      /\ w.enc.debts \subseteq Cells /\ w.enc.held \in [Cells -> Passes]
  BY WorkHas DEF Work
<1>2. PICK shown : shown = CopiedShown(w, k, new, rest)  OBVIOUS
<1>3. PICK debts : debts = CopiedDebts(w, k)  OBVIOUS
<1>4. PICK held : held = CopiedHeld(w, k)  OBVIOUS
<1>5. PICK moved : moved = (k # NoCopy)  OBVIOUS
<1>6. shown \in [Cells -> Drawn]  
  <2>1. ShownCopied(shown, w, k, new, rest)  BY <1>2, CopiedShownIs
  <2>. QED  BY <2>1 DEF ShownCopied
<1>7. debts \subseteq Cells
  <2>1. k.whole \subseteq Cells /\ k.edge \subseteq Cells  BY DEF Copying
  <2>. QED  BY <1>1, <1>3, <2>1 DEF CopiedDebts
<1>8. held \in [Cells -> Passes]
  <2>1. NoneHeld \in Passes  BY TilesAssumption DEF NoneHeld, Passes, Shades
  <2>. QED  BY <1>1, <1>4, <2>1 DEF CopiedHeld
<1>9. moved \in BOOLEAN  BY <1>5
<1>10. v = [w EXCEPT !.client.shown = CopiedShown(w, k, new, rest),
                     !.enc.held = CopiedHeld(w, k), !.enc.debts = CopiedDebts(w, k),
                     !.enc.moved = k # NoCopy]
  BY DEF Copied, CopiedShown, CopiedHeld, CopiedDebts
<1>11. PICK e, l : e = w.enc /\ l = w.client  OBVIOUS
<1>12. w = [enc |-> e, client |-> l] /\ e \in Encoders /\ l \in Clients  BY <1>1, <1>11
<1>13. v = [enc |-> [e EXCEPT !.held = held, !.debts = debts, !.moved = moved],
            client |-> [l EXCEPT !.shown = shown]]
  BY ONLY <1>2, <1>3, <1>4, <1>5, <1>10, <1>12 DEF Encoders, Clients
<1>14. [e EXCEPT !.held = held, !.debts = debts, !.moved = moved] \in Encoders
  BY ONLY <1>7, <1>8, <1>9, <1>12 DEF Encoders
<1>15. [l EXCEPT !.shown = shown] \in Clients  BY ONLY <1>6, <1>12 DEF Clients
<1>16. v \in Work  BY <1>13, <1>14, <1>15 DEF Work
<1>17. v.enc = [e EXCEPT !.held = held, !.debts = debts, !.moved = moved]
       /\ v.client = [l EXCEPT !.shown = shown]
  BY <1>13
<1>18. v.enc.ended = e.ended /\ v.enc.mirror = e.mirror /\ v.enc.live = e.live /\ v.enc.debts = debts
  BY ONLY <1>12, <1>17 DEF Encoders
<1>19. v.enc.cache = e.cache /\ v.enc.stills = e.stills /\ v.enc.picture = e.picture
       /\ v.enc.held = held
  BY ONLY <1>12, <1>17 DEF Encoders
<1>20. v.client.shown = shown /\ v.client.kept = l.kept /\ v.client.fault = l.fault
       /\ v.client.streams = l.streams
  BY ONLY <1>12, <1>17 DEF Clients
<1>. QED  BY <1>2, <1>3, <1>4, <1>11, <1>16, <1>18, <1>19, <1>20

-----------------------------------------------------------------------------
(* A read: the damage.                                                     *)

DueIn(S, changed) == [c \in S \cap DOMAIN changed |-> changed[c]]

DueTo(l, changed) ==
  [l EXCEPT !.pending = Both(@, DueIn(l.area, changed)),
            !.dirty = @ \/ l.area \cap DOMAIN changed # {}]

DueLive(live, changed) == {DueTo(l, changed) : l \in live}

PartOf(due, S, changed) ==
  /\ due \in Parts /\ DOMAIN due = S \cap DOMAIN changed
  /\ \A c \in DOMAIN due : due[c] = changed[c]

\* The damage of some tiles.
LEMMA DueInIs ==
  ASSUME NEW S, NEW changed \in Parts, NEW due, due = DueIn(S, changed)
  PROVE  PartOf(due, S, changed)
<1>1. PICK T \in SUBSET Cells : changed \in [T -> [whole : BOOLEAN, from : Shades]]  BY DEF Parts
<1>2. PICK U : U = S \cap T  OBVIOUS
<1>3. DOMAIN changed = T /\ U \in SUBSET Cells /\ due = [c \in U |-> changed[c]]
  BY <1>1, <1>2 DEF DueIn
<1>4. due \in [U -> [whole : BOOLEAN, from : Shades]]  BY <1>1, <1>2, <1>3
<1>5. due \in Parts  BY <1>3, <1>4 DEF Parts
<1>. QED  BY <1>2, <1>3, <1>5 DEF PartOf

\* A stream told of its damage is the same stream.
LEMMA DueToIs ==
  ASSUME NEW l \in Streams, Shaped(l), NEW changed \in Parts, NEW m, m = DueTo(l, changed)
  PROVE  /\ m \in Streams /\ Shaped(m) /\ m.id = l.id /\ m.area = l.area
         /\ m.started = l.started
<1>1. /\ l.area \subseteq Cells /\ l.pending \in Parts /\ l.dirty \in BOOLEAN
  BY StreamHas
<1>2. PICK due : due = DueIn(l.area, changed)  OBVIOUS
<1>3. due \in Parts /\ DOMAIN due \subseteq l.area
  <2>1. PICK S : S = l.area  OBVIOUS
  <2>2. due = DueIn(S, changed) /\ changed \in Parts  BY <1>2, <2>1
  <2>3. PartOf(due, S, changed)  BY ONLY <2>2, DueInIs
  <2>. QED  BY <2>1, <2>3 DEF PartOf
<1>4. PICK p : p = Both(l.pending, due)  OBVIOUS
<1>5. p \in Parts /\ DOMAIN p = DOMAIN l.pending \cup DOMAIN due  BY <1>1, <1>3, <1>4, BothIs
<1>6. PICK d : d = (l.dirty \/ l.area \cap DOMAIN changed # {})  OBVIOUS
<1>7. d \in BOOLEAN  BY <1>6
<1>8. m = [l EXCEPT !.pending = p, !.dirty = d]  BY <1>2, <1>4, <1>6 DEF DueTo
<1>9. /\ m \in Streams /\ m.id = l.id /\ m.area = l.area /\ m.pic = l.pic /\ m.pending = p
      /\ m.started = l.started
  <2>1. PICK pics : pics = UNION {[T -> Shades] : T \in SUBSET Cells}  OBVIOUS
  <2>2. Streams = [id : Nat, area : SUBSET Cells, pic : pics, pending : Parts, dirty : BOOLEAN,
                   started : BOOLEAN]
    BY <2>1 DEF Streams
  <2>3. l \in Streams  OBVIOUS
  <2>. QED  BY ONLY <1>5, <1>7, <1>8, <2>2, <2>3
<1>10. Shaped(m)  BY <1>3, <1>5, <1>9 DEF Shaped
<1>. QED  BY <1>9, <1>10

\* The streams told are apart as they were, and known as they were.
LEMMA DueLiveIs ==
  ASSUME NEW old, old \subseteq Streams, Apart(old), NEW changed \in Parts,
         NEW live, live = DueLive(old, changed)
  PROVE  /\ live \subseteq Streams /\ Apart(live) /\ Known(live) = Known(old)
         /\ \A m \in live : \E l \in old : m.area = l.area
<1>. DEFINE of(l) == DueTo(l, changed)
<1>1. ASSUME NEW l \in old
      PROVE  /\ of(l) \in Streams /\ Shaped(of(l)) /\ of(l).id = l.id /\ of(l).area = l.area
             /\ of(l).started = l.started
  <2>1. l \in Streams /\ Shaped(l)  BY DEF Apart
  <2>. QED  BY <2>1, DueToIs
<1>2. live = {of(l) : l \in old}  BY DEF DueLive
<1>. HIDE DEF of
<1>3. live \subseteq Streams  BY <1>1, <1>2
<1>4. IsFiniteSet(live)
  <2>. DEFINE f == [l \in old |-> of(l)]
  <2>1. f \in Surjection(old, live)  BY <1>2 DEF Surjection
  <2>2. IsFiniteSet(old)  BY DEF Apart
  <2>. HIDE DEF f
  <2>. QED  BY <2>1, <2>2, FS_Surjection
<1>5. ASSUME NEW p \in live, NEW q \in live, p.id = q.id \/ p.area \cap q.area # {}
      PROVE  p = q
  <2>1. PICK l \in old : p = of(l)  BY <1>2
  <2>2. PICK m \in old : q = of(m)  BY <1>2
  <2>3. l = m  BY <1>1, <1>5, <2>1, <2>2 DEF Apart
  <2>. QED  BY <2>1, <2>2, <2>3
<1>6. \A m \in live : Shaped(m)  BY <1>1, <1>2
<1>7. Apart(live)  BY <1>4, <1>5, <1>6 DEF Apart
<1>8. \A m \in live : \E l \in old : m.id = l.id /\ m.area = l.area /\ m.started = l.started
  BY <1>1, <1>2
<1>9. \A l \in old : \E m \in live : m.id = l.id /\ m.area = l.area /\ m.started = l.started
  <2>1. \A l \in old : of(l) \in live  BY <1>2
  <2>. QED  BY <1>1, <2>1
<1>10. \A L : \A s : s \in Known(L) <=> \E m \in L : m.started /\ s = [id |-> m.id, area |-> m.area]
  BY DEF Known
<1>11. ASSUME NEW s \in Known(live)  PROVE s \in Known(old)
  <2>1. PICK m \in live : m.started /\ s = [id |-> m.id, area |-> m.area]  BY <1>10
  <2>2. PICK l \in old : m.id = l.id /\ m.area = l.area /\ m.started = l.started  BY <1>8
  <2>3. l.started /\ s = [id |-> l.id, area |-> l.area]  BY <2>1, <2>2
  <2>. QED  BY <1>10, <2>3
<1>12. ASSUME NEW s \in Known(old)  PROVE s \in Known(live)
  <2>1. PICK l \in old : l.started /\ s = [id |-> l.id, area |-> l.area]  BY <1>10
  <2>2. PICK m \in live : m.id = l.id /\ m.area = l.area /\ m.started = l.started  BY <1>9
  <2>3. m.started /\ s = [id |-> m.id, area |-> m.area]  BY <2>1, <2>2
  <2>. QED  BY <1>10, <2>3
<1>13. Known(live) = Known(old)  BY <1>11, <1>12
<1>. QED  BY <1>3, <1>7, <1>8, <1>13

\* What the damage leaves.
DamagedFrom(v, w, new, changed) ==
  /\ v \in Work /\ v.enc.mirror = new /\ v.enc.restart = FALSE
  /\ v.enc.ended = w.enc.ended /\ v.enc.debts = w.enc.debts /\ v.enc.cache = w.enc.cache
  /\ v.enc.picture = w.enc.picture /\ v.enc.held = w.enc.held /\ v.client = w.client
  /\ Apart(v.enc.live) /\ Known(v.enc.live) = Known(w.enc.live)
  /\ \A m \in v.enc.live : \E l \in w.enc.live : m.area = l.area
  /\ DOMAIN v.enc.stills = DOMAIN w.enc.stills \cup (DOMAIN changed \ Covered(w.enc.live))
  /\ \A c \in DOMAIN changed \ (Covered(w.enc.live) \cup DOMAIN w.enc.stills) :
       v.enc.stills[c] = changed[c]

\* The damage, field by field.
LEMMA DamagedIs ==
  ASSUME NEW w \in Work, Apart(w.enc.live), NEW new \in [Cells -> Shades], NEW changed \in Parts,
         NEW v, v = Damaged(w, new, changed)
  PROVE  DamagedFrom(v, w, new, changed)
<1>1. /\ w = [enc |-> w.enc, client |-> w.client] /\ w.enc \in Encoders /\ w.client \in Clients
      /\ w.enc.live \subseteq Streams /\ w.enc.stills \in Parts
  BY WorkHas DEF Work
<1>2. PICK live : live = DueLive(w.enc.live, changed)  OBVIOUS
<1>3. PICK due : due = DueIn(Cells \ Covered(w.enc.live), changed)  OBVIOUS
<1>4. PICK stills : stills = Both(w.enc.stills, due)  OBVIOUS
<1>5. PICK no : no = FALSE  OBVIOUS
<1>6. /\ live \subseteq Streams /\ Apart(live) /\ Known(live) = Known(w.enc.live)
      /\ \A m \in live : \E l \in w.enc.live : m.area = l.area
  BY <1>1, <1>2, DueLiveIs
<1>7. /\ due \in Parts /\ DOMAIN due = DOMAIN changed \ Covered(w.enc.live)
      /\ \A c \in DOMAIN due : due[c] = changed[c]
  <2>1. DOMAIN changed \subseteq Cells  BY DEF Parts
  <2>2. PICK S : S = Cells \ Covered(w.enc.live)  OBVIOUS
  <2>3. due = DueIn(S, changed) /\ changed \in Parts  BY <1>3, <2>2
  <2>4. PartOf(due, S, changed)  BY ONLY <2>3, DueInIs
  <2>. QED  BY <2>1, <2>2, <2>4 DEF PartOf
<1>8. /\ stills \in Parts /\ DOMAIN stills = DOMAIN w.enc.stills \cup DOMAIN due
      /\ \A c \in DOMAIN due \ DOMAIN w.enc.stills : stills[c] = due[c]
  <2>1. PICK old : old = w.enc.stills  OBVIOUS
  <2>2. old \in Parts /\ due \in Parts /\ stills = Both(old, due)  BY <1>1, <1>4, <1>7, <2>1
  <2>3. /\ stills \in Parts /\ DOMAIN stills = DOMAIN old \cup DOMAIN due
        /\ \A c \in DOMAIN due \ DOMAIN old : stills[c] = due[c]
    <3>1. /\ Both(old, due) \in Parts /\ DOMAIN Both(old, due) = DOMAIN old \cup DOMAIN due
          /\ \A c \in DOMAIN due \ DOMAIN old : Both(old, due)[c] = due[c]
      BY ONLY <2>2, BothIs
    <3>. QED  BY ONLY <2>2, <3>1
  <2>. QED  BY <2>1, <2>3
<1>9. PICK e, k : e = w.enc /\ k = w.client  OBVIOUS
<1>10. w = [enc |-> e, client |-> k] /\ e \in Encoders /\ k \in Clients  BY <1>1, <1>9
<1>11. v = [w EXCEPT !.enc.mirror = new, !.enc.restart = FALSE,
                     !.enc.live = DueLive(@, changed),
                     !.enc.stills = Both(@, DueIn(Cells \ Covered(w.enc.live), changed))]
  BY DEF Damaged, DueLive, DueTo, DueIn
<1>12. v = [enc |-> [e EXCEPT !.mirror = new, !.restart = no, !.live = live, !.stills = stills],
            client |-> k]
  BY ONLY <1>2, <1>3, <1>4, <1>5, <1>9, <1>10, <1>11 DEF Encoders
<1>13. [e EXCEPT !.mirror = new, !.restart = no, !.live = live, !.stills = stills] \in Encoders
  <2>1. new \in [Cells -> Shades] /\ no \in BOOLEAN  BY <1>5
  <2>. QED  BY ONLY <1>6, <1>8, <1>10, <2>1 DEF Encoders
<1>14. v \in Work  BY <1>10, <1>12, <1>13 DEF Work
<1>15. v.enc = [e EXCEPT !.mirror = new, !.restart = no, !.live = live, !.stills = stills]
       /\ v.client = k
  BY <1>12
<1>16. v.enc.mirror = new /\ v.enc.restart = no /\ v.enc.live = live /\ v.enc.stills = stills
       /\ v.enc.ended = e.ended
  BY ONLY <1>10, <1>15 DEF Encoders
<1>17. v.enc.debts = e.debts /\ v.enc.cache = e.cache /\ v.enc.picture = e.picture
       /\ v.enc.held = e.held
  BY ONLY <1>10, <1>15 DEF Encoders
<1>18. \A c \in DOMAIN changed \ (Covered(w.enc.live) \cup DOMAIN w.enc.stills) :
         v.enc.stills[c] = changed[c]
  BY <1>7, <1>8, <1>16
<1>19. DOMAIN v.enc.stills = DOMAIN w.enc.stills \cup (DOMAIN changed \ Covered(w.enc.live))
  BY <1>7, <1>8, <1>16
<1>. QED  BY <1>5, <1>6, <1>9, <1>14, <1>15, <1>16, <1>17, <1>18, <1>19 DEF DamagedFrom

-----------------------------------------------------------------------------
(* A read, the whole of it.                                                *)

DifferOf(w, new) == IF w.enc.restart THEN Cells ELSE {c \in Cells : new[c] # w.enc.mirror[c]}

ChangedOf(w, k, parts, left) ==
  [c \in left |-> Change(c \notin parts \cup k.edge, w.enc.mirror[c])]

\* What a tile changed from is what the mirror had.
LEMMA ChangedIs ==
  ASSUME NEW w \in Work, NEW k, NEW parts, NEW left, left \subseteq Cells,
         NEW changed, changed = ChangedOf(w, k, parts, left)
  PROVE  /\ changed \in Parts /\ DOMAIN changed = left
         /\ \A c \in left : /\ changed[c].from = w.enc.mirror[c]
                            /\ c \notin parts \cup k.edge => changed[c].whole
<1>. DEFINE at(c) == Change(c \notin parts \cup k.edge, w.enc.mirror[c])
<1>1. ASSUME NEW c \in left
      PROVE  /\ at(c) \in [whole : BOOLEAN, from : Shades] /\ at(c).from = w.enc.mirror[c]
             /\ at(c).whole = (c \notin parts \cup k.edge)
  <2>1. w.enc.mirror[c] \in Shades  BY WorkHas
  <2>. QED  BY <2>1 DEF Change
<1>2. changed = [c \in left |-> at(c)]  BY DEF ChangedOf
<1>. HIDE DEF at
<1>3. changed \in [left -> [whole : BOOLEAN, from : Shades]] /\ DOMAIN changed = left
      /\ \A c \in left : changed[c] = at(c)
  BY <1>1, <1>2
<1>4. changed \in Parts  BY <1>3 DEF Parts
<1>. QED  BY <1>1, <1>3, <1>4

\* Between updates what is not in debt is right.
LEMMA BetweenRight ==
  ASSUME NEW w, Holds(w), PhaseHolds(w, "between"), ~ w.enc.restart, NEW c \in Cells \ w.enc.debts
  PROVE  Right(w, c)
<1>1. Sound(w, w.enc.stills, c)  BY DEF Holds, PictureHolds
<1>2. DOMAIN w.enc.stills \subseteq w.enc.debts  BY DEF PhaseHolds
<1>. QED  BY <1>1, <1>2 DEF Sound

\* The fields a read leaves.
ReadFields(v, w, k, new, rest, changed) ==
  /\ v \in Work /\ v.enc.mirror = new /\ v.enc.restart = FALSE /\ v.enc.ended = {}
  /\ v.enc.cache = w.enc.cache /\ v.enc.picture = w.enc.picture /\ v.client.kept = w.client.kept
  /\ v.client.fault = w.client.fault
  /\ v.client.streams = {s \in w.client.streams : s.id \notin w.enc.ended}
  /\ v.enc.debts = CopiedDebts(w, k) /\ v.enc.held = CopiedHeld(w, k)
  /\ v.client.shown = CopiedShown(w, k, new, rest)
  /\ Apart(v.enc.live) /\ Known(v.enc.live) = Known(w.enc.live)
  /\ \A m \in v.enc.live : \E l \in w.enc.live : m.area = l.area
  /\ DOMAIN v.enc.stills = DOMAIN w.enc.stills \cup (DOMAIN changed \ Covered(w.enc.live))
  /\ \A c \in DOMAIN changed \ (Covered(w.enc.live) \cup DOMAIN w.enc.stills) :
       v.enc.stills[c] = changed[c]

\* A read, field by field.
LEMMA ReadFieldsAre ==
  ASSUME NEW w \in Work, Apart(w.enc.live), NEW new \in [Cells -> Shades],
         NEW k, Copying(w, k, new), NEW rest, NEW changed \in Parts,
         NEW v, v = Damaged(Copied(Told(w), k, new, rest), new, changed)
  PROVE  ReadFields(v, w, k, new, rest, changed)
<1>1. PICK o : o = Told(w)  OBVIOUS
<1>2. /\ o \in Work /\ o.enc.ended = {} /\ o.enc.mirror = w.enc.mirror
      /\ o.enc.restart = w.enc.restart /\ o.enc.live = w.enc.live /\ o.enc.debts = w.enc.debts
      /\ o.enc.cache = w.enc.cache /\ o.enc.stills = w.enc.stills
      /\ o.enc.picture = w.enc.picture /\ o.enc.held = w.enc.held
      /\ o.client.shown = w.client.shown /\ o.client.kept = w.client.kept
      /\ o.client.fault = w.client.fault
      /\ o.client.streams = {s \in w.client.streams : s.id \notin w.enc.ended}
  BY <1>1, ToldIs
<1>3. Copying(o, k, new)  BY <1>2 DEF Copying
<1>4. PICK u : u = Copied(o, k, new, rest)  OBVIOUS
<1>5. /\ u \in Work /\ u.enc.ended = o.enc.ended /\ u.enc.mirror = o.enc.mirror
      /\ u.enc.live = o.enc.live /\ u.enc.debts = CopiedDebts(o, k)
      /\ u.enc.cache = o.enc.cache /\ u.enc.stills = o.enc.stills
      /\ u.enc.picture = o.enc.picture /\ u.enc.held = CopiedHeld(o, k)
      /\ u.client.shown = CopiedShown(o, k, new, rest)
      /\ u.client.kept = o.client.kept /\ u.client.streams = o.client.streams
      /\ u.client.fault = o.client.fault
  BY <1>2, <1>3, <1>4, CopiedIs
<1>6. CopiedDebts(o, k) = CopiedDebts(w, k)  BY <1>2 DEF CopiedDebts
<1>7. CopiedHeld(o, k) = CopiedHeld(w, k)  BY <1>2 DEF CopiedHeld
<1>8. CopiedShown(o, k, new, rest) = CopiedShown(w, k, new, rest)  BY <1>2 DEF CopiedShown
<1>9. u.enc.live = w.enc.live /\ Apart(u.enc.live)  BY <1>2, <1>5
<1>10. v = Damaged(u, new, changed)  BY <1>1, <1>4
<1>11. /\ v \in Work /\ v.enc.mirror = new /\ v.enc.restart = FALSE
       /\ v.enc.ended = u.enc.ended /\ v.enc.debts = u.enc.debts /\ v.enc.cache = u.enc.cache
       /\ v.enc.picture = u.enc.picture /\ v.enc.held = u.enc.held /\ v.client = u.client
       /\ Apart(v.enc.live) /\ Known(v.enc.live) = Known(u.enc.live)
       /\ \A m \in v.enc.live : \E l \in u.enc.live : m.area = l.area
       /\ DOMAIN v.enc.stills =
            DOMAIN u.enc.stills \cup (DOMAIN changed \ Covered(u.enc.live))
       /\ \A c \in DOMAIN changed \ (Covered(u.enc.live) \cup DOMAIN u.enc.stills) :
            v.enc.stills[c] = changed[c]
  <2>1. DamagedFrom(v, u, new, changed)  BY <1>5, <1>9, <1>10, DamagedIs
  <2>. QED  BY <2>1 DEF DamagedFrom
<1>12. u.enc.stills = w.enc.stills  BY <1>2, <1>5
<1>13. /\ v.enc.ended = {} /\ v.enc.debts = CopiedDebts(w, k) /\ v.enc.cache = w.enc.cache
       /\ v.enc.picture = w.enc.picture /\ v.enc.held = CopiedHeld(w, k)
  BY <1>2, <1>5, <1>6, <1>7, <1>11
<1>14. /\ v.client.kept = w.client.kept /\ v.client.fault = w.client.fault
       /\ v.client.streams = {s \in w.client.streams : s.id \notin w.enc.ended}
       /\ v.client.shown = CopiedShown(w, k, new, rest)
  BY <1>2, <1>5, <1>8, <1>11
<1>15. /\ \A m \in v.enc.live : \E l \in w.enc.live : m.area = l.area
       /\ DOMAIN v.enc.stills = DOMAIN w.enc.stills \cup (DOMAIN changed \ Covered(w.enc.live))
       /\ \A c \in DOMAIN changed \ (Covered(w.enc.live) \cup DOMAIN w.enc.stills) :
            v.enc.stills[c] = changed[c]
       /\ Known(v.enc.live) = Known(w.enc.live)
  BY <1>9, <1>11, <1>12
<1>. QED  BY <1>11, <1>13, <1>14, <1>15 DEF ReadFields

\* A read leaves what holds holding: of each tile not in debt, what is wrong is owed
\* as a still.
LEMMA ReadHolds ==
  ASSUME NEW w, Holds(w), PhaseHolds(w, "between"), NEW new \in [Cells -> Colours],
         NEW k, Copying(w, k, new), NEW differ, differ = DifferOf(w, new),
         NEW parts, parts \subseteq IF w.enc.restart THEN {} ELSE differ,
         NEW rest, rest \subseteq k.edge \cap differ,
         NEW left, left = differ \ (k.whole \cup (k.edge \ rest)),
         NEW changed, changed = ChangedOf(w, k, parts, left),
         NEW v, v = Damaged(Copied(Told(w), k, new, rest), new, changed)
  PROVE  Holds(v) /\ ~ v.enc.restart
<1>0. w \in Work /\ CacheHolds(w) /\ StreamsHold(w) /\ PictureHolds(w)  BY DEF Holds
<1>1. /\ new \in [Cells -> Shades] /\ left \subseteq Cells /\ differ \subseteq Cells
  BY DEF Shades, DifferOf
<1>2. /\ changed \in Parts /\ DOMAIN changed = left
      /\ \A c \in left : /\ changed[c].from = w.enc.mirror[c]
                         /\ c \notin parts \cup k.edge => changed[c].whole
  BY <1>0, <1>1, ChangedIs
<1>3. Apart(w.enc.live)  BY <1>0 DEF StreamsHold
<1>4. ReadFields(v, w, k, new, rest, changed)  BY <1>0, <1>1, <1>2, <1>3, ReadFieldsAre
<1>5. /\ k.whole \subseteq Cells /\ k.edge \subseteq Cells /\ k.whole \cap k.edge = {}
      /\ \A c \in k.whole \cup k.edge : c + k.by \in Cells /\ c \notin Covered(w.enc.live)
      /\ \A c \in k.whole : new[c] = w.enc.mirror[c + k.by]
      /\ w.enc.restart => k.whole = {} /\ k.edge = {}
  BY DEF Copying
<1>6. PICK drawn : drawn = k.whole \cup k.edge  OBVIOUS
<1>7. PICK owed : owed = \E c \in drawn : c + k.by \in w.enc.debts  OBVIOUS
<1>8. /\ v.enc.debts = IF owed THEN w.enc.debts \cup drawn ELSE w.enc.debts \ k.whole
  BY <1>4, <1>6, <1>7 DEF ReadFields, CopiedDebts
<1>9. \A c \in Cells : v.enc.held[c] = IF c \in drawn THEN NoneHeld ELSE w.enc.held[c]

  <2>1. PICK held : held = v.enc.held  OBVIOUS
  <2>2. held = CopiedHeld(w, k)  BY <1>4, <2>1 DEF ReadFields
  <2>3. held = [c \in Cells |-> IF c \in drawn THEN NoneHeld ELSE w.enc.held[c]]
    BY ONLY <1>6, <2>2 DEF CopiedHeld
  <2>4. \A c \in Cells : held[c] = IF c \in drawn THEN NoneHeld ELSE w.enc.held[c]
    BY ONLY <2>3
  <2>. QED  BY <2>1, <2>4
<1>10. PICK shown : shown = v.client.shown  OBVIOUS
<1>11. /\ \A c \in k.whole : shown[c] = w.client.shown[c + k.by]
       /\ \A c \in Cells \ drawn : shown[c] = w.client.shown[c]
       /\ \A c \in k.edge :
            /\ shown[c].level \in {w.client.shown[c].level, w.client.shown[c + k.by].level}
            /\ (/\ w.client.shown[c].of = w.enc.mirror[c]
                /\ w.client.shown[c + k.by].of = w.enc.mirror[c + k.by]) =>
                 shown[c].of = IF c \in rest THEN w.client.shown[c].of ELSE new[c]
  <2>1. shown = CopiedShown(w, k, new, rest)  BY <1>4, <1>10 DEF ReadFields
  <2>2. ShownCopied(shown, w, k, new, rest)  BY <1>0, <1>1, <2>1, CopiedShownIs
  <2>3. /\ \A c \in k.whole : shown[c] = w.client.shown[c + k.by]
        /\ \A c \in Cells \ (k.whole \cup k.edge) : shown[c] = w.client.shown[c]
    BY ONLY <2>2 DEF ShownCopied
  <2>4. \A c \in k.edge :
          /\ shown[c].level \in {w.client.shown[c].level, w.client.shown[c + k.by].level}
          /\ (/\ w.client.shown[c].of = w.enc.mirror[c]
              /\ w.client.shown[c + k.by].of = w.enc.mirror[c + k.by]) =>
               shown[c].of = IF c \in rest THEN w.client.shown[c].of ELSE new[c]
    BY ONLY <2>2 DEF ShownCopied
  <2>. QED  BY <1>6, <2>3, <2>4
<1>12. /\ v \in Work /\ v.enc.mirror = new /\ v.enc.restart = FALSE /\ v.enc.ended = {}
       /\ v.enc.cache = w.enc.cache /\ v.enc.picture = w.enc.picture /\ v.client.kept = w.client.kept
       /\ v.client.fault = w.client.fault
       /\ v.client.streams = {s \in w.client.streams : s.id \notin w.enc.ended}
  BY <1>4 DEF ReadFields
<1>13. /\ Apart(v.enc.live) /\ Known(v.enc.live) = Known(w.enc.live)
       /\ \A m \in v.enc.live : \E l \in w.enc.live : m.area = l.area
  BY <1>4 DEF ReadFields
<1>14. PICK C : C = Covered(w.enc.live)  OBVIOUS
<1>15. /\ DOMAIN v.enc.stills = DOMAIN w.enc.stills \cup (left \ C)
       /\ \A c \in left \ (C \cup DOMAIN w.enc.stills) : v.enc.stills[c] = changed[c]
  BY <1>2, <1>4, <1>14 DEF ReadFields
<1>16. /\ C \subseteq w.enc.debts /\ C \cap DOMAIN w.enc.stills = {} /\ C \cap drawn = {}
       /\ \A l \in w.enc.live : l.area \subseteq C
  <2>1. \A l \in w.enc.live : l.area \subseteq w.enc.debts /\ l.area \cap DOMAIN w.enc.stills = {}
    BY <1>0 DEF StreamsHold
  <2>2. \A c \in drawn : c \notin C  BY <1>5, <1>6, <1>14
  <2>. QED  BY <1>14, <2>1, <2>2 DEF Covered
<1>17. DOMAIN w.enc.stills \subseteq w.enc.debts
       /\ (w.enc.restart => w.enc.live = {} /\ w.enc.debts = {} /\ DOMAIN w.enc.stills = {})
  BY NoneIs DEF PhaseHolds
<1>18. \A c : Whole(v, shown[c]) <=> Whole(w, shown[c])  BY <1>12 DEF Whole
<1>19. CacheHolds(v)  BY <1>0, <1>12, CacheSame
<1>20. StreamsHold(v)
  <2>1. ASSUME NEW m \in v.enc.live
        PROVE  m.area \subseteq v.enc.debts /\ m.area \cap DOMAIN v.enc.stills = {}
    <3>1. m.area \subseteq C  BY <1>13, <1>16
    <3>2. C \subseteq v.enc.debts  BY <1>6, <1>8, <1>16
    <3>3. C \cap DOMAIN v.enc.stills = {}  BY <1>15, <1>16
    <3>. QED  BY <3>1, <3>2, <3>3
  <2>2. v.enc.picture # "held" => v.enc.live = {}
    <3>1. v.enc.picture # "held" => w.enc.live = {}  BY <1>0, <1>12 DEF StreamsHold
    <3>. QED  BY <1>13, <3>1
  <2>3. v.client.streams = Known(v.enc.live)
    <3>1. CASE w.enc.restart
      <4>1. {s.id : s \in w.client.streams} = w.enc.ended  BY <1>0, <3>1 DEF StreamsHold
      <4>2. v.client.streams = {}  BY <1>12, <4>1
      <4>3. Known(w.enc.live) = {}  BY <1>17, <3>1 DEF Known
      <4>. QED  BY <1>13, <4>2, <4>3
    <3>2. CASE ~ w.enc.restart
      <4>1. w.enc.ended = {} /\ w.client.streams = Known(w.enc.live)  BY <1>0, <3>2 DEF StreamsHold
      <4>2. v.client.streams = w.client.streams  BY <1>12, <4>1
      <4>. QED  BY <1>13, <4>1, <4>2
    <3>. QED  BY <3>1, <3>2
  <2>. QED  BY <1>12, <1>13, <2>1, <2>2, <2>3 DEF StreamsHold
<1>21. ASSUME NEW c \in Cells, c \notin drawn, c \notin C, c \in differ
       PROVE  c \in DOMAIN v.enc.stills
  <2>1. c \in left  BY <1>6, <1>21
  <2>. QED  BY <1>15, <1>21, <2>1
<1>22. ASSUME NEW c \in Cells  PROVE PassHolds(v, v.enc.stills, c)
  <2>. SUFFICES ASSUME v.enc.held[c] # NoneHeld PROVE PassHolds(v, v.enc.stills, c)  BY DEF PassHolds
  <2>1. c \notin drawn /\ v.enc.held[c] = w.enc.held[c]  BY <1>9
  <2>2. PassHolds(w, w.enc.stills, c)  BY <1>0 DEF PictureHolds
  <2>3. /\ w.enc.picture = "progressive" /\ w.enc.held[c].stage \in 0 .. FULL
        /\ w.client.shown[c] = [of |-> w.enc.held[c].of, level |-> w.enc.held[c].stage]
        /\ c \in DOMAIN w.enc.stills \/ w.enc.held[c].of = w.enc.mirror[c]
    BY <2>1, <2>2 DEF PassHolds
  <2>4. w.enc.live = {}  BY <1>0, <2>3 DEF StreamsHold
  <2>5. c \notin C  BY <1>14, <2>4 DEF Covered
  <2>6. shown[c] = w.client.shown[c]  BY <1>11, <2>1
  <2>7. c \in DOMAIN v.enc.stills \/ w.enc.held[c].of = new[c]
    <3>1. CASE c \in differ  BY <1>21, <2>1, <2>5, <3>1
    <3>2. CASE c \notin differ
      <4>1. new[c] = w.enc.mirror[c]  BY <3>2 DEF DifferOf
      <4>. QED  BY <1>15, <2>3, <4>1
    <3>. QED  BY <3>1, <3>2
  <2>. QED  BY <1>10, <1>12, <2>1, <2>3, <2>6, <2>7 DEF PassHolds
<1>23. ASSUME NEW c \in Cells  PROVE Sound(v, v.enc.stills, c)
  <2>1. CASE w.enc.restart
    <3>1. drawn = {} /\ C = {} /\ differ = Cells /\ parts = {} /\ k.edge = {}
      BY <1>5, <1>6, <1>14, <1>17, <2>1 DEF DifferOf, Covered
    <3>2. c \in left /\ c \in DOMAIN v.enc.stills /\ v.enc.stills[c] = changed[c]
      BY <1>6, <1>15, <1>17, <2>1, <3>1
    <3>3. v.enc.stills[c].whole  BY <1>2, <3>1, <3>2
    <3>. QED  BY <3>2, <3>3 DEF Sound
  <2>2. CASE ~ w.enc.restart
    <3>1. \A x \in Cells \ w.enc.debts : Right(w, x)  BY <2>2, BetweenRight
    <3>2. CASE c \in v.enc.debts  BY <3>2 DEF Sound
    <3>3. CASE c \notin v.enc.debts
      <4>1. c \notin C  BY <1>6, <1>8, <1>16, <3>3
      <4>2. CASE c \in k.whole
        <5>1. ~ owed  BY <1>6, <1>8, <3>3, <4>2
        <5>2. c + k.by \in Cells \ w.enc.debts  BY <1>5, <1>6, <1>7, <4>2, <5>1
        <5>3. Right(w, c + k.by)  BY <3>1, <5>2
        <5>4. shown[c] = w.client.shown[c + k.by] /\ new[c] = w.enc.mirror[c + k.by]
          BY <1>5, <1>11, <4>2
        <5>5. Right(v, c)  BY <1>10, <1>12, <1>18, <5>3, <5>4 DEF Right
        <5>. QED  BY <5>5 DEF Sound
      <4>3. CASE c \in k.edge
        <5>1. ~ owed  BY <1>6, <1>8, <3>3, <4>3
        <5>2. c \notin w.enc.debts  BY <1>5, <1>8, <3>3, <4>3, <5>1
        <5>3. c + k.by \in Cells \ w.enc.debts  BY <1>5, <1>6, <1>7, <4>3, <5>1
        <5>4. Right(w, c) /\ Right(w, c + k.by)  BY <3>1, <5>2, <5>3
        <5>5. /\ w.client.shown[c].of = w.enc.mirror[c]
              /\ w.client.shown[c + k.by].of = w.enc.mirror[c + k.by]
              /\ Whole(w, w.client.shown[c]) /\ Whole(w, w.client.shown[c + k.by])
          BY <5>4 DEF Right
        <5>6. Whole(v, shown[c])  BY <1>11, <1>18, <4>3, <5>5 DEF Whole
        <5>7. shown[c].of = IF c \in rest THEN w.enc.mirror[c] ELSE new[c]
          BY <1>11, <4>3, <5>5
        <5>8. CASE c \notin rest
          <6>1. Right(v, c)  BY <1>10, <1>12, <5>6, <5>7, <5>8 DEF Right
          <6>. QED  BY <6>1 DEF Sound
        <5>9. CASE c \in rest
          <6>1. c \in left  BY <1>5, <4>3, <5>9
          <6>2. c \in DOMAIN v.enc.stills /\ v.enc.stills[c] = changed[c]
            BY <1>15, <1>17, <4>1, <5>2, <6>1
          <6>3. v.enc.stills[c].from = w.enc.mirror[c]  BY <1>2, <6>1, <6>2
          <6>4. shown[c].of = w.enc.mirror[c]  BY <5>7, <5>9
          <6>. QED  BY <1>10, <5>6, <6>2, <6>3, <6>4 DEF Sound
        <5>. QED  BY <5>8, <5>9
      <4>4. CASE c \notin drawn
        <5>1. c \notin w.enc.debts  BY <1>6, <1>8, <3>3, <4>4
        <5>2. Right(w, c)  BY <3>1, <5>1
        <5>3. shown[c] = w.client.shown[c]  BY <1>11, <4>4
        <5>4. shown[c].of = w.enc.mirror[c] /\ Whole(v, shown[c])
          BY <1>18, <5>2, <5>3 DEF Right
        <5>5. CASE c \notin differ
          <6>1. new[c] = w.enc.mirror[c]  BY <2>2, <5>5 DEF DifferOf
          <6>2. Right(v, c)  BY <1>10, <1>12, <5>4, <6>1 DEF Right
          <6>. QED  BY <6>2 DEF Sound
        <5>6. CASE c \in differ
          <6>1. c \in left  BY <1>6, <4>4, <5>6
          <6>2. c \in DOMAIN v.enc.stills /\ v.enc.stills[c] = changed[c]
            BY <1>15, <1>17, <4>1, <5>1, <6>1
          <6>3. v.enc.stills[c].from = w.enc.mirror[c]  BY <1>2, <6>1, <6>2
          <6>. QED  BY <1>10, <5>4, <6>2, <6>3 DEF Sound
        <5>. QED  BY <5>5, <5>6
      <4>. QED  BY <1>6, <4>2, <4>3, <4>4
    <3>. QED  BY <3>2, <3>3
  <2>. QED  BY <2>1, <2>2
<1>24. PictureHolds(v)
  <2>1. v.enc.picture = "lossless" => v.enc.debts = {}
    <3>1. v.enc.picture = "lossless" => w.enc.debts = {}  BY <1>0, <1>12 DEF PictureHolds
    <3>2. w.enc.debts = {} => v.enc.debts = {}  BY <1>7, <1>8
    <3>. QED  BY <3>1, <3>2
  <2>2. ~ v.client.fault  BY <1>0, <1>12 DEF PictureHolds
  <2>. QED  BY <1>22, <1>23, <2>1, <2>2 DEF PictureHolds
<1>. QED  BY <1>12, <1>19, <1>20, <1>24 DEF Holds

\* The copies the search finds, and none, draw no tile of a stream.
LEMMA CopyIs ==
  ASSUME TilesInv, NEW new, NEW k \in Copies(new) \cup {NoCopy}
  PROVE  Copying(Pair, k, new)
<1>1. CASE k = NoCopy  BY <1>1 DEF NoCopy, Copying
<1>2. CASE k \in Copies(new)
  <2>1. /\ k \in [whole : Boxes, edge : SUBSET Cells, by : (0 - Width) .. Width]
        /\ ~ enc.restart
        /\ {c + k.by : c \in k.whole \cup k.edge} \subseteq Cells
        /\ \A c \in k.edge : c \notin k.whole
        /\ ((k.whole \cup k.edge) \cup {c + k.by : c \in k.whole \cup k.edge}) \cap Covered(enc.live) = {}
        /\ \A c \in k.whole : new[c] = enc.mirror[c + k.by]
    BY <1>2 DEF Copies
  <2>2. k.whole \in Boxes /\ k.edge \subseteq Cells  BY <2>1
  <2>3. k.whole \subseteq Cells  BY <2>2 DEF Boxes, Box
  <2>4. \A c \in k.whole \cup k.edge : c + k.by \in Cells /\ c \notin Covered(enc.live)  BY <2>1
  <2>5. k.whole \cap k.edge = {}  BY <2>1
  <2>. QED  BY <2>1, <2>2, <2>3, <2>4, <2>5, PairIs DEF Copying
<1>. QED  BY <1>1, <1>2

\* A read, whatever it finds, keeps the invariant.
LEMMA ReadAsKeeps ==
  ASSUME TilesInv, phase = "between", NEW new \in [Cells -> Colours], NEW parts,
         NEW k \in Copies(new) \cup {NoCopy}, NEW rest, ReadAs(new, parts, k, rest)
  PROVE  TilesInv'
<1>1. PICK w : w = Pair  OBVIOUS
<1>2. /\ w.enc = enc /\ Holds(w) /\ PhaseHolds(w, "between") /\ Copying(w, k, new)
  BY <1>1, InvIs, PairIs, CopyIs
<1>3. PICK differ : differ = DifferOf(w, new)  OBVIOUS
<1>4. PICK left : left = differ \ (k.whole \cup (k.edge \ rest))  OBVIOUS
<1>5. PICK changed : changed = ChangedOf(w, k, parts, left)  OBVIOUS
<1>6. PICK v : v = Damaged(Copied(Told(w), k, new, rest), new, changed)  OBVIOUS
<1>7. /\ parts \subseteq IF w.enc.restart THEN {} ELSE differ
      /\ rest \subseteq k.edge \cap differ
      /\ Becomes(v) /\ phase' = "stills"
  BY <1>1, <1>2, <1>3, <1>4, <1>5, <1>6 DEF ReadAs, DifferOf, ChangedOf, Told
<1>8. Holds(v) /\ ~ v.enc.restart
  BY ONLY <1>2, <1>3, <1>4, <1>5, <1>6, <1>7, new \in [Cells -> Colours], ReadHolds
<1>9. PhaseHolds(v, phase')  BY <1>7, <1>8 DEF PhaseHolds
<1>. QED  BY <1>7, <1>8, <1>9, BecomesInv

\* A read of a desktop that changed keeps the invariant.
LEMMA ReadKeeps ==
  ASSUME NEW new \in [Cells -> Colours], NEW parts
  PROVE  TilesInv /\ Read(new, parts) => TilesInv'
<1>. SUFFICES ASSUME TilesInv, Read(new, parts) PROVE TilesInv'  OBVIOUS
<1>1. phase = "between"  BY DEF Read
<1>2. PICK k \in Copies(new) \cup {NoCopy} : \E rest \in SUBSET k.edge : ReadAs(new, parts, k, rest)
  BY DEF Read
<1>3. PICK rest : ReadAs(new, parts, k, rest)  BY <1>2
<1>. QED  BY <1>1, <1>3, ReadAsKeeps

\* A read of one that did not keeps the invariant.
LEMMA ReadAgainKeeps == TilesInv /\ ReadAgain => TilesInv'
<1>. SUFFICES ASSUME TilesInv, ReadAgain PROVE TilesInv'  OBVIOUS
<1>1. phase = "between" /\ enc.mirror \in [Cells -> Colours] /\ ReadAs(enc.mirror, {}, NoCopy, {})
  BY DEF ReadAgain
<1>2. PICK new, none : new = enc.mirror /\ none = {}  OBVIOUS
<1>3. phase = "between" /\ new \in [Cells -> Colours] /\ ReadAs(new, none, NoCopy, none)
  BY <1>1, <1>2
<1>4. NoCopy \in Copies(new) \cup {NoCopy}  OBVIOUS
<1>. QED  BY ONLY TilesInv, <1>3, <1>4, ReadAsKeeps

-----------------------------------------------------------------------------
(* What starts the picture over.                                           *)

\* A picture to be sent whole holds with nothing said of it.
LEMMA OverHolds ==
  ASSUME NEW v \in Work, CacheHolds(v), v.enc.restart, v.enc.live = {}, v.enc.debts = {},
         v.enc.stills = <<>>, \A c \in Cells : v.enc.held[c] = NoneHeld,
         {s.id : s \in v.client.streams} = v.enc.ended, ~ v.client.fault
  PROVE  Holds(v) /\ PhaseHolds(v, "between")
<1>1. Apart({})  BY FS_EmptySet DEF Apart
<1>2. StreamsHold(v)  BY <1>1 DEF StreamsHold
<1>3. PictureHolds(v)  BY DEF PictureHolds, PassHolds
<1>4. PhaseHolds(v, "between")  BY NoneIs DEF PhaseHolds
<1>. QED  BY <1>2, <1>3, <1>4 DEF Holds

\* The ids the client decodes, of streams it was told of.
LEMMA KnownIds ==
  ASSUME NEW L  PROVE {s.id : s \in Known(L)} = {l.id : l \in {m \in L : m.started}}
<1>1. \A s : s \in Known(L) <=> \E m \in L : m.started /\ s = [id |-> m.id, area |-> m.area]
  BY DEF Known
<1>2. \A s \in Known(L) : \E m \in L : m.started /\ s.id = m.id  BY <1>1
<1>3. ASSUME NEW m \in L, m.started
      PROVE  \E s \in Known(L) : s.id = m.id
  <2>1. PICK s : s = [id |-> m.id, area |-> m.area]  OBVIOUS
  <2>2. s \in Known(L) /\ s.id = m.id  BY <1>1, <1>3, <2>1
  <2>. QED  BY <2>2
<1>. QED  BY <1>2, <1>3

\* The ids of the streams the client decodes are those told started, or ended.
LEMMA DecodedIs ==
  ASSUME NEW w, Holds(w), PhaseHolds(w, "between")
  PROVE  {s.id : s \in w.client.streams} =
           w.enc.ended \cup {l.id : l \in {m \in w.enc.live : m.started}}
<1>0. StreamsHold(w)  BY DEF Holds
<1>1. CASE w.enc.restart
  <2>1. w.enc.live = {}  BY <1>1 DEF PhaseHolds
  <2>2. {s.id : s \in w.client.streams} = w.enc.ended  BY <1>0, <1>1 DEF StreamsHold
  <2>. QED  BY <2>1, <2>2
<1>2. CASE ~ w.enc.restart
  <2>1. w.enc.ended = {} /\ w.client.streams = Known(w.enc.live)  BY <1>0, <1>2 DEF StreamsHold
  <2>2. {s.id : s \in Known(w.enc.live)} = {l.id : l \in {m \in w.enc.live : m.started}}
    BY KnownIds
  <2>. QED  BY <2>1, <2>2
<1>. QED  BY <1>1, <1>2

Forgot(f, w) ==
  /\ f \in Encoders /\ f.mirror = w.enc.mirror /\ f.restart = TRUE /\ f.live = {}
  /\ f.ended = {s.id : s \in w.client.streams} /\ f.debts = {} /\ f.stills = <<>>
  /\ f.cache = w.enc.cache /\ f.picture = w.enc.picture
  /\ \A c \in Cells : f.held[c] = NoneHeld

\* An encoder that forgot, field by field.
LEMMA ForgottenIs ==
  ASSUME NEW w, Holds(w), PhaseHolds(w, "between"), NEW f, f = Forgotten(w.enc)
  PROVE  Forgot(f, w)
<1>1. w.enc \in Encoders /\ w \in Work  BY DEF Holds, Work
<1>2. PICK e : e = w.enc  OBVIOUS
<1>3. PICK ended : ended = e.ended \cup {l.id : l \in {m \in e.live : m.started}}  OBVIOUS
<1>4. PICK none, stills, yes : none = {} /\ stills = <<>> /\ yes = TRUE  OBVIOUS
<1>5. PICK held : held = [c \in Cells |-> NoneHeld]  OBVIOUS
<1>6. f = [e EXCEPT !.ended = ended, !.live = none, !.debts = none, !.stills = stills,
                    !.restart = yes, !.held = held]
  <2>1. e \in Encoders  BY <1>1, <1>2
  <2>. QED  BY ONLY <1>2, <1>3, <1>4, <1>5, <2>1, f = Forgotten(w.enc) DEF Forgotten, Encoders
<1>7. ended \subseteq Nat
  <2>1. e.ended \subseteq Nat /\ e.live \subseteq Streams  BY <1>1, <1>2, WorkHas
  <2>2. \A l \in e.live : l.id \in Nat  BY <2>1, StreamHas
  <2>. QED  BY <1>3, <2>1, <2>2
<1>8. held \in [Cells -> Passes]
  <2>1. NoneHeld \in Passes  BY TilesAssumption DEF NoneHeld, Passes, Shades
  <2>. QED  BY <1>5, <2>1
<1>9. none \subseteq Streams /\ none \subseteq Cells /\ stills \in Parts /\ yes \in BOOLEAN
  BY <1>4, NoneIs
<1>10. e \in Encoders  BY <1>1, <1>2
<1>11. f \in Encoders  BY ONLY <1>6, <1>7, <1>8, <1>9, <1>10 DEF Encoders
<1>12. f.mirror = e.mirror /\ f.restart = yes /\ f.live = none /\ f.ended = ended /\ f.debts = none
  BY ONLY <1>6, <1>10 DEF Encoders
<1>13. f.stills = stills /\ f.cache = e.cache /\ f.picture = e.picture /\ f.held = held
  BY ONLY <1>6, <1>10 DEF Encoders
<1>14. ended = {s.id : s \in w.client.streams}  BY <1>2, <1>3, DecodedIs
<1>15. \A c \in Cells : f.held[c] = NoneHeld  BY <1>5, <1>13
<1>. QED  BY <1>2, <1>4, <1>11, <1>12, <1>13, <1>14, <1>15 DEF Forgot

BlankShown == [c \in Cells |-> [of |-> Torn, level |-> 0]]

\* A client that shows nothing.
LEMMA BlankIs == BlankShown \in [Cells -> Drawn]
<1>1. [of |-> Torn, level |-> 0] \in Drawn  BY TilesAssumption DEF Drawn, Shades, EXACT
<1>. QED  BY <1>1 DEF BlankShown

\* A restart, of the encoder and the client it leaves.
LEMMA OverInv ==
  ASSUME TilesInv, Restarts, NEW e, NEW k, e \in Encoders, k \in Clients, enc' = e, client' = k,
         NEW v, v = [enc |-> e, client |-> k], CacheHolds(v),
         e.restart, e.live = {}, e.debts = {}, e.stills = <<>>,
         \A c \in Cells : e.held[c] = NoneHeld, {s.id : s \in k.streams} = e.ended, ~ k.fault
  PROVE  TilesInv'
<1>1. v \in Work /\ v.enc = e /\ v.client = k  BY DEF Work
<1>2. Holds(v) /\ PhaseHolds(v, "between")  BY <1>1, OverHolds
<1>3. phase = "between" /\ phase' = phase  BY DEF Restarts
<1>4. Becomes(v)  BY <1>1 DEF Becomes
<1>. QED  BY <1>2, <1>3, <1>4, BecomesInv

\* What a restart finds.
LEMMA Found ==
  ASSUME TilesInv, Restarts, NEW f, f = Forgotten(enc)
  PROVE  /\ f \in Encoders /\ f.restart = TRUE /\ f.live = {} /\ f.debts = {} /\ f.stills = <<>>
         /\ f.ended = {s.id : s \in client.streams} /\ f.cache = enc.cache
         /\ f.picture = enc.picture /\ \A c \in Cells : f.held[c] = NoneHeld
<1>1. PICK w : w = Pair  OBVIOUS
<1>2. w.enc = enc /\ w.client = client /\ Holds(w)  BY <1>1, InvIs, PairIs
<1>3. PhaseHolds(w, "between")
  <2>1. phase = "between"  BY DEF Restarts
  <2>. QED  BY <1>1, <2>1, InvIs
<1>4. f = Forgotten(w.enc)  BY <1>2
<1>5. /\ f \in Encoders /\ f.mirror = w.enc.mirror /\ f.restart = TRUE /\ f.live = {}
      /\ f.ended = {s.id : s \in w.client.streams} /\ f.debts = {} /\ f.stills = <<>>
      /\ f.cache = w.enc.cache /\ f.picture = w.enc.picture
      /\ \A c \in Cells : f.held[c] = NoneHeld
  <2>1. Forgot(f, w)  BY ONLY <1>2, <1>3, <1>4, ForgottenIs
  <2>. QED  BY <2>1 DEF Forgot
<1>. QED  BY <1>2, <1>5

\* What the invariant says of the two.
LEMMA Client ==
  ASSUME TilesInv
  PROVE  enc \in Encoders /\ client \in Clients /\ Pair \in Work /\ CacheHolds(Pair) /\ ~ client.fault
BY PairIs DEF TilesInv, Work, PictureHolds

\* A request for the picture whole keeps the invariant.
LEMMA ForgetKeeps == TilesInv /\ Forget => TilesInv'
<1>. SUFFICES ASSUME TilesInv, Forget PROVE TilesInv'  OBVIOUS
<1>0. Restarts  BY DEF Forget
<1>1. PICK f : f = Forgotten(enc)  OBVIOUS
<1>2. /\ f \in Encoders /\ f.restart = TRUE /\ f.live = {} /\ f.debts = {} /\ f.stills = <<>>
      /\ f.ended = {s.id : s \in client.streams} /\ f.cache = enc.cache
      /\ f.picture = enc.picture /\ \A c \in Cells : f.held[c] = NoneHeld
  BY <1>0, <1>1, Found
<1>3. enc \in Encoders /\ client \in Clients /\ Pair \in Work /\ CacheHolds(Pair) /\ ~ client.fault
  BY Client
<1>4. PICK shown : shown = BlankShown  OBVIOUS
<1>5. PICK k : k = [client EXCEPT !.shown = shown]  OBVIOUS
<1>6. enc' = f /\ client' = k  BY <1>1, <1>4, <1>5 DEF Forget, BlankShown
<1>7. shown \in [Cells -> Drawn]  BY <1>4, BlankIs
<1>8. k \in Clients  BY ONLY <1>3, <1>5, <1>7 DEF Clients
<1>9. k.kept = client.kept /\ k.streams = client.streams /\ k.fault = client.fault
  BY ONLY <1>3, <1>5 DEF Clients
<1>10. PICK v : v = [enc |-> f, client |-> k]  OBVIOUS
<1>11. v \in Work /\ v.enc = f /\ v.client = k  BY <1>2, <1>8, <1>10 DEF Work
<1>12. CacheHolds(v)  BY <1>2, <1>3, <1>9, <1>11, PairIs, CacheSame
<1>13. {s.id : s \in k.streams} = f.ended /\ ~ k.fault  BY <1>2, <1>3, <1>9
<1>. QED  BY <1>0, <1>2, <1>6, <1>8, <1>10, <1>12, <1>13, OverInv

\* A framebuffer with nothing in it keeps the invariant.
LEMMA UnpaintedKeeps == TilesInv /\ Unpainted => TilesInv'
<1>. SUFFICES ASSUME TilesInv, Unpainted PROVE TilesInv'  OBVIOUS
<1>0. Restarts  BY DEF Unpainted
<1>1. PICK f : f = Forgotten(enc)  OBVIOUS
<1>2. /\ f \in Encoders /\ f.restart = TRUE /\ f.live = {} /\ f.debts = {} /\ f.stills = <<>>
      /\ f.ended = {s.id : s \in client.streams} /\ f.cache = enc.cache
      /\ f.picture = enc.picture /\ \A c \in Cells : f.held[c] = NoneHeld
  BY <1>0, <1>1, Found
<1>3. enc \in Encoders /\ client \in Clients /\ Pair \in Work /\ CacheHolds(Pair) /\ ~ client.fault
  BY Client
<1>4. PICK none : none = {}  OBVIOUS
<1>5. PICK e : e = [f EXCEPT !.ended = none]  OBVIOUS
<1>6. {s \in client.streams : s.id \notin f.ended} = none  BY <1>2, <1>4
<1>7. PICK k : k = [client EXCEPT !.streams = none]  OBVIOUS
<1>8. enc' = e /\ client' = k
  <2>1. enc' = e  BY <1>1, <1>4, <1>5 DEF Unpainted
  <2>2. client' = [client EXCEPT !.streams = {s \in client.streams : s.id \notin f.ended}]
    BY ONLY <1>1, <1>3, Unpainted DEF Unpainted, Clients
  <2>. QED  BY <1>6, <1>7, <2>1, <2>2
<1>9. e \in Encoders  BY ONLY <1>2, <1>4, <1>5 DEF Encoders
<1>10. k \in Clients  BY ONLY <1>3, <1>4, <1>7 DEF Clients
<1>11. e.restart = TRUE /\ e.live = {} /\ e.debts = {} /\ e.stills = <<>> /\ e.ended = {}
  BY ONLY <1>2, <1>4, <1>5 DEF Encoders
<1>12. e.cache = enc.cache /\ e.picture = enc.picture /\ e.held = f.held
  BY ONLY <1>2, <1>5 DEF Encoders
<1>13. k.kept = client.kept /\ k.streams = {} /\ k.fault = client.fault
  BY ONLY <1>3, <1>4, <1>7 DEF Clients
<1>14. PICK v : v = [enc |-> e, client |-> k]  OBVIOUS
<1>15. v \in Work /\ v.enc = e /\ v.client = k  BY <1>9, <1>10, <1>14 DEF Work
<1>16. CacheHolds(v)  BY <1>3, <1>12, <1>13, <1>15, PairIs, CacheSame
<1>17. {s.id : s \in k.streams} = e.ended /\ ~ k.fault  BY <1>3, <1>11, <1>13
<1>18. \A c \in Cells : e.held[c] = NoneHeld  BY <1>2, <1>12
<1>. QED  BY <1>0, <1>8, <1>9, <1>10, <1>11, <1>14, <1>16, <1>17, <1>18, OverInv

\* A record of nothing holds.
LEMMA EmptyCache ==
  ASSUME NEW v, v.enc.cache = <<>>
  PROVE  CacheHolds(v)
<1>1. Len(<<>>) = 0  OBVIOUS
<1>2. 1 .. 0 = {}  OBVIOUS
<1>. QED  BY <1>1, <1>2 DEF CacheHolds, CacheGood

\* Nothing, as a record and as what slots keep.
LEMMA NoneKept == <<>> \in Seq(Entries) /\ <<>> \in UNION {[S -> Drawn] : S \in SUBSET (1 .. CACHE_SLOTS)}
<1>1. <<>> \in [{} -> Drawn]
  <2>1. <<>> = [x \in {} |-> x]  OBVIOUS
  <2>2. [x \in {} |-> x] \in [{} -> Drawn]  OBVIOUS
  <2>. QED  BY <2>1, <2>2
<1>2. {} \in SUBSET (1 .. CACHE_SLOTS)  OBVIOUS
<1>3. <<>> \in Seq(Entries)  OBVIOUS
<1>. QED  BY <1>1, <1>2, <1>3

\* A client without its cache keeps the invariant.
LEMMA CacheEmptyKeeps == TilesInv /\ CacheEmpty => TilesInv'
<1>. SUFFICES ASSUME TilesInv, CacheEmpty PROVE TilesInv'  OBVIOUS
<1>0. Restarts  BY DEF CacheEmpty
<1>1. PICK f : f = Forgotten(enc)  OBVIOUS
<1>2. /\ f \in Encoders /\ f.restart = TRUE /\ f.live = {} /\ f.debts = {} /\ f.stills = <<>>
      /\ f.ended = {s.id : s \in client.streams} /\ f.cache = enc.cache
      /\ f.picture = enc.picture /\ \A c \in Cells : f.held[c] = NoneHeld
  BY <1>0, <1>1, Found
<1>3. enc \in Encoders /\ client \in Clients /\ Pair \in Work /\ CacheHolds(Pair) /\ ~ client.fault
  BY Client
<1>4. PICK none : none = <<>>  OBVIOUS
<1>5. PICK e : e = [f EXCEPT !.cache = none]  OBVIOUS
<1>6. PICK k : k = [client EXCEPT !.kept = none]  OBVIOUS
<1>7. enc' = e /\ client' = k  BY <1>1, <1>4, <1>5, <1>6 DEF CacheEmpty
<1>8. none \in Seq(Entries) /\ none \in UNION {[S -> Drawn] : S \in SUBSET (1 .. CACHE_SLOTS)}
  BY <1>4, NoneKept
<1>9. e \in Encoders  BY ONLY <1>2, <1>5, <1>8 DEF Encoders
<1>10. k \in Clients
  <2>1. PICK kinds : kinds = UNION {[S -> Drawn] : S \in SUBSET (1 .. CACHE_SLOTS)}  OBVIOUS
  <2>2. Clients = [shown : [Cells -> Drawn], kept : kinds,
                   streams : SUBSET [id : Nat, area : SUBSET Cells], fault : BOOLEAN]
    BY <2>1 DEF Clients
  <2>3. none \in kinds  BY <1>8, <2>1
  <2>. QED  BY ONLY <1>3, <1>6, <2>2, <2>3
<1>11. e.restart = TRUE /\ e.live = {} /\ e.debts = {} /\ e.stills = <<>> /\ e.ended = f.ended
  BY ONLY <1>2, <1>5 DEF Encoders
<1>12. e.cache = none /\ e.held = f.held  BY ONLY <1>2, <1>5 DEF Encoders
<1>13. k.streams = client.streams /\ k.fault = client.fault  BY ONLY <1>3, <1>6 DEF Clients
<1>14. PICK v : v = [enc |-> e, client |-> k]  OBVIOUS
<1>15. CacheHolds(v)
  <2>1. v.enc.cache = <<>>  BY <1>4, <1>12, <1>14
  <2>. QED  BY <2>1, EmptyCache
<1>17. {s.id : s \in k.streams} = e.ended /\ ~ k.fault  BY <1>2, <1>3, <1>11, <1>13
<1>18. \A c \in Cells : e.held[c] = NoneHeld  BY <1>2, <1>12
<1>. QED  BY <1>0, <1>7, <1>9, <1>10, <1>11, <1>14, <1>15, <1>17, <1>18, OverInv

Started(e, p, q) ==
  /\ e \in Encoders /\ e.restart = TRUE /\ e.live = {} /\ e.debts = {} /\ e.stills = <<>>
  /\ e.ended = {} /\ e.cache = q /\ e.picture = p /\ \A c \in Cells : e.held[c] = NoneHeld

\* A new encoder.
LEMMA StartIs ==
  ASSUME NEW p \in Picture, NEW q \in Seq(Entries), NEW e, e = Start(p, q)
  PROVE  Started(e, p, q)
<1>1. PICK mirror : mirror = [c \in Cells |-> Torn]  OBVIOUS
<1>2. PICK held : held = [c \in Cells |-> NoneHeld]  OBVIOUS
<1>3. PICK none, stills, yes, no : none = {} /\ stills = <<>> /\ yes = TRUE /\ no = FALSE  OBVIOUS
<1>4. e = [mirror |-> mirror, restart |-> yes, live |-> none, ended |-> none,
           debts |-> none, cache |-> q, stills |-> stills, moved |-> no,
           picture |-> p, held |-> held]
  BY <1>1, <1>2, <1>3 DEF Start
<1>5. Torn \in Shades  BY DEF Shades
<1>6. NoneHeld \in Passes  BY <1>5, TilesAssumption DEF NoneHeld, Passes
<1>7. mirror \in [Cells -> Shades] /\ held \in [Cells -> Passes]  BY <1>1, <1>2, <1>5, <1>6
<1>8. /\ none \in SUBSET Streams /\ none \in SUBSET Nat /\ none \in SUBSET Cells
      /\ stills \in Parts /\ yes \in BOOLEAN /\ no \in BOOLEAN
  BY <1>3, NoneIs
<1>9. e \in Encoders
  BY ONLY <1>4, <1>7, <1>8, p \in Picture, q \in Seq(Entries) DEF Encoders
<1>10. e.restart = yes /\ e.live = none /\ e.debts = none /\ e.stills = stills /\ e.ended = none
       /\ e.cache = q /\ e.picture = p /\ e.held = held
  BY ONLY <1>4
<1>11. \A c \in Cells : e.held[c] = NoneHeld  BY <1>2, <1>10
<1>. QED  BY <1>3, <1>9, <1>10, <1>11 DEF Started

\* A new size keeps the invariant.
LEMMA NewSizeKeeps == TilesInv /\ NewSize => TilesInv'
<1>. SUFFICES ASSUME TilesInv, NewSize PROVE TilesInv'  OBVIOUS
<1>0. Restarts  BY DEF NewSize
<1>3. enc \in Encoders /\ client \in Clients /\ Pair \in Work /\ CacheHolds(Pair) /\ ~ client.fault
  BY Client
<1>4. PICK p, q : p = enc.picture /\ q = enc.cache  OBVIOUS
<1>5. p \in Picture /\ q \in Seq(Entries)  BY <1>3, <1>4 DEF Encoders
<1>6. PICK e : e = Start(p, q)  OBVIOUS
<1>7. /\ e \in Encoders /\ e.restart = TRUE /\ e.live = {} /\ e.debts = {} /\ e.stills = <<>>
      /\ e.ended = {} /\ e.cache = q /\ e.picture = p /\ \A c \in Cells : e.held[c] = NoneHeld
  <2>1. Started(e, p, q)  BY ONLY <1>5, <1>6, StartIs
  <2>. QED  BY <2>1 DEF Started
<1>8. PICK shown, none : shown = BlankShown /\ none = {}  OBVIOUS
<1>9. PICK k : k = [client EXCEPT !.shown = shown, !.streams = none]  OBVIOUS
<1>10. enc' = e /\ client' = k  BY <1>4, <1>6, <1>8, <1>9 DEF NewSize, BlankShown
<1>11. shown \in [Cells -> Drawn] /\ none \subseteq [id : Nat, area : SUBSET Cells]
  BY <1>8, BlankIs
<1>12. k \in Clients  BY ONLY <1>3, <1>9, <1>11 DEF Clients
<1>13. k.kept = client.kept /\ k.streams = none /\ k.fault = client.fault
  BY ONLY <1>3, <1>9 DEF Clients
<1>14. PICK v : v = [enc |-> e, client |-> k]  OBVIOUS
<1>15. v \in Work /\ v.enc = e /\ v.client = k  BY <1>7, <1>12, <1>14 DEF Work
<1>16. CacheHolds(v)  BY <1>3, <1>4, <1>7, <1>13, <1>15, PairIs, CacheSame
<1>17. {s.id : s \in k.streams} = e.ended /\ ~ k.fault  BY <1>3, <1>7, <1>8, <1>13
<1>. QED  BY <1>0, <1>7, <1>10, <1>12, <1>14, <1>16, <1>17, OverInv

\* The record with nothing in it settled.
Unsettled(q) == [i \in DOMAIN q |-> [q[i] EXCEPT !.settled = FALSE]]

\* A record unsettled.
LEMMA UnsettledIs ==
  ASSUME NEW q \in Seq(Entries), NEW r, r = Unsettled(q)
  PROVE  /\ r \in Seq(Entries) /\ Len(r) = Len(q)
         /\ \A i \in 1 .. Len(q) : r[i].slot = q[i].slot /\ r[i].of = q[i].of /\ ~ r[i].settled
<1>1. PICK n : n = Len(q)  OBVIOUS
<1>2. n \in Nat /\ DOMAIN q = 1 .. n /\ \A i \in 1 .. n : q[i] \in Entries  BY <1>1
<1>. DEFINE at(i) == [q[i] EXCEPT !.settled = FALSE]
<1>3. \A i \in 1 .. n : /\ at(i) \in Entries /\ at(i).slot = q[i].slot /\ at(i).of = q[i].of
                        /\ ~ at(i).settled
  BY <1>2 DEF Entries
<1>4. r = [i \in 1 .. n |-> at(i)]  BY <1>2 DEF Unsettled
<1>. HIDE DEF at
<1>5. r \in [1 .. n -> Entries] /\ \A i \in 1 .. n : r[i] = at(i)  BY <1>3, <1>4
<1>6. r \in Seq(Entries) /\ Len(r) = n  BY <1>2, <1>5
<1>. QED  BY <1>1, <1>3, <1>5, <1>6

\* Another picture keeps the invariant: what was settled as progressive is no longer.
LEMMA SetPictureKeeps ==
  ASSUME NEW p \in Pictures  PROVE TilesInv /\ SetPicture(p) => TilesInv'
<1>. SUFFICES ASSUME TilesInv, SetPicture(p) PROVE TilesInv'  OBVIOUS
<1>0. Restarts  BY DEF SetPicture
<1>1. PICK f : f = Forgotten(enc)  OBVIOUS
<1>2. /\ f \in Encoders /\ f.restart = TRUE /\ f.live = {} /\ f.debts = {} /\ f.stills = <<>>
      /\ f.ended = {s.id : s \in client.streams} /\ f.cache = enc.cache
      /\ f.picture = enc.picture /\ \A c \in Cells : f.held[c] = NoneHeld
  BY <1>0, <1>1, Found
<1>3. enc \in Encoders /\ client \in Clients /\ Pair \in Work /\ CacheHolds(Pair) /\ ~ client.fault
  BY Client
<1>4. PICK q : q = IF enc.picture = "progressive" THEN Unsettled(enc.cache) ELSE enc.cache  OBVIOUS
<1>5. PICK e : e = [f EXCEPT !.picture = p, !.cache = q]  OBVIOUS
<1>6. enc' = e /\ client' = client
  <2>1. enc' = [f EXCEPT !.picture = p,
                         !.cache = IF enc.picture = "progressive" THEN Unsettled(@) ELSE @]
    BY <1>1 DEF SetPicture, Unsettled
  <2>2. enc' = [f EXCEPT !.picture = p,
                         !.cache = IF enc.picture = "progressive" THEN Unsettled(f.cache) ELSE f.cache]
    BY ONLY <1>2, <2>1 DEF Encoders
  <2>. QED  BY <1>2, <1>4, <1>5, <2>2 DEF SetPicture
<1>7. p \in Picture  BY TilesAssumption
<1>8. enc.cache \in Seq(Entries)  BY <1>3 DEF Encoders
<1>9. q \in Seq(Entries) /\ Len(q) = Len(enc.cache)
      /\ \A i \in 1 .. Len(q) : /\ q[i].slot = enc.cache[i].slot /\ q[i].of = enc.cache[i].of
                                /\ q[i].settled => enc.picture # "progressive" /\ enc.cache[i].settled
  <2>1. CASE enc.picture = "progressive"
    <3>1. q = Unsettled(enc.cache)  BY <1>4, <2>1
    <3>. QED  BY <1>8, <3>1, UnsettledIs
  <2>2. CASE enc.picture # "progressive"  BY <1>4, <1>8, <2>2
  <2>. QED  BY <2>1, <2>2
<1>10. e \in Encoders  BY ONLY <1>2, <1>5, <1>7, <1>9 DEF Encoders
<1>11. e.restart = TRUE /\ e.live = {} /\ e.debts = {} /\ e.stills = <<>> /\ e.ended = f.ended
  BY ONLY <1>2, <1>5 DEF Encoders
<1>12. e.cache = q /\ e.held = f.held  BY ONLY <1>2, <1>5 DEF Encoders
<1>13. PICK v : v = [enc |-> e, client |-> client]  OBVIOUS
<1>14. v \in Work /\ v.enc = e /\ v.client = client  BY <1>3, <1>10, <1>13 DEF Work
<1>15. CacheHolds(v)
  <2>1. CacheGood(enc.cache) /\ \A i \in 1 .. Len(enc.cache) : Keeps(Pair, enc.cache[i])
    BY <1>3, PairIs DEF CacheHolds
  <2>2. CacheGood(q)  BY <1>9, <2>1 DEF CacheGood
  <2>3. ASSUME NEW i \in 1 .. Len(q)  PROVE Keeps(v, q[i])
    <3>1. /\ enc.cache[i].slot \in DOMAIN client.kept
          /\ client.kept[enc.cache[i].slot].of = enc.cache[i].of
          /\ enc.cache[i].settled => Whole(Pair, client.kept[enc.cache[i].slot])
      BY <1>9, <2>1, <2>3, PairIs DEF Keeps
    <3>2. ASSUME q[i].settled  PROVE Whole(v, client.kept[q[i].slot])
      <4>1. enc.picture # "progressive" /\ enc.cache[i].settled /\ q[i].slot = enc.cache[i].slot
        BY <1>9, <2>3, <3>2
      <4>2. PICK t : t = client.kept[q[i].slot]  OBVIOUS
      <4>3. t.level >= EXACT  BY <3>1, <4>1, <4>2, PairIs DEF Whole
      <4>4. t.level \in Int
        <5>1. client.kept \in UNION {[S -> Drawn] : S \in SUBSET (1 .. CACHE_SLOTS)}
          BY <1>3 DEF Clients
        <5>2. q[i].slot \in DOMAIN client.kept  BY <3>1, <4>1
        <5>3. t \in Drawn  BY <4>2, <5>1, <5>2
        <5>. QED  BY <5>3 DEF Drawn
      <4>5. t.level >= FULL /\ t.level >= EXACT  BY <4>3, <4>4, TilesAssumption DEF EXACT
      <4>. QED  BY <4>2, <4>5 DEF Whole
    <3>. QED  BY <1>9, <1>14, <2>3, <3>1, <3>2 DEF Keeps
  <2>. QED  BY <1>12, <1>14, <2>2, <2>3 DEF CacheHolds
<1>17. {s.id : s \in client.streams} = e.ended /\ ~ client.fault  BY <1>2, <1>3, <1>11
<1>18. \A c \in Cells : e.held[c] = NoneHeld  BY <1>2, <1>12
<1>. QED  BY <1>0, <1>3, <1>6, <1>10, <1>11, <1>13, <1>15, <1>17, <1>18, OverInv

\* A session starts in the invariant.
LEMMA InitKeeps == Init => TilesInv
<1>. SUFFICES ASSUME Init PROVE TilesInv  OBVIOUS
<1>1. PICK p \in Pictures : enc = Start(p, <<>>)  BY DEF Init
<1>2. PICK q, none, no : q = <<>> /\ none = {} /\ no = FALSE  OBVIOUS
<1>3. /\ q \in Seq(Entries) /\ q \in UNION {[S -> Drawn] : S \in SUBSET (1 .. CACHE_SLOTS)}
      /\ p \in Picture /\ enc = Start(p, q)
  BY <1>1, <1>2, NoneKept, TilesAssumption
<1>4. /\ enc \in Encoders /\ enc.restart = TRUE /\ enc.live = {} /\ enc.debts = {}
      /\ enc.stills = <<>> /\ enc.ended = {} /\ enc.cache = q /\ \A c \in Cells : enc.held[c] = NoneHeld
  <2>1. Started(enc, p, q)  BY ONLY <1>3, StartIs
  <2>. QED  BY <2>1 DEF Started
<1>5. client = [shown |-> BlankShown, kept |-> q, streams |-> none, fault |-> no]
  BY <1>2 DEF Init, BlankShown
<1>6. PICK shown : shown = BlankShown  OBVIOUS
<1>7. shown \in [Cells -> Drawn] /\ none \in SUBSET [id : Nat, area : SUBSET Cells] /\ no \in BOOLEAN
  BY <1>2, <1>6, BlankIs
<1>8. client \in Clients  BY ONLY <1>3, <1>5, <1>6, <1>7 DEF Clients
<1>9. client.streams = {} /\ ~ client.fault  BY <1>2, <1>5
<1>10. PICK v : v = Pair  OBVIOUS
<1>11. v \in Work /\ v.enc = enc /\ v.client = client  BY <1>4, <1>8, <1>10, PairIs DEF Work, Pair
<1>12. CacheHolds(v)
  <2>1. v.enc.cache = <<>>  BY <1>2, <1>4, <1>11
  <2>. QED  BY <2>1, EmptyCache
<1>13. {s.id : s \in client.streams} = enc.ended  BY <1>4, <1>9
<1>14. Holds(v) /\ PhaseHolds(v, "between")
  <2>1. /\ v.enc.restart /\ v.enc.live = {} /\ v.enc.debts = {} /\ v.enc.stills = <<>>
        /\ \A c \in Cells : v.enc.held[c] = NoneHeld
        /\ {s.id : s \in v.client.streams} = v.enc.ended /\ ~ v.client.fault
    BY <1>4, <1>9, <1>11, <1>13
  <2>. QED  BY ONLY <1>11, <1>12, <2>1, OverHolds
<1>15. phase = "between"  BY DEF Init
<1>. QED  BY <1>10, <1>14, <1>15, InvIs

\* Every step keeps the invariant.
LEMMA NextKeeps == TilesInv /\ [Next]_vars => TilesInv'
<1>. SUFFICES ASSUME TilesInv, [Next]_vars PROVE TilesInv'  OBVIOUS
<1>1. ASSUME NEW new \in [Cells -> Colours], NEW parts \in SUBSET Cells, Read(new, parts)
      PROVE  TilesInv'
  BY <1>1, ReadKeeps
<1>2. CASE ReadAgain  BY <1>2, ReadAgainKeeps
<1>3. CASE Stills  BY <1>3, StillsKeep
<1>4. CASE Round  BY <1>4, RoundKeeps
<1>5. CASE Tick  BY <1>5, TickKeeps
<1>6. CASE Rest  BY <1>6, RestKeeps
<1>7. CASE Forget  BY <1>7, ForgetKeeps
<1>8. CASE Unpainted  BY <1>8, UnpaintedKeeps
<1>9. CASE CacheEmpty  BY <1>9, CacheEmptyKeeps
<1>10. CASE NewSize  BY <1>10, NewSizeKeeps
<1>11. ASSUME NEW p \in Pictures, SetPicture(p)  PROVE TilesInv'  BY <1>11, SetPictureKeeps
<1>12. CASE UNCHANGED vars
  <2>1. PICK v : v = Pair  OBVIOUS
  <2>2. Holds(v) /\ PhaseHolds(v, phase)  BY <2>1, InvIs
  <2>3. phase' = phase /\ Becomes(v)  BY <1>12, <2>1, PairIs DEF vars, Becomes
  <2>. QED  BY <2>2, <2>3, BecomesInv
<1>. QED
  BY <1>1, <1>2, <1>3, <1>4, <1>5, <1>6, <1>7, <1>8, <1>9, <1>10, <1>11, <1>12 DEF Next

\* The inductive invariant of the tiles picture: of the client, what the encoder
\* believes is so at every step of every update (read, encode, tick, forget).
THEOREM TilesInductive == TilesSpec => []TilesInv
<1>1. Init => TilesInv  BY InitKeeps
<1>2. TilesInv /\ [Next]_vars => TilesInv'  BY NextKeeps
<1>. QED  BY <1>1, <1>2, PTL DEF TilesSpec

\* What the invariant says between updates.
LEMMA InvPicture == TilesInv => PictureIsHeld
<1>. SUFFICES ASSUME TilesInv PROVE PictureIsHeld  OBVIOUS
<1>1. PICK w : w = Pair  OBVIOUS
<1>2. w.enc = enc /\ w.client = client /\ Holds(w) /\ PhaseHolds(w, phase)
  BY <1>1, InvIs, PairIs
<1>3. w \in Work /\ CacheHolds(w) /\ StreamsHold(w) /\ PictureHolds(w)  BY <1>2 DEF Holds
<1>4. \A t : Settled(t) <=> Whole(w, t)  BY <1>2 DEF Settled, Whole
<1>5. ASSUME phase = "between", ~ enc.restart, NEW c \in Cells \ enc.debts
      PROVE  client.shown[c].of = enc.mirror[c] /\ Settled(client.shown[c])
  <2>1. Right(w, c)  BY <1>2, <1>5, BetweenRight
  <2>. QED  BY <1>2, <1>4, <2>1 DEF Right
<1>6. ASSUME NEW k \in ToSet(enc.cache)
      PROVE  /\ client.kept[k.slot].of = k.of
             /\ k.settled => Settled(client.kept[k.slot])
  <2>1. PICK i \in DOMAIN enc.cache : k = enc.cache[i]  BY <1>6 DEF ToSet
  <2>2. enc.cache \in Seq(Entries)  BY Client DEF Encoders
  <2>3. i \in 1 .. Len(enc.cache)  BY <2>1, <2>2
  <2>4. Keeps(w, k)  BY <1>2, <1>3, <2>1, <2>3 DEF CacheHolds
  <2>. QED  BY <1>2, <1>4, <2>4 DEF Keeps
<1>7. {s.id : s \in client.streams} = {l.id : l \in {m \in enc.live : m.started}} \cup enc.ended
  <2>1. CASE enc.restart
    <3>1. enc.live = {} /\ {s.id : s \in client.streams} = enc.ended
      BY <1>2, <1>3, <2>1 DEF PhaseHolds, StreamsHold
    <3>. QED  BY <3>1
  <2>2. CASE ~ enc.restart
    <3>1. enc.ended = {} /\ client.streams = Known(enc.live)  BY <1>2, <1>3, <2>2 DEF StreamsHold
    <3>2. {s.id : s \in Known(enc.live)} = {l.id : l \in {m \in enc.live : m.started}}
      BY KnownIds
    <3>. QED  BY <3>1, <3>2
  <2>. QED  BY <2>1, <2>2
<1>8. enc.picture = "lossless" => enc.debts = {}  BY <1>2, <1>3 DEF PictureHolds
<1>9. ~ client.fault  BY <1>2, <1>3 DEF PictureHolds
<1>. QED  BY <1>5, <1>6, <1>7, <1>8, <1>9 DEF PictureIsHeld

\* Between updates the client shows what the mirror has, settled, or the tile is in
\* debt; a slot keeps what the record says; the client decodes the streams that
\* started; and it was sent nothing it cannot draw (read, find_copies, still, retune,
\* held_stills, owe, tick).
THEOREM TilesPicture == TilesSpec => []PictureIsHeld
<1>1. TilesInv => PictureIsHeld  BY InvPicture
<1>. QED  BY <1>1, TilesInductive, PTL
==============================================================================
