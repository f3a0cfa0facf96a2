-------------------------------- MODULE Tiles --------------------------------
(***************************************************************************)
(* The tiles picture of one session (rfb/tiles.rs): what the encoder       *)
(* believes the client holds, beside what a client that draws every        *)
(* rectangle in order does hold.  The encoder's beliefs are many - the     *)
(* mirror, the record of the cache, the coefficients of each progressive   *)
(* tile, the live streams, the tiles owed something better - and none of   *)
(* them is ever confirmed: one that is wrong is a wrong picture that stays.*)
(*                                                                         *)
(* The desktop is a row of tiles, a picture a colour for each: the pixels  *)
(* of a tile are told apart and no more.  A tile is damaged whole or in    *)
(* part, and what a part leaves alone is told by the colour it was of.     *)
(* The update is the code's one call of read and one of encode, cut into   *)
(* encode's own order, the client drawing each step's rectangles: Read,    *)
(* then Stills, Round, Tick and Rest.  Which regions the churn calls for,  *)
(* which copies the search finds, which frames the coder makes, what fits  *)
(* the bytes of an update and what has been still long enough are choices. *)
(***************************************************************************)
EXTENDS Integers, FiniteSets, SequencesExt

CONSTANTS
  Width,          \* the tiles of the row
  Colours,        \* what a tile can show
  CACHE_SLOTS,    \* the slots of the client's cache
  MAX_STREAMS,    \* the streams live at once
  FULL,           \* the last of a progressive tile's stages, from 0
  Pictures,       \* the pictures a client lists: some of Picture
  MaxChanges,     \* bound: the times the desktop changes
  MaxRestarts     \* bound: the times the picture starts over

Cells   == 1 .. Width
Picture == {"held", "lossless", "progressive"}
EXACT   == FULL + 1         \* the level of lossless pixels
Torn    == 0                \* what is no picture of the desktop's
NoneHeld == [of |-> Torn, stage |-> 0 - 1]

\* The stores of a run take no slot that it draws from: a row of the widest
\* desktop has fewer tiles than the cache has slots.
ASSUME TilesAssumption ==
  /\ Width \in Nat \ {0} /\ CACHE_SLOTS \in Nat /\ CACHE_SLOTS >= Width
  /\ MAX_STREAMS \in Nat \ {0} /\ FULL \in Nat
  /\ MaxChanges \in Nat /\ MaxRestarts \in Nat
  /\ Torn \notin Colours /\ Pictures \subseteq Picture

VARIABLES
  enc,      \* TilesEncoder
  client,   \* what the client shows and keeps, and the streams it decodes
  phase,    \* where the update in hand is: "between" updates, or before a step
  changes,  \* the changes made so far
  restarts  \* the times the picture started over so far

vars == <<enc, client, phase, changes, restarts>>

Covered(live) == UNION {l.area : l \in live}
Box(S)        == {c \in Cells : \E a, b \in S : a <= c /\ c <= b}
Boxes         == {Box(S) : S \in (SUBSET Cells) \ {{}}}

\* What `step` makes of w for each tile of S, in the row's order.
InOrder(S, w, step(_, _)) ==
  LET after[c \in 0 .. Width] ==
        IF c = 0 THEN w ELSE IF c \in S THEN step(after[c - 1], c) ELSE after[c - 1]
  IN  after[Width]

Start(picture, cache) ==
  [mirror |-> [c \in Cells |-> Torn], restart |-> TRUE, live |-> {}, ended |-> {},
   debts |-> {}, cache |-> cache, stills |-> <<>>, moved |-> FALSE,
   picture |-> picture, held |-> [c \in Cells |-> NoneHeld]]

\* Of the client, what it shows of each tile and how well, what each slot keeps,
\* and the ids it decodes; `fault` where it was sent what it cannot draw.
Init ==
  /\ \E p \in Pictures : enc = Start(p, <<>>)
  /\ client = [shown |-> [c \in Cells |-> [of |-> Torn, level |-> 0]],
               kept |-> <<>>, streams |-> {}, fault |-> FALSE]
  /\ phase = "between" /\ changes = 0 /\ restarts = 0

-----------------------------------------------------------------------------
(* The record of the cache: the slots as they were used, the least recent first. *)

Find(cache, colour) == {k \in ToSet(cache) : k.of = colour}

Touch(cache, k) ==
  LET at == {i \in DOMAIN cache : cache[i].slot = k.slot} IN
  Append(IF at = {} THEN cache ELSE RemoveAt(cache, CHOOSE i \in at : TRUE), k)

SlotFor(cache, colour) ==
  IF Find(cache, colour) # {} THEN (CHOOSE k \in Find(cache, colour) : TRUE).slot
  ELSE IF Len(cache) < CACHE_SLOTS THEN Len(cache) + 1
  ELSE cache[1].slot

\* The tile the client shows goes to the slot the record has for it.
Store(w, c, settled) ==
  LET slot == SlotFor(w.enc.cache, w.enc.mirror[c]) IN
  [w EXCEPT !.enc.cache = Touch(@, [slot |-> slot, of |-> w.enc.mirror[c],
                                    settled |-> settled]),
            !.client.kept = [s \in DOMAIN @ \cup {slot} |->
                                IF s = slot THEN w.client.shown[c] ELSE @[s]]]

\* A rectangle drawn over a tile, which no stream the client decodes may carry.
Draw(w, c, tile) ==
  [w EXCEPT !.client.shown[c] = tile,
            !.client.fault = @ \/ c \in UNION {s.area : s \in w.client.streams}]

DrawSlot(w, c, slot) ==
  IF slot \in DOMAIN w.client.kept THEN Draw(w, c, w.client.kept[slot])
  ELSE [w EXCEPT !.client.fault = TRUE]

-----------------------------------------------------------------------------
(* Stills.  A change of a tile is all of it or a part, and names the colour the *)
(* part was cut from.                                                           *)

Change(whole, from) == [whole |-> whole, from |-> from]

\* Two lists of changes as one: the parts of both.
Both(old, new) ==
  [c \in DOMAIN old \cup DOMAIN new |->
     IF c \notin DOMAIN old THEN new[c]
     ELSE IF c \notin DOMAIN new THEN old[c]
     ELSE Change(old[c].whole \/ new[c].whole, old[c].from)]

\* The runs a set of tiles is sent as, each by its first tile: of adjacent tiles, cut
\* where the damage was.  And those that start no later than `upto`.
RunsOf(S, cuts) ==
  LET starts == {c \in S : c - 1 \notin S \/ c \in cuts}
  IN  [s \in starts |-> {c \in S : c >= s /\ \A x \in (s + 1) .. c : x \in S \ starts}]

FirstOf(runs, upto) == [s \in {x \in DOMAIN runs : x <= upto} |-> runs[s]]

Exact(w, c, change) ==
  LET was == w.client.shown[c]
      now == IF change.whole THEN [of |-> w.enc.mirror[c], level |-> EXACT]
             ELSE [was EXCEPT !.of = IF @ \in {change.from, w.enc.mirror[c]}
                                         THEN w.enc.mirror[c] ELSE Torn]
      drawn == Draw(w, c, now)
  IN  IF change.whole
      THEN Store([drawn EXCEPT !.enc.debts = @ \ {c}], c, TRUE)
      ELSE drawn

\* The slots a run draws from: of its whole tiles, those kept settled.
Hits(w, run, stills) ==
  {k \in ToSet(w.enc.cache) :
     k.settled /\ \E c \in run : stills[c].whole /\ w.enc.mirror[c] = k.of}

StillTile(v, c, stills, hits) ==
  LET k == {x \in hits : x.of = v.enc.mirror[c]} IN
  IF stills[c].whole /\ k # {}
  THEN DrawSlot([v EXCEPT !.enc.debts = @ \ {c}], c, (CHOOSE x \in k : TRUE).slot)
  ELSE Exact(v, c, stills[c])

DrawnRun(w, run, stills, hits) ==
  InOrder(run, w, LAMBDA v, c : StillTile(v, c, stills, hits))

TouchHit(cache, c, mirror, stills, hits) ==
  LET k == {x \in hits \cap ToSet(cache) : x.of = mirror[c]} IN
  IF stills[c].whole /\ k # {} THEN Touch(cache, CHOOSE x \in k : TRUE) ELSE cache

\* The record with the slots drawn from touched, in the run's order.
TouchedCache(cache, run, mirror, stills, hits) ==
  InOrder(run, cache, LAMBDA q, c : TouchHit(q, c, mirror, stills, hits))

Touched(w, run, stills, hits) ==
  [w EXCEPT !.enc.cache = TouchedCache(@, run, w.enc.mirror, stills, hits)]

(* Mutant: the slots drawn from are touched once the run is stored. *)
StillTouchedAfter(w, run, stills) ==
  LET hits == Hits(w, run, stills) IN
  Touched(DrawnRun(w, run, stills, hits), run, stills, hits)

\* Every slot drawn from is touched before any of the run is stored.
Still(w, run, stills) ==
  LET hits == Hits(w, run, stills) IN DrawnRun(Touched(w, run, stills, hits), run, stills, hits)

\* A progressive tile at `stage`, drawn from coefficients the client now holds.
Pass(w, c, of, stage) ==
  LET v == Draw(w, c, [of |-> of, level |-> stage]) IN
  [v EXCEPT !.enc.held[c] = [of |-> of, stage |-> stage],
            !.enc.debts = IF stage = FULL THEN @ \ {c} ELSE @ \cup {c}]

ProgressiveTile(v, c, stills, stage) ==
  LET k == Find(v.enc.cache, v.enc.mirror[c])
      kept == CHOOSE x \in k : TRUE
      first == Pass(v, c, v.enc.mirror[c], stage[c])
  IN  IF stills[c].whole /\ k # {}
      THEN DrawSlot([v EXCEPT !.enc.cache = Touch(@, kept),
                              !.enc.held[c] = NoneHeld,
                              !.enc.debts = IF kept.settled THEN @ \ {c} ELSE @ \cup {c}],
                    c, kept.slot)
      ELSE IF stills[c].whole THEN Store(first, c, stage[c] = FULL)
      ELSE first

ProgressiveStill(w, run, stills, stage) ==
  InOrder(run, w, LAMBDA v, c : ProgressiveTile(v, c, stills, stage))

\* The next stage of a tile owed it: of what the encoder holds for the client's
\* coefficients, or the tile whole where it holds none.
Upgraded(w, c) ==
  LET h == w.enc.held[c]
      v == IF h = NoneHeld THEN Pass(w, c, w.enc.mirror[c], FULL)
           ELSE IF h.stage < FULL THEN Pass(w, c, h.of, h.stage + 1)
           ELSE [w EXCEPT !.enc.debts = @ \ {c}]
  IN  IF v.enc.held[c].stage = FULL THEN Store(v, c, TRUE) ELSE v

SendRun(v, run, stills, stage) ==
  IF v.enc.picture = "progressive" THEN ProgressiveStill(v, run, stills, stage)
  ELSE Still(v, run, stills)

SendRuns(w, runs, stills, stage) ==
  InOrder(DOMAIN runs, w, LAMBDA v, s : SendRun(v, runs[s], stills, stage))

-----------------------------------------------------------------------------
(* Streams *)

\* What no frame of some streams carried: no two of them carry one tile.
Unsent(over) ==
  [c \in UNION {DOMAIN l.pending : l \in over} |->
     (CHOOSE l \in over : c \in DOMAIN l.pending).pending[c]]

\* Streams end: their ENDs go to the client, and what no frame of theirs carried
\* is owed as stills, where none of the streams `left` covers it.
EndStreams(w, over, left) ==
  LET owed == DOMAIN Unsent(over) \ Covered(left)
  IN  [w EXCEPT !.enc.live = left,
                !.enc.stills = Both(@, [c \in owed |-> Unsent(over)[c]]),
                !.client.streams =
                   {s \in @ : \A l \in over : ~ (l.started /\ l.id = s.id)}]

\* The first id that no stream live has.
FreshId(live) ==
  CHOOSE i \in 1 .. Cardinality(live) + 1 :
    /\ \A l \in live : l.id # i
    /\ \A j \in 1 .. i - 1 : \E l \in live : l.id = j

Build(id, area) ==
  [id |-> id, area |-> area, pic |-> <<>>, pending |-> <<>>, dirty |-> TRUE,
   started |-> FALSE]

\* A held list's stills: the first runs as stills, and what is past the bytes of an
\* update as a region around all of it, where nothing moved, a stream is to be had
\* and the coder opens it.
AsRegion(w, runs, upto, opens) ==
  /\ w.enc.picture = "held" /\ ~ w.enc.moved /\ opens
  /\ DOMAIN FirstOf(runs, upto) # DOMAIN runs /\ Cardinality(w.enc.live) < MAX_STREAMS

SendStills(w, runs, upto, opens, stage) ==
  LET stills == w.enc.stills
      taken == [w EXCEPT !.enc.stills = <<>>]
  IN  IF ~ AsRegion(w, runs, upto, opens) THEN SendRuns(taken, runs, stills, stage)
      ELSE LET sent == SendRuns(taken, FirstOf(runs, upto), stills, stage)
               area == Box(DOMAIN stills)
               over == {l \in w.enc.live : l.area \cap area # {}}
               left == (w.enc.live \ over) \cup {Build(FreshId(w.enc.live), area)}
           IN  EndStreams([sent EXCEPT !.enc.debts = @ \cup area], over, left)

\* The regions laid out again, in the order they are wanted: the streams that contain
\* every region they touch are kept, a region no stream contains ends those it meets
\* and is built, and `old` are the rest.
Begun(live, wanted) ==
  LET meets(l) == {i \in DOMAIN wanted : wanted[i] \cap l.area # {}}
      kept == {l \in live : meets(l) # {} /\ \A i \in meets(l) : wanted[i] \subseteq l.area}
  IN  [next |-> kept, old |-> live \ kept, owed |-> {}]

Added(r, a) ==
  LET old == {l \in r.old : l.area \cap a = {}} IN
  IF (\E l \in r.next : a \subseteq l.area) \/ Cardinality(r.next) >= MAX_STREAMS THEN r
  ELSE [next |-> r.next \cup {Build(FreshId(r.next \cup old), a)}, old |-> old,
        owed |-> r.owed \cup a]

Laid(live, wanted) ==
  LET laid[i \in 0 .. Len(wanted)] ==
        IF i = 0 THEN Begun(live, wanted) ELSE Added(laid[i - 1], wanted[i])
  IN  laid[Len(wanted)]

\* Of the old streams, those kept: the ones that still move, while there is room.
Staying(laid, idle) ==
  LET moving == {l \in laid.old : l.id \notin idle /\ \A k \in laid.next : k.area \cap l.area = {}}
      room == MAX_STREAMS - Cardinality(laid.next)
  IN  {S \in SUBSET moving :
         IF Cardinality(moving) <= room THEN S = moving ELSE Cardinality(S) = room}

Retuned(w, laid, stay) ==
  LET next == laid.next \cup stay IN
  EndStreams([w EXCEPT !.enc.debts = @ \cup laid.owed], w.enc.live \ next, next)

\* Every stream with pixels waiting coded: those of `framed` a frame, and the rest
\* none, which leaves what waits waiting.
Coded(w, framed) ==
  LET coded(l) ==
        IF ~ l.dirty THEN l
        ELSE LET carried == l.id \in framed IN
             [l EXCEPT !.pic = [c \in l.area |-> IF @ = <<>> \/ c \in DOMAIN l.pending
                                                 THEN w.enc.mirror[c] ELSE @[c]],
                       !.pending = IF carried THEN <<>> ELSE @,
                       !.dirty = ~ carried, !.started = @ \/ carried]
      sent == {l \in w.enc.live : l.dirty /\ l.id \in framed}
      frame(c) == coded(CHOOSE l \in sent : c \in l.area).pic[c]
      known(l) == [id |-> l.id, area |-> l.area] \in w.client.streams
  IN  [w EXCEPT
        !.enc.live = {coded(l) : l \in @},
        !.enc.debts = @ \cup Covered(sent),
        !.client.shown = [c \in Cells |-> IF c \in Covered(sent)
                                          THEN [of |-> frame(c), level |-> 0] ELSE @[c]],
        !.client.streams = @ \cup {[id |-> l.id, area |-> l.area] : l \in sent},
        !.client.fault = @ \/ \E l \in sent :
          \/ l.started # known(l)
          \/ \E s \in w.client.streams : s.id # l.id /\ s.area \cap l.area # {}]

-----------------------------------------------------------------------------
(* The update *)

Pair      == [enc |-> enc, client |-> client]
Becomes(w) == enc' = w.enc /\ client' = w.client

NoCopy == [whole |-> {}, edge |-> {}, by |-> 0]

\* A copy draws tiles whole, and parts of those beside them, from as far away; it
\* reads and draws no tile a stream carries, and reads none a still is owed for.
Copies(new) ==
  {k \in [whole : Boxes, edge : SUBSET Cells, by : (0 - Width) .. Width] :
     LET drawn == k.whole \cup k.edge
         source == {c + k.by : c \in drawn}
     IN  /\ ~ enc.restart /\ k.by # 0 /\ source \subseteq Cells
         /\ \A c \in k.edge : c \notin k.whole /\ {c - 1, c + 1} \cap k.whole # {}
         /\ (drawn \cup source) \cap Covered(enc.live) = {}
         /\ source \cap DOMAIN enc.stills = {}
         /\ \A c \in k.whole : new[c] = enc.mirror[c + k.by]
         /\ \E c \in k.whole : new[c] # enc.mirror[c]}

\* What a copy leaves: a tile drawn whole is its source as the client shows it, one
\* drawn in part is as good as the worse of the two.  `rest` are the tiles whose
\* change it draws only some of.
Copied(w, k, new, rest) ==
  LET drawn == k.whole \cup k.edge
      was == w.client.shown
      right(c) == was[c].of = w.enc.mirror[c]
      owed == \E c \in drawn : c + k.by \in w.enc.debts
      part(c) == [of |-> IF ~ (right(c) /\ right(c + k.by)) THEN Torn
                         ELSE IF c \in rest THEN was[c].of ELSE new[c],
                  level |-> Min({was[c].level, was[c + k.by].level})]
  IN  [w EXCEPT
        !.client.shown = [c \in Cells |-> IF c \in k.whole THEN was[c + k.by]
                                          ELSE IF c \in k.edge THEN part(c) ELSE was[c]],
        !.enc.held = [c \in Cells |-> IF c \in drawn THEN NoneHeld ELSE @[c]],
        !.enc.debts = IF owed THEN @ \cup drawn ELSE @ \ k.whole,
        !.enc.moved = k # NoCopy]

\* The damage goes into the mirror; a tile that changed is pending for the stream
\* that carries it, or else owed as a still.
Damaged(w, new, changed) ==
  LET due(S) == [c \in S \cap DOMAIN changed |-> changed[c]]
      told(l) == [l EXCEPT !.pending = Both(@, due(l.area)),
                           !.dirty = @ \/ l.area \cap DOMAIN changed # {}]
  IN  [w EXCEPT !.enc.mirror = new, !.enc.restart = FALSE,
                !.enc.live = {told(l) : l \in @},
                !.enc.stills = Both(@, due(Cells \ Covered(w.enc.live)))]

Owed == enc.live # {} \/ enc.ended # {} \/ enc.debts # {}

\* The ENDs owed go first, then the copy, and the stills follow.
ReadAs(new, parts, k, rest) ==
  LET differ == IF enc.restart THEN Cells ELSE {c \in Cells : new[c] # enc.mirror[c]}
      left == differ \ (k.whole \cup (k.edge \ rest))
      changed == [c \in left |-> Change(c \notin parts \cup k.edge, enc.mirror[c])]
      told == [Pair EXCEPT !.client.streams = {s \in @ : s.id \notin enc.ended},
                           !.enc.ended = {}]
  IN  /\ parts \subseteq IF enc.restart THEN {} ELSE differ
      /\ rest \subseteq k.edge \cap differ
      /\ Becomes(Damaged(Copied(told, k, new, rest), new, changed))
      /\ phase' = "stills"

\* The desktop changed, or an encoder reads its first picture.
Read(new, parts) ==
  /\ phase = "between" /\ new # enc.mirror /\ changes < MaxChanges
  /\ \E k \in Copies(new) \cup {NoCopy} :
       \E rest \in SUBSET k.edge : ReadAs(new, parts, k, rest)
  /\ changes' = changes + 1 /\ UNCHANGED restarts

\* Nothing changed: the picture whole again, or the tick's update.
ReadAgain ==
  /\ phase = "between" /\ (enc.restart \/ Owed)
  /\ enc.mirror \in [Cells -> Colours]
  /\ ReadAs(enc.mirror, {}, NoCopy, {})
  /\ UNCHANGED <<changes, restarts>>

\* The stage of each first pass, which the walk's dial says, or the full one where
\* it costs little more.
Stages == IF enc.picture = "progressive" THEN [DOMAIN enc.stills -> 0 .. FULL] ELSE {<<>>}

\* The stills owed, cut in runs, and the first `n` of them in the bytes of an update.
SendOwed(then(_)) ==
  \E cuts \in SUBSET (DOMAIN enc.stills \ {1}), stage \in Stages :
    LET runs == RunsOf(DOMAIN enc.stills, cuts) IN
    \E upto \in DOMAIN runs \cup {Width}, opens \in BOOLEAN :
      /\ DOMAIN FirstOf(runs, upto) = DOMAIN runs => ~ opens
      /\ enc.picture # "held" => upto = Width
      /\ Becomes(SendStills(Pair, runs, upto, opens, stage))
      /\ phase' = then(AsRegion(Pair, runs, upto, opens))
      /\ UNCHANGED <<changes, restarts>>

\* Only a held list has a round of streams.
Stills ==
  phase = "stills" /\ SendOwed(LAMBDA region : IF enc.picture = "held" THEN "round" ELSE "tick")

\* The regions the churn may call for, in any order: boxes that do not meet.
Layouts ==
  {W \in UNION {[1 .. n -> Boxes] : n \in 0 .. Width} :
     \A i, j \in DOMAIN W : i = j \/ W[i] \cap W[j] = {}}

\* The regions laid out again, unless they were a moment ago, and the streams coded.
Round ==
  /\ phase \in {"round", "again"}
  /\ \E wanted \in Layouts, idle \in SUBSET {l.id : l \in enc.live}, skip \in BOOLEAN :
       /\ skip => enc.live # {} /\ wanted = <<>> /\ idle = {}
       /\ LET laid == Laid(enc.live, wanted) IN
          \E stay \in IF skip THEN {{}} ELSE Staying(laid, idle) :
            LET tuned == IF skip THEN Pair ELSE Retuned(Pair, laid, stay) IN
            \E framed \in SUBSET {l.id : l \in {m \in tuned.enc.live : m.dirty}} :
              Becomes(Coded(tuned, framed))
  /\ phase' = IF phase = "round" THEN "tick" ELSE "between"
  /\ UNCHANGED <<changes, restarts>>

\* The streams whose motion stopped end, and of the tiles owed that no stream carries
\* some are settled: those long enough still, of the bytes a tick may send.
Tick ==
  /\ phase = "tick"
  /\ \E over \in SUBSET enc.live :
       LET ended == EndStreams(Pair, over, enc.live \ over)
           ready == ended.enc.debts \ Covered(ended.enc.live)
           whole == [c \in Cells |-> Change(TRUE, Torn)]
       IN  \E pay \in SUBSET ready :
             Becomes(IF enc.picture = "progressive"
                     THEN InOrder(pay, ended, Upgraded)
                     ELSE SendRuns(ended, RunsOf(pay, {}), whole, <<>>))
  /\ phase' = IF DOMAIN enc'.stills = {} THEN "between" ELSE "rest"
  /\ UNCHANGED <<changes, restarts>>

Rest == phase = "rest" /\ SendOwed(LAMBDA region : IF region THEN "again" ELSE "between")

-----------------------------------------------------------------------------
(* What starts the picture over *)

Forgotten(e) ==
  [e EXCEPT !.ended = @ \cup {l.id : l \in {m \in e.live : m.started}},
            !.live = {}, !.debts = {}, !.stills = <<>>, !.restart = TRUE,
            !.held = [c \in Cells |-> NoneHeld]]

Restarts == phase = "between" /\ restarts < MaxRestarts /\ restarts' = restarts + 1
            /\ UNCHANGED <<phase, changes>>

\* A request for the picture whole, from a client that may show anything by now.
Forget ==
  /\ Restarts
  /\ enc' = Forgotten(enc)
  /\ client' = [client EXCEPT !.shown = [c \in Cells |-> [of |-> Torn, level |-> 0]]]

\* A framebuffer with nothing in it: the ENDs go at once.
Unpainted ==
  /\ Restarts
  /\ enc' = [Forgotten(enc) EXCEPT !.ended = {}]
  /\ client' = [client EXCEPT !.streams = {s \in @ : s.id \notin Forgotten(enc).ended}]

\* A client whose cache is gone says so, and is sent the picture whole.
CacheEmpty ==
  /\ Restarts
  /\ enc' = [Forgotten(enc) EXCEPT !.cache = <<>>]
  /\ client' = [client EXCEPT !.kept = <<>>]

SetPicture(p) ==
  /\ Restarts /\ p # enc.picture
  /\ enc' = [Forgotten(enc) EXCEPT
               !.picture = p,
               !.cache = IF enc.picture = "progressive"
                         THEN [i \in DOMAIN @ |-> [@[i] EXCEPT !.settled = FALSE]] ELSE @]
  /\ UNCHANGED client

\* A new size: an encoder of its own, which keeps the cache; the client, told the
\* size first, ends every stream itself.
NewSize ==
  /\ Restarts
  /\ enc' = Start(enc.picture, enc.cache)
  /\ client' = [client EXCEPT !.shown = [c \in Cells |-> [of |-> Torn, level |-> 0]],
                              !.streams = {}]

Next ==
  \/ \E new \in [Cells -> Colours], parts \in SUBSET Cells : Read(new, parts)
  \/ ReadAgain \/ Stills \/ Round \/ Tick \/ Rest
  \/ Forget \/ Unpainted \/ CacheEmpty \/ NewSize
  \/ \E p \in Pictures : SetPicture(p)

TilesSpec == Init /\ [][Next]_vars

-----------------------------------------------------------------------------

Settled(tile) == tile.level >= IF enc.picture = "progressive" THEN FULL ELSE EXACT

(* Between updates the client shows what the encoder's mirror has, settled, or   *)
(* the tile is in debt, which arms the timer of the session: tick_at is "None     *)
(* while the client holds the picture settled and nothing streams".  What a slot  *)
(* keeps is what the record says; the client decodes the streams that started,    *)
(* or is owed their END; and it was sent nothing it cannot draw: no frame of      *)
(* a stream it does not decode, no slot it never filled, and no still over a      *)
(* stream not over (read, find_copies, still, retune, held_stills, owe, tick).    *)
PictureIsHeld ==
  /\ phase = "between" /\ ~ enc.restart =>
       \A c \in Cells \ enc.debts :
         client.shown[c].of = enc.mirror[c] /\ Settled(client.shown[c])
  /\ \A k \in ToSet(enc.cache) :
       /\ client.kept[k.slot].of = k.of
       /\ k.settled => Settled(client.kept[k.slot])
  /\ {s.id : s \in client.streams} = {l.id : l \in {m \in enc.live : m.started}} \cup enc.ended
  /\ enc.picture = "lossless" => enc.debts = {}
  /\ ~ client.fault
=============================================================================
