------------------------------- MODULE Progressive ------------------------------
(* rfb/progressive.rs: the passes of one progressive tile.  The encoder keeps   *)
(* what the client's decoder holds of the tile and codes every pass against it; *)
(* nothing ever tells it that it is wrong.  The decoder is the one its tests    *)
(* have, beside the protocol's tables (wlshare-proto, progressive.rs).          *)
(*                                                                              *)
(* A picture is the tile's quantized coefficients, a component's ten bands one  *)
(* after the other, with the protocol's stages and its entropy codes, bit by    *)
(* bit, in bands of fewer coefficients.  Whether the whole tile would cost      *)
(* little more than the stage asked for is a choice.                            *)
EXTENDS Integers, SequencesExt, TLC

CONSTANTS
  Components,   \* Those of Y, Cb and Cr, 1 .. 3, that a picture has: Y is one.
  COUNTS,       \* The coefficients of each band, LL3's last.
  FirstPictures,\* What the tile shows at first,
  Places,       \* and the coefficients that change,
  Values,       \* what to,
  MaxTurns      \* Bound: and how often.

ProgressiveAssumption ==
  /\ 1 \in Components /\ Components \subseteq 1 .. 3
  /\ Len(COUNTS) = 10 /\ \A b \in 1 .. 10 : COUNTS[b] \in Nat \ {0}
ASSUME ProgressiveAssumption

VARIABLES
  target,   \* The tile's coefficients as it is now: [component -> sequence].
  turns,    \* How often it changed.
  held,     \* The encoder's [target, stage, of], or NoTile: of each component the
            \* coefficients and signs the decoder holds.
  ready,    \* The pass coded ahead, [stage, pass, held], or NoPass.
  decoder   \* The client's [stage, of], or NoTile.

progressiveVars == <<target, turns, held, ready, decoder>>

NoTile == [stage |-> 0]
NoPass == [stage |-> 0]

-------------------------------------------------------------------------------
(* The tables. *)

LL3 == 10

Zeros(n) == [i \in 1 .. n |-> 0]

\* The same sequence, and the same function, element by element.
Whole(seq) == SubSeq(seq, 1, Len(seq))
Forced(f)  == f @@ <<>>

\* The shifts of a packed table's ten nibbles, HL1, LH1, HH1 and on to LL3.
FromBytes(n) ==
  <<n[7], n[10], n[9], n[6], n[5], n[8], n[1], n[4], n[3], n[2]>>

\* The bits each component's bands hold back at each stage, coarsest first.
STAGES ==
  LET coarse == <<2,2, 3,2, 4,4, 3,4, 3,3>>
      half   == <<1,1, 2,1, 3,3, 2,3, 2,2>>
      packed == <<<<coarse, coarse, <<2,2, 3,2, 4,4, 3,4, 2,3>>>>,
                  <<half, half, <<1,1, 2,1, 3,3, 2,3, 1,2>>>>,
                  <<<<1,0, 2,1, 2,2, 1,2, 1,1>>, <<1,0, 2,1, 2,3, 1,2, 1,1>>,
                    <<1,0, 2,1, 2,3, 2,2, 1,1>>>>>>
  IN  [s \in 1 .. 3 |-> Whole([c \in 1 .. 3 |-> FromBytes(packed[s][c])])]
        \o <<Whole([c \in 1 .. 3 |-> Zeros(10)])>>

WHOLE == Len(STAGES)

\* The band of each coefficient, and the bits a stage holds back of it.
BandOf == FlattenSeq([b \in 1 .. 10 |-> [i \in 1 .. COUNTS[b] |-> b]])
COEFFS == Len(BandOf)
Shift(stage, c, i) == STAGES[stage][c][BandOf[i]]

Sign(v) == IF v < 0 THEN -1 ELSE IF v > 0 THEN 1 ELSE 0
Magnitude(v) == IF v < 0 THEN -v ELSE v
TowardZero(v, p) == Sign(v) * (Magnitude(v) \div 2 ^ p)

-------------------------------------------------------------------------------
(* The entropy codes: RLGR1 of a first pass, SRL and raw bits of an upgrade. *)

KPMAX == 80
Raised(kp, by)  == IF kp + by > KPMAX THEN KPMAX ELSE kp + by
Lowered(kp, by) == IF kp < by THEN 0 ELSE kp - by

\* v in n bits.
Put(v, n) == [i \in 1 .. n |-> (v \div 2 ^ (n - i)) % 2]

\* Bits padded with zeros to a byte.
Padded(bits) == bits \o [i \in 1 .. (-Len(bits)) % 8 |-> 0]

\* Golomb-Rice, and the parameter after it, which the quotient vk moves.
Golomb(code, kr) ==
  [i \in 1 .. code \div 2 ^ kr |-> 1] \o <<0>> \o Put(code % 2 ^ kr, kr)

Adapted(krp, vk) ==
  IF vk = 0 THEN Lowered(krp, 2) ELSE IF vk = 1 THEN krp ELSE Raised(krp, vk)

\* The full runs a run of zeros begins with: how many, what is left, kp after.
RECURSIVE FullRuns(_, _, _)
FullRuns(run, kp, full) ==
  IF run >= 2 ^ (kp \div 8)
  THEN FullRuns(run - 2 ^ (kp \div 8), Raised(kp, 4), full + 1)
  ELSE [full |-> full, left |-> run, kp |-> kp]

\* Coefficients from the i-th, to the last that is not zero.
RECURSIVE Rlgr1(_, _, _, _)
Rlgr1(coeffs, i, kp, krp) ==
  LET values == {j \in i .. Len(coeffs) : coeffs[j] # 0}
      next   == CHOOSE j \in values : \A h \in values : j <= h
      runs   == FullRuns(next - i, kp, 0)
      v      == coeffs[next]
      code   == IF coeffs[i] < 0 THEN -2 * coeffs[i] - 1 ELSE 2 * coeffs[i]
      kr     == krp \div 8
  IN  IF values = {} THEN <<>>
      ELSE IF kp >= 8
      THEN Put(0, runs.full) \o <<1>> \o Put(runs.left, runs.kp \div 8)
             \o <<IF v < 0 THEN 1 ELSE 0>> \o Golomb(Magnitude(v) - 1, kr)
             \o Rlgr1(coeffs, next + 1, Lowered(runs.kp, 6),
                      Adapted(krp, (Magnitude(v) - 1) \div 2 ^ kr))
      ELSE Golomb(code, kr)
             \o Rlgr1(coeffs, i + 1, IF code = 0 THEN Raised(kp, 3) ELSE Lowered(kp, 3),
                      Adapted(krp, code \div 2 ^ kr))

\* A component's code: nothing is one zero byte.
Rlgr1Encode(coeffs) ==
  LET bits == Rlgr1(coeffs, 1, 8, 8) IN Padded(IF bits = <<>> THEN Put(0, 8) ELSE bits)

(* Mutant: a magnitude is ended by a one though it is the most its bits hold. *)
UnaryAlwaysEnded(mag, bits) == Put(0, mag - 1) \o <<1>>

\* A magnitude in unary, ended unless it is the most its bits hold.
Unary(mag, bits) ==
  IF bits <= 1 THEN <<>>
  ELSE Put(0, mag - 1) \o (IF mag < 2 ^ bits - 1 THEN <<1>> ELSE <<>>)

\* Values from the j-th, [v, bits] each, `zeros` before them not yet written.
RECURSIVE Srl(_, _, _, _)
Srl(values, j, kp, zeros) ==
  LET v    == values[j].v
      runs == FullRuns(zeros, kp, 0)
  IN  IF j > Len(values) THEN Put(0, 8)
      ELSE IF v = 0 THEN Srl(values, j + 1, kp, zeros + 1)
      ELSE Put(0, runs.full) \o <<1>> \o Put(runs.left, runs.kp \div 8)
             \o <<IF v < 0 THEN 1 ELSE 0>> \o Unary(Magnitude(v), values[j].bits)
             \o Srl(values, j + 1, Lowered(runs.kp, 6), 0)

-------------------------------------------------------------------------------
(* The encoder. *)

\* Whether the difference has more zeros among Y's coefficients than the tile.
PreferDiff(was) ==
  LET zeros(base) == Cardinality({i \in 1 .. COEFFS : BandOf[i] # LL3 /\ target[1][i] = base[i]})
  IN  zeros(was[1].coeffs) > zeros(Zeros(COEFFS))

(* Mutant: LL3's held back bits go toward zero as every other band's do. *)
CarryEveryBand(i, p) == 2 ^ p - 1

\* What is added to a negative value before it is shifted: the other bands' held
\* back bits go toward zero, and LL3's are floored.
Carry(i, p) == IF BandOf[i] = LL3 THEN 0 ELSE 2 ^ p - 1

\* LL3's coefficients each as the difference from the one before.
LowDifferences(q) ==
  [i \in 1 .. COEFFS |->
     IF i > 1 /\ BandOf[i] = LL3 /\ BandOf[i - 1] = LL3 THEN q[i] - q[i - 1] ELSE q[i]]

\* A component's first pass: its code, and what the decoder holds after.
CodedFirst(c, base, stage) ==
  LET q == Whole([i \in 1 .. COEFFS |->
             LET p  == Shift(stage, c, i)
                 sb == target[c][i] - base[i]
             IN  (IF sb < 0 THEN sb + Carry(i, p) ELSE sb) \div 2 ^ p])
  IN  [data |-> Rlgr1Encode(Whole(LowDifferences(q))),
       held |-> [coeffs |-> [i \in 1 .. COEFFS |-> base[i] + q[i] * 2 ^ Shift(stage, c, i)],
                 sign   |-> [i \in 1 .. COEFFS |-> Sign(q[i])]]]

\* The first pass towards the target at `stage`, as a difference from what the
\* decoder holds where that is better, and what it holds after.
CodeFirst(was, stage) ==
  LET diff == was # NoTile /\ PreferDiff(was.of)
      base(c) == IF diff THEN was.of[c].coeffs ELSE Zeros(COEFFS)
      coded == Forced([c \in Components |-> CodedFirst(c, base(c), stage)])
  IN  [pass |-> [difference |-> diff, stage |-> stage,
                 data |-> [c \in Components |-> coded[c].data]],
       held |-> [target |-> target, stage |-> stage,
                 of |-> [c \in Components |-> coded[c].held]]]

\* The coefficients an upgrade from a stage sends bits of: in run-length code those
\* whose sign is not known, the others as they are.
Sent(c, from, to, sign, unsigned) ==
  SelectSeq([i \in 1 .. COEFFS |-> i],
            LAMBDA i : /\ Shift(from, c, i) > Shift(to, c, i)
                       /\ (BandOf[i] # LL3 /\ sign[i] = 0) <=> unsigned)

\* A component's upgrade, and what the decoder holds after.
CodedUpgrade(c, was, goal, from, to) ==
  LET bits(i) == Shift(from, c, i) - Shift(to, c, i)
      p(i)    == Shift(to, c, i)
      rem(i)  == goal[i] - was.coeffs[i]
      srl     == Sent(c, from, to, was.sign, TRUE)
      raw     == Sent(c, from, to, was.sign, FALSE)
      low(i)  == IF BandOf[i] = LL3 THEN rem(i) \div 2 ^ p(i)
                 ELSE Magnitude(rem(i)) \div 2 ^ p(i)
      added(i) == IF i \in ToSet(srl) THEN TowardZero(rem(i), p(i))
                  ELSE IF i \notin ToSet(raw) THEN 0
                  ELSE IF BandOf[i] # LL3 /\ was.sign[i] < 0 THEN -low(i) ELSE low(i)
      values  == Whole([j \in DOMAIN srl |->
                   [v |-> TowardZero(rem(srl[j]), p(srl[j])), bits |-> bits(srl[j])]])
  IN  [data |-> [srl |-> Padded(Srl(values, 1, 8, 0)),
                 raw |-> Padded(FlattenSeq([j \in DOMAIN raw |-> Put(low(raw[j]), bits(raw[j]))]))],
       held |-> [coeffs |-> [i \in 1 .. COEFFS |-> was.coeffs[i] + added(i) * 2 ^ p(i)],
                 sign   |-> [i \in 1 .. COEFFS |->
                   IF i \in ToSet(srl) THEN Sign(added(i)) ELSE was.sign[i]]]]

\* The bits between the stage a tile is held at and `stage`, and what it holds after.
CodeUpgrade(h, stage) ==
  LET coded == Forced([c \in Components |->
                 CodedUpgrade(c, h.of[c], h.target[c], h.stage, stage)])
  IN  [pass |-> [stage |-> stage, data |-> [c \in Components |-> coded[c].data]],
       held |-> [h EXCEPT !.stage = stage, !.of = [c \in Components |-> coded[c].held]]]

-------------------------------------------------------------------------------
(* The decoder. *)

Bit(bits, at)     == IF at <= Len(bits) THEN bits[at] ELSE 0
Take(bits, at, n) ==
  LET value[i \in 0 .. n] == IF i = 0 THEN 0 ELSE 2 * value[i - 1] + Bit(bits, at + i - 1)
  IN  value[n]

\* The ones from `at` on.
Ones(bits, at) ==
  (CHOOSE n \in 0 .. Len(bits) + 1 :
     Bit(bits, at + n) = 0 /\ \A i \in 0 .. n - 1 : Bit(bits, at + i) = 1)

\* What a Golomb-Rice code at `at` says, the parameter and the place after it.
Gr(bits, at, krp) ==
  LET vk == Ones(bits, at)
      kr == krp \div 8
  IN  [code |-> vk * 2 ^ kr + Take(bits, at + vk + 1, kr),
       krp |-> Adapted(krp, vk), at |-> at + vk + 1 + kr]

\* A component's coefficients, `seen` of them read, whose next bit is at `at`.
RECURSIVE ReadRlgr1(_, _, _, _, _)
ReadRlgr1(bits, at, seen, kp, krp) ==
  LET k     == kp \div 8
      left  == Take(bits, at + 1, k)
      value == Gr(bits, at + 2 + k, krp)
      sign  == IF Bit(bits, at + 1 + k) = 1 THEN -1 ELSE 1
      plain == Gr(bits, at, krp)
  IN  IF Len(seen) >= COEFFS \/ at > Len(bits)
      THEN SubSeq(seen \o Zeros(COEFFS), 1, COEFFS)
      ELSE IF k > 0 /\ Bit(bits, at) = 0
      THEN ReadRlgr1(bits, at + 1, seen \o Zeros(2 ^ k), Raised(kp, 4), krp)
      ELSE IF k > 0
      THEN ReadRlgr1(bits, value.at, seen \o Zeros(left) \o <<sign * (value.code + 1)>>,
                     Lowered(kp, 6), value.krp)
      ELSE ReadRlgr1(bits, plain.at,
                     Append(seen, IF plain.code % 2 = 1 THEN -((plain.code + 1) \div 2)
                                  ELSE plain.code \div 2),
                     IF plain.code = 0 THEN Raised(kp, 3) ELSE Lowered(kp, 3), plain.krp)

\* The values of `widths` bits each that a run-length code carries.
RECURSIVE ReadSrl(_, _, _, _, _, _)
ReadSrl(bits, at, widths, seen, kp, zeros) ==
  LET k    == kp \div 8
      run  == Take(bits, at + 1, k)
      sign == IF Bit(bits, at + 1 + k) = 1 THEN -1 ELSE 1
      n    == widths[Len(seen) + run + 1]
      from == at + 2 + k
      mag  == CHOOSE m \in 1 .. 2 ^ n - 1 :
                /\ m = 2 ^ n - 1 \/ Bit(bits, from + m - 1) = 1
                /\ \A i \in 1 .. m - 1 : Bit(bits, from + i - 1) = 0
  IN  IF Len(seen) + zeros >= Len(widths) THEN SubSeq(seen \o Zeros(zeros), 1, Len(widths))
      ELSE IF zeros > 0 THEN ReadSrl(bits, at, widths, seen \o Zeros(zeros), kp, 0)
      ELSE IF Bit(bits, at) = 0
      THEN ReadSrl(bits, at + 1, widths, seen, Raised(kp, 4), 2 ^ k)
      ELSE IF Len(seen) + run >= Len(widths)
      THEN SubSeq(seen \o Zeros(run), 1, Len(widths))
      ELSE ReadSrl(bits, from + (IF n = 1 \/ mag = 2 ^ n - 1 THEN mag - 1 ELSE mag), widths,
                   seen \o Zeros(run) \o <<sign * mag>>, Lowered(kp, 6), 0)

\* LL3's coefficients from the differences.
Summed(q) ==
  LET ll == {i \in 1 .. COEFFS : BandOf[i] = LL3}
      sum[i \in 1 .. COEFFS] ==
        IF i > 1 /\ i \in ll /\ i - 1 \in ll THEN q[i] + sum[i - 1] ELSE q[i]
  IN  [i \in 1 .. COEFFS |-> sum[i]]

DecodeFirst(d, pass) ==
  [stage |-> pass.stage,
   of    |-> [c \in Components |->
     LET v == Whole(Summed(ReadRlgr1(pass.data[c], 1, <<>>, 8, 8)))
         was(i) == IF pass.difference /\ d # NoTile THEN d.of[c].coeffs[i] ELSE 0
     IN  [coeffs |-> [i \in 1 .. COEFFS |-> was(i) + v[i] * 2 ^ Shift(pass.stage, c, i)],
          sign   |-> [i \in 1 .. COEFFS |-> Sign(v[i])]]]]

\* A component's upgrade read: what it adds to each coefficient it sends bits of.
ReadUpgrade(c, was, from, to, data) ==
  LET srl == Sent(c, from, to, was.sign, TRUE)
      raw == Sent(c, from, to, was.sign, FALSE)
      bits(i) == Shift(from, c, i) - Shift(to, c, i)
      new == ReadSrl(data.srl, 1, Whole([j \in DOMAIN srl |-> bits(srl[j])]), <<>>, 8, 0)
      at[j \in 1 .. Len(raw) + 1] == IF j = 1 THEN 1 ELSE at[j - 1] + bits(raw[j - 1])
      sign(i) == IF BandOf[i] # LL3 /\ was.sign[i] < 0 THEN -1 ELSE 1
  IN  [i \in ToSet(srl) |-> new[CHOOSE j \in DOMAIN srl : srl[j] = i]]
        @@ [i \in ToSet(raw) |-> LET j == CHOOSE j \in DOMAIN raw : raw[j] = i
                                 IN  sign(i) * Take(data.raw, at[j], bits(i))]

DecodeUpgrade(d, pass) ==
  [stage |-> pass.stage,
   of    |-> [c \in Components |->
     LET was == d.of[c]
         added == ReadUpgrade(c, was, d.stage, pass.stage, pass.data[c])
         new   == ToSet(Sent(c, d.stage, pass.stage, was.sign, TRUE))
         add(i) == IF i \in DOMAIN added THEN added[i] ELSE 0
     IN  [coeffs |-> [i \in 1 .. COEFFS |->
                       was.coeffs[i] + add(i) * 2 ^ Shift(pass.stage, c, i)],
          sign   |-> [i \in 1 .. COEFFS |-> IF i \in new THEN Sign(add(i)) ELSE was.sign[i]]]]]

-------------------------------------------------------------------------------
ProgressiveInit ==
  /\ target \in FirstPictures
  /\ turns = 0
  /\ held = NoTile /\ ready = NoPass /\ decoder = NoTile

\* The tile shows something else: between updates, when nothing is coded ahead.
ChangeTile ==
  /\ turns < MaxTurns /\ ready = NoPass
  /\ \E c \in Components, i \in Places, v \in Values :
       target' = [target EXCEPT ![c][i] = v]
  /\ turns' = turns + 1
  /\ UNCHANGED <<held, ready, decoder>>

\* A first pass at `stage`, or whole where that would cost little more.
CodeTile(stage) == {CodeFirst(held, at) : at \in {stage, WHOLE}}

\* A pass coded ahead, on another thread, against what the decoder holds now.
Precode(stage) ==
  /\ ready = NoPass
  /\ \E coded \in CodeTile(stage) :
       ready' = [stage |-> stage, pass |-> coded.pass, held |-> coded.held]
  /\ UNCHANGED <<target, turns, held, decoder>>

\* The tile's first pass of an update: the one coded ahead, where it is of the
\* same stage, or one coded now.
FirstOrFull(stage) ==
  /\ \E coded \in IF ready # NoPass /\ ready.stage = stage THEN {ready} ELSE CodeTile(stage) :
       /\ held' = coded.held
       /\ decoder' = DecodeFirst(decoder, coded.pass)
  /\ ready' = NoPass
  /\ UNCHANGED <<target, turns>>

\* A whole first pass, of a tile that is to settle and is not held.
First ==
  /\ held = NoTile
  /\ LET coded == CodeFirst(held, WHOLE)
     IN  held' = coded.held /\ decoder' = DecodeFirst(decoder, coded.pass)
  /\ ready' = NoPass
  /\ UNCHANGED <<target, turns>>

SendUpgrade(stage) ==
  /\ held # NoTile /\ held.stage < stage
  /\ LET coded == CodeUpgrade(held, stage)
     IN  held' = coded.held /\ decoder' = DecodeUpgrade(decoder, coded.pass)
  /\ UNCHANGED <<target, turns>>

(* Mutant: a pass coded ahead of an upgrade is left for the next first pass. *)
UpgradeKeepsReady(stage) == SendUpgrade(stage) /\ UNCHANGED ready

\* The bits between the stage the tile stands at and a later one.
Upgrade(stage) == SendUpgrade(stage) /\ ready' = NoPass

\* Something else was drawn over the tile: a copy, a slot of the cache.
ForgetTile ==
  /\ held # NoTile
  /\ held' = NoTile /\ ready' = NoPass
  /\ UNCHANGED <<target, turns, decoder>>

\* The update is over: what was coded ahead and nothing asked for.
DropReady ==
  /\ ready # NoPass
  /\ ready' = NoPass
  /\ UNCHANGED <<target, turns, held, decoder>>

ProgressiveNext ==
  \/ ChangeTile \/ First \/ ForgetTile \/ DropReady
  \/ \E stage \in 1 .. WHOLE : Precode(stage) \/ FirstOrFull(stage) \/ Upgrade(stage)

(* Where the encoder holds the tile for the client, the client's decoder holds  *)
(* just that, every coefficient, sign and stage of it, whatever passes came in  *)
(* whatever order, the ones coded ahead among them: what the encoder codes the  *)
(* next pass against is never confirmed (progressive.rs:21-24).                 *)
DecoderHolds ==
  held # NoTile =>
    decoder = [stage |-> held.stage, of |-> held.of]

(* What a stage leaves out is what it holds back: of LL3 a floor, of the others *)
(* less than its bits toward zero, on the side the decoder has the sign of, so  *)
(* that the bits an upgrade sends are enough and the full stage holds the tile  *)
(* itself (upgrade's assertions).                                               *)
StagesHoldBack ==
  held # NoTile =>
    \A c \in Components, i \in 1 .. COEFFS :
      LET rem  == held.target[c][i] - held.of[c].coeffs[i]
          bits == 2 ^ Shift(held.stage, c, i)
      IN  /\ Magnitude(rem) < bits
          /\ BandOf[i] = LL3 => rem >= 0
          /\ BandOf[i] # LL3 /\ held.of[c].sign[i] # 0 => rem * held.of[c].sign[i] >= 0
=============================================================================
