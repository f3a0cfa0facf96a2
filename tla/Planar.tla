---------------------------------- MODULE Planar --------------------------------
(* rfb/planar.rs: the lossless coding of a rectangle, RDP 6.0's planar bitmap,  *)
(* and the reader the tests hold it to (rfb/planar_decoder.rs).                 *)
(*                                                                              *)
(* A rectangle is drawn a stretch at a time and packed; the packer's working    *)
(* space stays for the thread's next rectangle, which may be of another width.  *)
(* A pixel is a byte on each of Planes.  zstd is left out: it gives back the    *)
(* bytes it was given.                                                          *)
EXTENDS Integers, SequencesExt

CONSTANTS
  PlaneCount,      \* The planes a pixel is cut into.
  Widths,          \* The widths of the rectangles packed.
  Height,          \* Their height.
  Shades,          \* The bytes drawn with.
  Starts,          \* Where in a row a stretch begins,
  Stretches,       \* and how long it is.
  MaxStretches     \* Bound: the stretches drawn in one rectangle.

PlanarAssumption ==
  /\ PlaneCount \in Nat \ {0}
  /\ Widths \subseteq Nat \ {0} /\ Height \in Nat \ {0}
  /\ Shades \subseteq 0 .. 255
ASSUME PlanarAssumption

Planes == 1 .. PlaneCount

NIBBLE    == 15
RUN_LEAST == 3

VARIABLES
  rectangle,   \* [pixels, stretches]: what is being drawn, row by row.
  rows,        \* [zero, width]: a row of zeroes as coded, kept between rectangles.
  bitmap       \* What was packed of the rectangle, or NotPacked.

planarVars == <<rectangle, rows, bitmap>>

NotPacked == [rle |-> FALSE, bytes |-> <<>>]

Repeat(v, n) == [i \in 1 .. n |-> v]

-------------------------------------------------------------------------------
(* The encoder. *)

\* A row's difference from the row above, folded: the sign the bottom bit.
Fold(d) == IF d < 128 THEN 2 * d ELSE 2 * (255 - d) + 1

\* Plane k's bytes of row y: as they are on top, else the folded difference.
Difference(pixels, y, k) ==
  [x \in DOMAIN pixels[y] |->
     IF y = 1 THEN pixels[y][x][k]
     ELSE Fold((pixels[y][x][k] - pixels[y - 1][x][k]) % 256)]

\* How many bytes of the row from `at` are v.
RunOf(row, at, v) ==
  Min({i \in at .. Len(row) : row[i] # v} \cup {Len(row) + 1}) - at

\* The first places from `from` that begin four bytes alike: one, or none.
FourAlike(row, from) ==
  LET alike == {i \in from .. Len(row) - 3 : \A d \in 1 .. 3 : row[i] = row[i + d]}
  IN  IF alike = {} THEN {} ELSE {Min(alike)}

(* Mutant: a long run may be one longer than its nibble holds. *)
LongestRunOneMore(run) == IF run < 48 THEN run ELSE 48

\* The most of a run one control byte carries.
LongestRun(run) == IF run < 32 + NIBBLE THEN run ELSE 32 + NIBBLE

\* A run on its own: control bytes of 3 or more, one or two bytes as they are.
RECURSIVE LongRun(_, _)
LongRun(run, v) ==
  IF run = 0 THEN <<>>
  ELSE IF run < RUN_LEAST THEN <<16 * run>> \o Repeat(v, run)
  ELSE LET take == LongestRun(run)
           control == IF take >= 32 THEN (16 * (take - 32) + 2) % 256
                      ELSE IF take >= 16 THEN 16 * (take - 16) + 1
                      ELSE take
       IN  <<control>> \o LongRun(run - take, v)

\* Literals as they are, then a run of v, which is the last of them.
RECURSIVE Segments(_, _, _)
Segments(literals, run, v) ==
  IF Len(literals) > NIBBLE
  THEN <<16 * NIBBLE>> \o SubSeq(literals, 1, NIBBLE)
         \o Segments(SubSeq(literals, NIBBLE + 1, Len(literals)), run, v)
  ELSE LET short == IF run <= NIBBLE THEN run ELSE 0
           some  == literals # <<>> \/ short > 0
       IN  (IF some THEN <<16 * Len(literals) + short>> \o literals ELSE <<>>)
             \o LongRun(IF some THEN run - short ELSE run, v)

\* The row from `from`: literals up to four bytes alike, then a run of the last.
RECURSIVE SegmentsFrom(_, _)
SegmentsFrom(row, from) ==
  IF from > Len(row) THEN <<>>
  ELSE IF FourAlike(row, from) = {} THEN Segments(SubSeq(row, from, Len(row)), 0, 0)
  ELSE LET i   == CHOOSE i \in FourAlike(row, from) : TRUE
           run == RunOf(row, i + 1, row[i])
       IN  Segments(SubSeq(row, from, i), run, row[i])
             \o SegmentsFrom(row, i + 1 + run)

\* One row as segments, a run of zeroes at its start first.
Scanline(row) ==
  LET run == RunOf(row, 1, 0)
  IN  IF run >= RUN_LEAST THEN Segments(<<>>, run, 0) \o SegmentsFrom(row, 1 + run)
      ELSE SegmentsFrom(row, 1)

SameColours(a, b) == a = b

(* Mutant: the row of zeroes is coded once for the thread, whatever the width. *)
ZeroRowOnce(kept, w) ==
  IF kept.width # 0 THEN kept ELSE [zero |-> Scanline(Repeat(0, w)), width |-> w]

\* The row of zeroes as coded, coded anew where the width is another.
ZeroRow(kept, w) ==
  IF kept.width = w THEN kept ELSE [zero |-> Scanline(Repeat(0, w)), width |-> w]

\* Plane k coded: every row of it, one like the row above by the row of zeroes.
CodedPlane(pixels, k, zero) ==
  FlattenSeq([y \in DOMAIN pixels |->
    IF y > 1 /\ SameColours(pixels[y], pixels[y - 1]) THEN zero
    ELSE Scanline(Difference(pixels, y, k))])

\* The planes as they are, and the padding byte that form ends with.
PlanesAsTheyAre(pixels) ==
  FlattenSeq([k \in Planes |->
    FlattenSeq([y \in DOMAIN pixels |-> [x \in DOMAIN pixels[y] |-> pixels[y][x][k]]])])
    \o <<0>>

\* The planar bitmap: the segments, unless they come to more than the planes.
Encode(pixels, zero) ==
  LET coded == FlattenSeq([k \in Planes |-> CodedPlane(pixels, k, zero)])
      bytes == PlaneCount * Len(pixels) * Len(pixels[1])
  IN  IF Len(coded) < bytes + 1 THEN [rle |-> TRUE, bytes |-> coded]
      ELSE [rle |-> FALSE, bytes |-> PlanesAsTheyAre(pixels)]

-------------------------------------------------------------------------------
(* The reader. *)

Unfold(v) == IF v % 2 = 0 THEN v \div 2 ELSE -(v \div 2) - 1

NotARow == [row |-> <<>>, at |-> 0]

\* The rest of a row of w bytes, `row` read of it, whose next byte is bytes[at].
RECURSIVE ReadRow(_, _, _, _)
ReadRow(bytes, at, row, w) ==
  LET low  == bytes[at] % 16
      high == bytes[at] \div 16
      run  == CASE low = 1 -> 16 + high
                [] low = 2 -> 32 + high
                [] OTHER   -> low
      raw  == IF low \in {1, 2} THEN 0 ELSE high
      seen == row \o SubSeq(bytes, at + 1, at + raw)
      last == IF seen = <<>> THEN 0 ELSE seen[Len(seen)]
  IN  IF Len(row) = w THEN [row |-> row, at |-> at]
      ELSE IF \/ at > Len(bytes) \/ at + raw > Len(bytes)
              \/ raw + run = 0   \/ Len(row) + raw + run > w
           THEN NotARow
      ELSE ReadRow(bytes, at + 1 + raw, seen \o Repeat(last, run), w)

\* A plane's `left` rows more, read under those above.
RECURSIVE ReadPlane(_, _, _, _, _)
ReadPlane(bytes, at, above, left, w) ==
  IF left = 0 THEN [rows |-> above, at |-> at]
  ELSE LET read == ReadRow(bytes, at, <<>>, w)
           up   == above[Len(above)]
           row  == IF above = <<>> THEN read.row
                   ELSE [x \in 1 .. w |-> (up[x] + Unfold(read.row[x])) % 256]
       IN  IF read = NotARow THEN [rows |-> above, at |-> 0]
           ELSE ReadPlane(bytes, read.at, Append(above, row), left - 1, w)

\* Every plane of a bitmap whose segments begin at `at`, and where they end.
RECURSIVE ReadPlanes(_, _, _, _, _)
ReadPlanes(bytes, at, planes, h, w) ==
  IF Len(planes) = PlaneCount THEN [planes |-> planes, at |-> at]
  ELSE LET plane == ReadPlane(bytes, at, <<>>, h, w)
       IN  IF plane.at = 0 THEN [planes |-> planes, at |-> 0]
           ELSE ReadPlanes(bytes, plane.at, Append(planes, plane.rows), h, w)

\* The planes an h rows of w bitmap carries, and the byte after it.
Decode(body, h, w) ==
  IF body.rle THEN ReadPlanes(body.bytes, 1, <<>>, h, w)
  ELSE [planes |-> [k \in Planes |-> [y \in 1 .. h |->
          SubSeq(body.bytes, ((k - 1) * h + y - 1) * w + 1, ((k - 1) * h + y) * w)]],
        at     |-> PlaneCount * h * w + 2]

-------------------------------------------------------------------------------
Blank(w) ==
  [pixels    |-> [y \in 1 .. Height |-> [x \in 1 .. w |-> [k \in Planes |-> 0]]],
   stretches |-> 0]

PlanarInit ==
  /\ \E w \in Widths : rectangle = Blank(w)
  /\ rows = [zero |-> <<>>, width |-> 0]
  /\ bitmap = NotPacked

Across(pixels) == Len(pixels[1])

\* A stretch of row y in one colour, or of grain no two bytes of which are alike.
DrawStretch ==
  /\ bitmap = NotPacked
  /\ rectangle.stretches < MaxStretches
  /\ \E y \in 1 .. Height, from \in Starts, n \in Stretches,
        shade \in [Planes -> Shades], grain \in {0, 37} :
       LET last == from + n - 1
       IN  /\ last <= Across(rectangle.pixels)
           /\ rectangle' =
                [pixels    |-> [rectangle.pixels EXCEPT ![y] =
                   [x \in DOMAIN @ |->
                      IF x \in from .. last
                      THEN [k \in Planes |-> (shade[k] + grain * (x - from)) % 256]
                      ELSE @[x]]],
                 stretches |-> rectangle.stretches + 1]
  /\ UNCHANGED <<rows, bitmap>>

\* The rectangle packed with the thread's working space.
PackRectangle ==
  /\ bitmap = NotPacked
  /\ rows' = ZeroRow(rows, Across(rectangle.pixels))
  /\ bitmap' = Encode(rectangle.pixels, rows'.zero)
  /\ UNCHANGED rectangle

\* The thread's next rectangle.
NextRectangle ==
  /\ bitmap # NotPacked
  /\ \E w \in Widths : rectangle' = Blank(w)
  /\ bitmap' = NotPacked
  /\ UNCHANGED rows

PlanarNext == DrawStretch \/ PackRectangle \/ NextRectangle

(* What was packed is read back as the very pixels, to its last byte: no run    *)
(* or literal too long for its control byte, no row that runs on into the next, *)
(* no row of zeroes left from a rectangle of another width (planar.rs:11-18).   *)
PlanarReturns ==
  bitmap # NotPacked =>
    LET pixels == rectangle.pixels
        read   == Decode(bitmap, Height, Across(pixels))
    IN  /\ read.at = Len(bitmap.bytes) + 1
        /\ read.planes =
             [k \in Planes |-> [y \in 1 .. Height |->
                [x \in 1 .. Across(pixels) |-> pixels[y][x][k]]]]
=============================================================================
