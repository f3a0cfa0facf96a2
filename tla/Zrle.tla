----------------------------------- MODULE Zrle ---------------------------------
(* rfb/zrle.rs and rfb/pixel.rs: a rectangle as the ZRLE tiles of a client that  *)
(* has neither Tiles nor video, in the pixel format the client asked for, and   *)
(* the reader the tests hold it to.                                             *)
(*                                                                              *)
(* A pixel is <<blue, green, red>>; a pixel's value is the four bytes of the    *)
(* integer, the lowest first.  A rectangle is drawn a stroke at a time, in the  *)
(* order of its pixels.  zlib is left out: it gives back the bytes it was given. *)
EXTENDS Integers, SequencesExt, TLC

CONSTANTS
  TILE,          \* The tile edge: 64 in the code.
  MAX_PALETTE,   \* The largest palette a tile may carry: 127 in the code.
  Rectangles,    \* <<width, height>> of the rectangles encoded.
  Lengths,       \* The lengths of a stroke,
  Cycles,        \* and how many colours in turn it is drawn with.
  MaxStrokes,    \* Bound: the strokes drawn in one rectangle.
  Shifts         \* The channel shifts a client asks for.

ZrleAssumption ==
  /\ TILE \in Nat \ {0} /\ MAX_PALETTE \in 16 .. 127
  /\ Rectangles \subseteq (Nat \ {0}) \X (Nat \ {0})
  /\ Shifts \subseteq 0 .. 31
ASSUME ZrleAssumption

VARIABLES
  format,    \* The client's pixel format.
  strokes,   \* What was drawn: [cycle, length] one after the other.
  rect,      \* <<width, height>> of the rectangle.
  tiles      \* The tiles of the rectangle encoded, before zlib, or NotEncoded.

zrleVars == <<format, strokes, rect, tiles>>

NotEncoded == <<>>

-------------------------------------------------------------------------------
(* pixel.rs.  A format is [depth, big_endian, shifts of blue, green and red]. *)

NATIVE == [depth |-> 24, big_endian |-> FALSE, shifts |-> <<0, 8, 16>>]

Overlap(s, t) == s < t + 8 /\ t < s + 8

\* Whether this server can produce the format.
Check(f) ==
  /\ \A c \in 1 .. 3 : f.shifts[c] <= 24
  /\ \A c, d \in 1 .. 3 : c # d => ~Overlap(f.shifts[c], f.shifts[d])

\* What a channel shifted left by s puts into byte i of the integer, from 0.
ShiftedByte(channel, s, i) ==
  IF i = s \div 8 THEN (channel * 2 ^ (s % 8)) % 256
  ELSE IF i = s \div 8 + 1 THEN (channel * 2 ^ (s % 8)) \div 256
  ELSE 0

Value(f, px) ==
  [i \in 1 .. 4 |-> ShiftedByte(px[1], f.shifts[1], i - 1)
                  + ShiftedByte(px[2], f.shifts[2], i - 1)
                  + ShiftedByte(px[3], f.shifts[3], i - 1)]

\* The pixel a value stands for, a client's way.
Bgrx(f, value) ==
  [c \in 1 .. 3 |->
     LET s == f.shifts[c]
         high == IF s \div 8 + 2 > 4 THEN 0 ELSE value[s \div 8 + 2]
     IN  ((value[s \div 8 + 1] + 256 * high) \div 2 ^ (s % 8)) % 256]

PixelBytes(f, value) == IF f.big_endian THEN Reverse(value) ELSE value

\* Whether the colour bits fit in the integer's byte i.
Touches(f, i) == \E c \in 1 .. 3 : f.shifts[c] < 8 * (i + 1) /\ f.shifts[c] + 8 > 8 * i

(* Mutant: the byte order is forgotten where the top byte carries nothing. *)
CpixelAnyOrder(f) ==
  IF f.depth > 24 THEN <<0, 4>>
  ELSE IF ~Touches(f, 3) THEN <<0, 3>>
  ELSE IF ~Touches(f, 0) THEN (IF f.big_endian THEN <<0, 3>> ELSE <<1, 3>>)
  ELSE <<0, 4>>

\* Where a CPIXEL sits in the pixel's bytes: <<offset, length>>.
Cpixel(f) ==
  IF f.depth > 24 THEN <<0, 4>>
  ELSE IF ~Touches(f, 3) THEN (IF f.big_endian THEN <<1, 3>> ELSE <<0, 3>>)
  ELSE IF ~Touches(f, 0) THEN (IF f.big_endian THEN <<0, 3>> ELSE <<1, 3>>)
  ELSE <<0, 4>>

WriteCpixel(f, value) ==
  SubSeq(PixelBytes(f, value), Cpixel(f)[1] + 1, Cpixel(f)[1] + Cpixel(f)[2])

ReadCpixel(f, bytes) ==
  LET pixel == [i \in 1 .. 4 |-> IF i \in Cpixel(f)[1] + 1 .. Cpixel(f)[1] + Cpixel(f)[2]
                                 THEN bytes[i - Cpixel(f)[1]] ELSE 0]
  IN  IF f.big_endian THEN Reverse(pixel) ELSE pixel

-------------------------------------------------------------------------------
(* zrle.rs: the encoder. *)

(* Mutant: a run of exactly 256 is taken to need one byte. *)
RunLengthBytesLate(len) == (len - 2) \div 255 + 1

\* How many bytes a run of len costs: len - 1 in bytes of 255, a last one under.
RunLengthBytes(len) == (len - 1) \div 255 + 1

RunLength(len) ==
  [i \in 1 .. (len - 1) \div 255 |-> 255] \o <<(len - 1) % 255>>

CeilDiv(a, b) == (a + b - 1) \div b
Least(a, b)   == IF a < b THEN a ELSE b

\* A tile's runs, [value, length] each.
Runs(tile) ==
  LET heads == SelectSeq([i \in DOMAIN tile |-> i],
                         LAMBDA i : i = 1 \/ tile[i] # tile[i - 1])
      ends  == Append(Tail(heads), Len(tile) + 1)
  IN  [r \in DOMAIN heads |->
        [value |-> tile[heads[r]], length |-> ends[r] - heads[r]]]

\* The distinct values of runs in the order they come, up to one too many.
Palette(runs) ==
  LET firsts == SelectSeq([r \in DOMAIN runs |-> r],
                          LAMBDA r : \A q \in 1 .. r - 1 : runs[q].value # runs[r].value)
  IN  [i \in 1 .. Least(Len(firsts), MAX_PALETTE + 1) |-> runs[firsts[i]].value]

Index(palette, value) == (CHOOSE i \in DOMAIN palette : palette[i] = value) - 1

Bits(colours) == IF colours = 2 THEN 1 ELSE IF colours <= 4 THEN 2 ELSE 4

\* A row of palette indices at `bits` each, the last byte's low bits left clear.
PackedRow(indices, bits) ==
  LET per == 8 \div bits
      at(i) == IF i <= Len(indices) THEN indices[i] ELSE 0
  IN  [b \in 1 .. CeilDiv(Len(indices) * bits, 8) |->
        LET byte[j \in 0 .. per] ==
              IF j = 0 THEN 0 ELSE byte[j - 1] * 2 ^ bits + at((b - 1) * per + j)
        IN  byte[per]]

Former(s) == SubSeq(s, 1, Len(s) \div 2)
Latter(s) == SubSeq(s, Len(s) \div 2 + 1, Len(s))

\* The sum of costs, and sequences one after the other: of the halves, each its own.
RECURSIVE Total(_)
Total(costs) ==
  CASE Len(costs) = 0 -> 0
    [] Len(costs) = 1 -> costs[1]
    [] OTHER          -> Total(Former(costs)) + Total(Latter(costs))

RECURSIVE Joined(_)
Joined(seqs) ==
  CASE Len(seqs) = 0 -> <<>>
    [] Len(seqs) = 1 -> seqs[1]
    [] OTHER         -> Joined(Former(seqs)) \o Joined(Latter(seqs))

\* What each shape a tile may take is estimated to cost, beside its first byte.
Costs(f, tile, w, h) ==
  LET runs    == Runs(tile)
      colours == Len(Palette(runs))
      clen    == Cpixel(f)[2]
      whole   == colours <= MAX_PALETTE
  IN  [raw        |-> Len(tile) * clen,
       plain_rle  |-> Total([r \in DOMAIN runs |-> clen + RunLengthBytes(runs[r].length)])]
      @@ (IF whole /\ colours = 1 THEN [solid |-> clen] ELSE <<>>)
      @@ (IF whole /\ colours \in 2 .. 16
          THEN [packed |-> colours * clen + h * CeilDiv(w * Bits(colours), 8)] ELSE <<>>)
      @@ (IF whole /\ colours > 1
          THEN [palette_rle |-> colours * clen
                 + Total([r \in DOMAIN runs |->
                     IF runs[r].length = 1 THEN 1 ELSE 1 + RunLengthBytes(runs[r].length)])]
          ELSE <<>>)

\* A tile in a shape: the subencoding byte, then the shape's body.
InShape(f, tile, w, h, shape) ==
  LET runs    == Runs(tile)
      palette == Palette(runs)
      colours == Joined([c \in DOMAIN palette |-> WriteCpixel(f, palette[c])])
      index   == [v \in ToSet(palette) |-> Index(palette, v)]
      row(y)  == [x \in 1 .. w |-> index[tile[(y - 1) * w + x]]]
  IN  CASE shape = "raw" ->
             <<0>> \o Joined([i \in DOMAIN tile |-> WriteCpixel(f, tile[i])])
        [] shape = "solid" -> <<1>> \o colours
        [] shape = "packed" ->
             <<Len(palette)>> \o colours
               \o Joined([y \in 1 .. h |-> PackedRow(row(y), Bits(Len(palette)))])
        [] shape = "plain_rle" ->
             <<128>> \o Joined([r \in DOMAIN runs |->
               WriteCpixel(f, runs[r].value) \o RunLength(runs[r].length)])
        [] shape = "palette_rle" ->
             <<128 + Len(palette)>> \o colours
               \o Joined([r \in DOMAIN runs |->
                    IF runs[r].length = 1 THEN <<index[runs[r].value]>>
                    ELSE <<index[runs[r].value] + 128>> \o RunLength(runs[r].length)])

\* The order the shapes are tried in: the first of the cheapest is taken.
ShapesInOrder == <<"solid", "raw", "packed", "palette_rle", "plain_rle">>

EncodeTile(f, tile, w, h) ==
  LET costs == Costs(f, tile, w, h)
      tried == SelectSeq(ShapesInOrder, LAMBDA s : s \in DOMAIN costs)
      cost(i) == costs[tried[i]]
      best  == CHOOSE i \in DOMAIN tried :
                 /\ \A j \in DOMAIN tried : cost(i) <= cost(j)
                 /\ \A j \in 1 .. i - 1 : cost(i) < cost(j)
  IN  InShape(f, tile, w, h, tried[best])

\* The tiles of a rectangle, left to right and top to bottom: where each begins
\* and how large it is, the last of a row and of a column what is left.
Cut(w, h) ==
  LET across == CeilDiv(w, TILE)
  IN  [t \in 1 .. across * CeilDiv(h, TILE) |->
        LET x == ((t - 1) % across) * TILE
            y == ((t - 1) \div across) * TILE
        IN  [x |-> x, y |-> y, w |-> Least(TILE, w - x), h |-> Least(TILE, h - y)]]

\* The pixels of a tile, of a rectangle w wide, and their values.
TilePixels(pixels, w, cut) ==
  [i \in 1 .. cut.w * cut.h |->
    pixels[(cut.y + (i - 1) \div cut.w) * w + cut.x + ((i - 1) % cut.w) + 1]]

TileOf(f, pixels, w, cut) ==
  LET px == TilePixels(pixels, w, cut) IN [i \in DOMAIN px |-> Value(f, px[i])]

EncodeRect(f, pixels, w, h) ==
  [t \in DOMAIN Cut(w, h) |->
    LET cut == Cut(w, h)[t]
    IN  EncodeTile(f, TileOf(f, pixels, w, cut), cut.w, cut.h)]

-------------------------------------------------------------------------------
(* The reader. *)

\* The CPIXELs of a tile's bytes, from byte `at`, as many as n.
ReadCpixels(f, bytes, at, n) ==
  [i \in 1 .. n |->
    ReadCpixel(f, SubSeq(bytes, at + (i - 1) * Cpixel(f)[2], at + i * Cpixel(f)[2] - 1))]

\* A run's length at byte `at`, and the byte after it.
ReadRun(bytes, at) ==
  LET last == CHOOSE i \in at .. Len(bytes) : bytes[i] # 255 /\ \A j \in at .. i - 1 : bytes[j] = 255
  IN  [length |-> 255 * (last - at) + bytes[last] + 1, next |-> last + 1]

\* A tile of n values read on from `seen` by runs, of CPIXELs or of a palette's
\* entries: 2^k runs at most.
RECURSIVE ReadRuns(_, _, _, _, _, _)
ReadRuns(k, f, bytes, palette, n, seen) ==
  LET at   == seen.at
      c    == IF palette = <<>> THEN Cpixel(f)[2] ELSE 1
      run  == IF palette = <<>> \/ bytes[at] >= 128 THEN ReadRun(bytes, at + c)
              ELSE [length |-> 1, next |-> at + c]
      value == IF palette = <<>> THEN ReadCpixel(f, SubSeq(bytes, at, at + c - 1))
               ELSE palette[(bytes[at] % 128) + 1]
  IN  IF Len(seen.tile) >= n THEN seen
      ELSE IF k = 0
      THEN [tile |-> seen.tile \o [i \in 1 .. run.length |-> value], at |-> run.next]
      ELSE ReadRuns(k - 1, f, bytes, palette, n,
                    ReadRuns(k - 1, f, bytes, palette, n, seen))

\* A w by h tile's values, and the byte after the last it took.
ReadTile(f, bytes, w, h) ==
  LET sub     == bytes[1]
      clen    == Cpixel(f)[2]
      colours == IF sub = 1 THEN 1 ELSE IF sub \in 2 .. 16 THEN sub ELSE sub - 128
      palette == ReadCpixels(f, bytes, 2, colours)
      body    == 2 + colours * clen
      bits    == Bits(sub)
      across  == CeilDiv(w * bits, 8)
      packed(i) ==
        LET bit == ((i - 1) % w) * bits
            byte == bytes[body + ((i - 1) \div w) * across + bit \div 8]
        IN  palette[((byte \div 2 ^ (8 - bits - (bit % 8))) % 2 ^ bits) + 1]
  IN  CASE sub = 0  -> [tile |-> ReadCpixels(f, bytes, 2, w * h), at |-> 2 + w * h * clen]
        [] sub = 1  -> [tile |-> [i \in 1 .. w * h |-> palette[1]], at |-> body]
        [] sub \in 2 .. 16 ->
             [tile |-> [i \in 1 .. w * h |-> packed(i)], at |-> body + h * across]
        [] sub = 128 -> ReadRuns(12, f, bytes, <<>>, w * h, [tile |-> <<>>, at |-> 2])
        [] sub > 129 -> ReadRuns(12, f, bytes, palette, w * h, [tile |-> <<>>, at |-> body])

-------------------------------------------------------------------------------
\* Colour k of those drawn: no two alike, and none whose channels are alike.
Colour(k) == <<k, 255 - k, (k * 3 + 1) % 256>>

\* The rectangle's pixels: the strokes one after the other, then colour 0.
Pixels ==
  LET drawn == Joined([s \in DOMAIN strokes |->
                 [i \in 1 .. strokes[s].length |-> Colour((i % strokes[s].cycle) + strokes[s].from)]])
      n     == rect[1] * rect[2]
  IN  [i \in 1 .. n |-> IF i <= Len(drawn) THEN drawn[i] ELSE Colour(0)]

Drawn == Total([s \in DOMAIN strokes |-> strokes[s].length])

ZrleInit ==
  /\ format = NATIVE
  /\ strokes = <<>>
  /\ rect \in Rectangles
  /\ tiles = NotEncoded

\* session.rs, SetPixelFormat: one the server can produce, or the session ends.
SetPixelFormat ==
  /\ format = NATIVE /\ strokes = <<>> /\ tiles = NotEncoded
  /\ \E shifts \in [1 .. 3 -> Shifts], depth \in {24, 32}, big_endian \in BOOLEAN :
       LET asked == [depth |-> depth, big_endian |-> big_endian, shifts |-> shifts]
       IN  Check(asked) /\ format' = asked
  /\ UNCHANGED <<strokes, rect, tiles>>

Stroke ==
  /\ format = NATIVE /\ tiles = NotEncoded
  /\ Len(strokes) < MaxStrokes
  /\ \E n \in Lengths, k \in Cycles, c \in {0, 1} :
       /\ Drawn + n <= rect[1] * rect[2]
       /\ k <= n
       /\ strokes' = Append(strokes, [length |-> n, cycle |-> k, from |-> c])
  /\ UNCHANGED <<format, rect, tiles>>

\* The rectangle of an update, cut into tiles and each written.
SendRect ==
  /\ tiles = NotEncoded
  /\ tiles' = EncodeRect(format, Pixels, rect[1], rect[2])
  /\ UNCHANGED <<format, strokes, rect>>

ZrleNext == SetPixelFormat \/ Stroke \/ SendRect

(* Every tile is read back as the very pixels, to its last byte, whatever shape *)
(* it was given and whatever format the client asked for and was granted: run   *)
(* lengths, rows of packed indices, the palette's limit and the bytes a CPIXEL  *)
(* leaves out (zrle.rs:1-24, pixel.rs:128-151).                                 *)
ZrleReturns ==
  \A t \in DOMAIN tiles :
    LET cut  == Cut(rect[1], rect[2])[t]
        read == ReadTile(format, tiles[t], cut.w, cut.h)
    IN  /\ read.at = Len(tiles[t]) + 1
        /\ [i \in DOMAIN read.tile |-> Bgrx(format, read.tile[i])]
             = TilePixels(Pixels, rect[1], cut)

(* What the estimates chose is what was cheapest: no other shape the tile may   *)
(* take would have been fewer bytes (zrle.rs:3-6).                              *)
ZrleIsLeast ==
  \A t \in DOMAIN tiles :
    LET cut   == Cut(rect[1], rect[2])[t]
        tile  == TileOf(format, Pixels, rect[1], cut)
        shapes == DOMAIN Costs(format, tile, cut.w, cut.h)
    IN  \A shape \in shapes :
          Len(tiles[t]) <= Len(InShape(format, tile, cut.w, cut.h, shape))
=============================================================================
