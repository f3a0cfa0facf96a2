---------------------------------- MODULE H264 ----------------------------------
(* The H.264 of a session (src/h264, rfb/video.rs): which encoder the startup    *)
(* finds; the planes kept of the picture in front of it, converted where it      *)
(* changed; the frames of a stream, whose reference and numbers the daemon keeps *)
(* itself on the hardware; and the headers it writes for that, bit by bit.       *)
(*                                                                               *)
(* libva, libx264 and the conversion of a pixel are external: luma stands for    *)
(* its pixel, chroma for the pixels of its block, and a coded frame for the      *)
(* planes it is of and the picture it refers to.  Nothing is lost on TCP.        *)
EXTENDS Integers, SequencesExt, FiniteSetsExt

CONSTANTS
  StreamSizes,   \* <<width, height>> of the desktop or region.
  Patches,       \* What is painted on it: [x, y, width, height].
  MaxPaints,     \* Bound: how often.
  RenderNodes,   \* How many render nodes there are.
  LOG2_MAX_FRAME_NUM,   \* Frame numbers count to its power of two: 8 in the code.
  MAX_SINCE_IDR, \* Frames after an IDR at which the next is one: 2^30 in the code.
  IDR_IDS,       \* IDR numbers count to this: 65536 in the code.
  CodedSizes,    \* The sizes parameter sets are written of,
  Dials,         \* the qualities slices are asked at,
  Elements,      \* and the syntax elements written otherwise,
  MaxElements    \* Bound: so many of these.

H264Assumption ==
  /\ LOG2_MAX_FRAME_NUM \in 4 .. 16 /\ MAX_SINCE_IDR \in Nat \ {0}
  /\ IDR_IDS \in 2 .. 65536
  /\ \A s \in StreamSizes : s[1] > 0 /\ s[2] > 0
ASSUME H264Assumption

VARIABLES
  found,     \* The encoder the startup found.
  screen,    \* The picture, as it was when last read and last coded, and what
             \* of it was painted since it was read.
  nv12,      \* Planes.
  stream,    \* The encoder over them.
  shows,     \* The client's decoder.
  header     \* A header as it is written: its syntax elements and how it ends.

h264Vars == <<found, screen, nv12, stream, shows, header>>

MAX_FRAME_NUM == 2 ^ LOG2_MAX_FRAME_NUM
NoSurface == [surface |-> -1]
NoPicture == [filled |-> FALSE]

-------------------------------------------------------------------------------
(* Which encoder. *)

\* Each render node in turn, its low-power encoder ahead of the shader one.
Hardware ==
  FlattenSeq([n \in 1 .. RenderNodes |-> <<<<"vaapi", n, "low-power">>, <<"vaapi", n, "shader">>>>])

X264 == <<"x264">>

\* The first of them that codes the trial's two frames, libx264 after them all.
FindEncoder(hardware, working) ==
  LET tried == SelectSeq((IF hardware THEN Hardware ELSE <<>>) \o <<X264>>,
                         LAMBDA e : e \in working)
  IN  IF tried = <<>> THEN <<>> ELSE Head(tried)

-------------------------------------------------------------------------------
(* Planes. *)

Evened(n) == n + (n % 2)
Under(n)  == 0 .. n - 1
AtMost(a, b) == IF a < b THEN a ELSE b

BLACK == -1
GREY  == <<>>

\* Planes::new: black, of the size rounded up to even sides.
NewPlanes(size) ==
  [filled |-> FALSE,
   y  |-> [p \in Under(Evened(size[1])) \X Under(Evened(size[2])) |-> BLACK],
   uv |-> [p \in Under(Evened(size[1]) \div 2) \X Under(Evened(size[2]) \div 2) |-> GREY]]

(* Mutant: a rectangle is widened on the left and the top alone. *)
WidenedBefore(size, rect) ==
  [left   |-> rect.x - (rect.x % 2),
   top    |-> rect.y - (rect.y % 2),
   right  |-> AtMost(rect.x + rect.width, size[1]),
   bottom |-> AtMost(Evened(rect.y + rect.height), Evened(size[2]))]

\* The rectangle widened to whole blocks within the picture, and on to the coded
\* picture's even height at the bottom.
Widened(size, rect) ==
  [left   |-> rect.x - (rect.x % 2),
   top    |-> rect.y - (rect.y % 2),
   right  |-> AtMost(Evened(rect.x + rect.width), size[1]),
   bottom |-> AtMost(Evened(rect.y + rect.height), Evened(size[2]))]

\* The converter's luma and chroma; an odd height's last row is there twice.
Luma(at, size, p) == at[<<p[1], AtMost(p[2], size[2] - 1)>>]
Chroma(at, size, block, right) ==
  [d \in {e \in Under(2) \X Under(2) : 2 * block[1] + e[1] < right} |->
     Luma(at, size, <<2 * block[1] + d[1], 2 * block[2] + d[2]>>)]

\* convert, a rectangle of the picture.
Convert(planes, size, at, rect) ==
  LET w == Widened(size, rect)
      columns == w.left .. w.right - 1
      pairs   == w.top \div 2 .. w.bottom \div 2 - 1
  IN  IF w.left >= w.right \/ w.top >= w.bottom THEN planes
      ELSE [planes EXCEPT
              !.y = [p \in DOMAIN @ |->
                       IF p[1] \in columns /\ p[2] \div 2 \in pairs
                       THEN Luma(at, size, p) ELSE @[p]],
              !.uv = [b \in DOMAIN @ |->
                        IF 2 * b[1] \in columns /\ b[2] \in pairs
                        THEN Chroma(at, size, b, w.right) ELSE @[b]]]

WholePicture(size) == [x |-> 0, y |-> 0, width |-> size[1], height |-> size[2]]

\* read_bgrx: what changed where that is known, or everything where it is not or
\* nothing was read yet.
ReadBgrx(planes, size, at, known, changed) ==
  IF known /\ planes.filled
  THEN FoldLeft(LAMBDA m, rect : Convert(m, size, at, rect), planes, changed)
  ELSE [Convert(planes, size, at, WholePicture(size)) EXCEPT !.filled = TRUE]

-------------------------------------------------------------------------------
(* A stream. *)

NewStream ==
  [recon |-> [s \in 0 .. 1 |-> NoPicture], reference |-> NoSurface,
   frame_num |-> 0, since_idr |-> 0, idr_pic_id |-> 0]

\* A client's decoder before the first frame.
NewDecoder ==
  [sound |-> TRUE, picture |-> NoPicture, frame_num |-> 0, offset |-> 0,
   idr_pic_id |-> -1]

\* A stream is opened over a desktop of this size.
NewScreen(size) ==
  LET All(shade) == [p \in Under(size[1]) \X Under(size[2]) |-> shade]
  IN  [size |-> size, at |-> All(0), seen |-> All(BLACK), coded |-> All(BLACK),
       changed |-> <<>>, paints |-> 0]

Opened(size) ==
  /\ screen = NewScreen(size) /\ nv12 = NewPlanes(size)
  /\ stream = NewStream /\ shows = NewDecoder

H264Init ==
  /\ \E hardware \in BOOLEAN, working \in SUBSET (ToSet(Hardware) \cup {X264}) :
       found = FindEncoder(hardware, working) /\ found # <<>>
  /\ \E size \in StreamSizes : Opened(size)
  /\ header = [elements |-> <<>>, ends |-> "open"]

\* Something on the desktop changes.
Paint ==
  /\ screen.paints < MaxPaints
  /\ \E patch \in Patches :
       LET over == {p \in DOMAIN screen.at : /\ p[1] \in patch.x .. patch.x + patch.width - 1
                                             /\ p[2] \in patch.y .. patch.y + patch.height - 1}
           shade == screen.paints + 1
       IN  /\ patch.x + patch.width <= screen.size[1]
           /\ patch.y + patch.height <= screen.size[2]
           /\ screen' = [screen EXCEPT
                !.at = [p \in DOMAIN @ |-> IF p \in over THEN shade ELSE @[p]],
                !.changed = Append(@, patch), !.paints = shade]
  /\ UNCHANGED <<found, nv12, stream, shows, header>>

\* The session reads the damage since, or a picture that may differ anywhere.
ReadPicture ==
  /\ screen.seen # screen.at
  /\ \E known \in BOOLEAN :
       nv12' = ReadBgrx(nv12, screen.size, screen.at, known, screen.changed)
  /\ screen' = [screen EXCEPT !.seen = screen.at, !.changed = <<>>]
  /\ UNCHANGED <<found, stream, shows, header>>

\* The QP a dial asks for.
Qp(quality) ==
  LET q == IF quality < 1 THEN 1 ELSE AtMost(quality, 100)
  IN  40 - ((q - 1) * 24 + 49) \div 99

\* A decoder of one reference: its picture is the one a P frame has to refer to,
\* the numbers have no gap and count its order (type 2), and an IDR after an IDR
\* has another id.
Decoding(unit) ==
  LET wrapped == shows.frame_num > unit.frame_num
      offset  == IF unit.idr THEN 0 ELSE shows.offset + (IF wrapped THEN MAX_FRAME_NUM ELSE 0)
      expected == IF unit.idr THEN unit.idr_pic_id # shows.idr_pic_id /\ unit.frame_num = 0
                  ELSE /\ shows.picture.filled /\ unit.refers = shows.picture
                       /\ unit.frame_num = (shows.frame_num + 1) % MAX_FRAME_NUM
                       /\ unit.poc = 2 * (offset + unit.frame_num)
  IN  [sound |-> shows.sound /\ expected, picture |-> unit.planes,
       frame_num |-> unit.frame_num, offset |-> offset,
       idr_pic_id |-> IF unit.idr THEN unit.idr_pic_id ELSE -1]

Goes(unit) ==
  /\ shows' = Decoding(unit)
  /\ screen' = [screen EXCEPT !.coded = screen.seen]

(* Mutant: every picture is reconstructed on the first surface. *)
CurrentFirst(s) == 0

\* The reconstructed surface the reference is not on.
Current(s) == IF s.reference = NoSurface THEN 0 ELSE 1 - s.reference.surface

(* Mutant: an IDR that is due starts no numbers over. *)
NumbersRunOn(s, idr) == s

\* An IDR starts the frame numbers over.
Numbers(s, idr) == IF idr THEN [s EXCEPT !.frame_num = 0, !.since_idr = 0] ELSE s

\* What a frame that was coded leaves for the next: the reference is on this one.
Referred(s, idr, current, planes) ==
  [recon |-> [s.recon EXCEPT ![current] = planes],
   reference |-> [surface |-> current],
   frame_num |-> (s.frame_num + 1) % MAX_FRAME_NUM,
   since_idr |-> s.since_idr + 1,
   idr_pic_id |-> (s.idr_pic_id + (IF idr THEN 1 ELSE 0)) % IDR_IDS]

\* Backend::frame on the hardware, where the driver took all and flagged nothing.
HardwareFrame(keyframe) ==
  /\ found[1] = "vaapi" /\ nv12.filled
  /\ LET idr == \/ keyframe \/ stream.reference = NoSurface
                \/ stream.since_idr >= MAX_SINCE_IDR
         s    == Numbers(stream, idr)
         next == Referred(s, idr, Current(s), nv12)
     IN  /\ Goes([idr |-> idr, frame_num |-> s.frame_num, poc |-> 2 * s.since_idr,
                  idr_pic_id |-> s.idr_pic_id, planes |-> nv12,
                  refers |-> IF idr THEN NoPicture ELSE next.recon[s.reference.surface]])
         /\ stream' = next
  /\ UNCHANGED <<found, nv12, header>>

\* Backend::frame of libx264, which keeps the reference and the numbers itself.
SoftwareFrame ==
  /\ found = X264 /\ nv12.filled
  /\ shows' = [shows EXCEPT !.picture = nv12]
  /\ stream' = [stream EXCEPT !.reference = [surface |-> 0]]
  /\ screen' = [screen EXCEPT !.coded = screen.seen]
  /\ UNCHANGED <<found, nv12, header>>

\* The desktop is another size, or a frame failed and with it the session, its
\* unit neither sent nor the reference: the next stream is opened.
OpenAnother ==
  /\ stream.reference # NoSurface
  /\ \E size \in StreamSizes :
       screen' = NewScreen(size) /\ nv12' = NewPlanes(size)
  /\ stream' = NewStream /\ shows' = NewDecoder
  /\ UNCHANGED <<found, header>>

-------------------------------------------------------------------------------
(* Headers: syntax elements <<kind, value, bits>>, u, ue or se. *)

U(value, n)  == <<"u", value, n>>
Flag(b)      == U(IF b THEN 1 ELSE 0, 1)
Ue(value)    == <<"ue", value, 0>>
Se(value)    == <<"se", value, 0>>

BitsOf(value, n) == [i \in 1 .. n |-> (value \div 2 ^ (n - i)) % 2]

\* How many bits value has.
BitLength(value) == CHOOSE n \in 1 .. 30 : 2 ^ (n - 1) <= value /\ value < 2 ^ n

ExpGolomb(value) ==
  LET coded == value + 1
  IN  BitsOf(0, BitLength(coded) - 1) \o BitsOf(coded, BitLength(coded))

ElementBits(e) ==
  CASE e[1] = "u"  -> BitsOf(e[2], e[3])
    [] e[1] = "ue" -> ExpGolomb(e[2])
    [] e[1] = "se" -> ExpGolomb(IF e[2] > 0 THEN 2 * e[2] - 1 ELSE -2 * e[2])

ByteValue(bits) == FoldLeft(LAMBDA v, b : 2 * v + b, 0, bits)

(* Mutant: a prevention byte does not end the run of zeroes. *)
PutByteCounting(written, byte) ==
  LET prevented == written.zeros >= 2 /\ byte <= 3
  IN  [out   |-> written.out \o (IF prevented THEN <<3, byte>> ELSE <<byte>>),
       zeros |-> IF byte = 0 THEN written.zeros + 1 ELSE 0]

\* A byte is written, a prevention byte ahead of it where it would end a start code.
PutByte(written, byte) ==
  LET prevented == written.zeros >= 2 /\ byte <= 3
      zeros     == IF prevented THEN 0 ELSE written.zeros
  IN  [out   |-> written.out \o (IF prevented THEN <<3, byte>> ELSE <<byte>>),
       zeros |-> IF byte = 0 THEN zeros + 1 ELSE 0]

\* rbsp_trailing_bits, or a slice header's cabac_alignment_one_bits.
Ending(ends, n) ==
  IF ends = "trailing" THEN <<1>> \o BitsOf(0, 7 - (n % 8))
  ELSE [i \in 1 .. (8 - (n % 8)) % 8 |-> 1]

\* A unit's bytes past its start code and header.
Written(elements, ends) ==
  LET bits == FlattenSeq([i \in DOMAIN elements |-> ElementBits(elements[i])])
      all  == bits \o Ending(ends, Len(bits))
  IN  FoldLeft(PutByte, [out |-> <<>>, zeros |-> 0],
               [i \in 1 .. Len(all) \div 8 |-> ByteValue(SubSeq(all, 8 * i - 7, 8 * i))]).out

\* H.264's table A-1: level, its largest frame and its rate, in macroblocks.
LEVELS ==
  <<<<10, 99, 1485>>, <<11, 396, 3000>>, <<12, 396, 6000>>, <<13, 396, 11880>>,
    <<20, 396, 11880>>, <<21, 792, 19800>>, <<22, 1620, 20250>>, <<30, 1620, 40500>>,
    <<31, 3600, 108000>>, <<32, 5120, 216000>>, <<40, 8192, 245760>>,
    <<42, 8704, 522240>>, <<50, 22080, 589824>>, <<51, 36864, 983040>>,
    <<52, 36864, 2073600>>, <<60, 139264, 4177920>>, <<62, 139264, 16711680>>>>
FPS == 60

\* The first that holds the frame, its longer side and 60 of it a second.
LevelIdc(mbs) ==
  LET frame == mbs[1] * mbs[2]
      side  == IF mbs[1] > mbs[2] THEN mbs[1] ELSE mbs[2]
      holds == SelectSeq(LEVELS, LAMBDA l : /\ frame <= l[2] /\ side * side <= 8 * l[2]
                                            /\ frame * FPS <= l[3])
  IN  IF holds = <<>> THEN 62 ELSE Head(holds)[1]

Mbs(size)  == <<(size[1] + 15) \div 16, (size[2] + 15) \div 16>>
Crop(size) == <<(Mbs(size)[1] * 16 - size[1]) \div 2, (Mbs(size)[2] * 16 - size[2]) \div 2>>

Sps(size) ==
  LET mbs  == Mbs(size)
      crop == Crop(size)
      off  == Flag(FALSE)
      on   == Flag(TRUE)
  IN  <<U(100, 8), U(0, 8), U(LevelIdc(mbs), 8), Ue(0), Ue(1), Ue(0), Ue(0), off, off,
        Ue(LOG2_MAX_FRAME_NUM - 4), Ue(2), Ue(1), off, Ue(mbs[1] - 1), Ue(mbs[2] - 1),
        on, on, Flag(crop # <<0, 0>>)>>
      \o (IF crop = <<0, 0>> THEN <<>> ELSE <<Ue(0), Ue(crop[1]), Ue(0), Ue(crop[2])>>)
      \o <<on, off, off, on, U(5, 3), off, on, U(6, 8), U(6, 8), U(6, 8),
           off, off, off, off, off, on, on, Ue(0), Ue(0), Ue(15), Ue(15), Ue(0), Ue(1)>>

PIC_INIT_QP == 26
Pps ==
  <<Ue(0), Ue(0), Flag(TRUE), Flag(FALSE), Ue(0), Ue(0), Ue(0), Flag(FALSE), U(0, 2),
    Se(PIC_INIT_QP - 26), Se(0), Se(0), Flag(TRUE), Flag(FALSE), Flag(FALSE), Flag(TRUE),
    Flag(FALSE), Se(0)>>

SliceHeader(s) ==
  <<Ue(0), Ue(IF s.idr THEN 2 ELSE 0), Ue(0), U(s.frame_num, LOG2_MAX_FRAME_NUM)>>
  \o (IF s.idr THEN <<Ue(s.idr_pic_id), Flag(FALSE), Flag(FALSE)>>
      ELSE <<Flag(FALSE), Flag(FALSE), Flag(FALSE), Ue(0)>>)
  \o <<Se(s.qp - PIC_INIT_QP), Ue(0), Se(0), Se(0)>>

\* A header of a stream's is written.
WriteHeader ==
  /\ header = [elements |-> <<>>, ends |-> "open"]
  /\ \/ \E size \in CodedSizes : header' = [elements |-> Sps(size), ends |-> "trailing"]
     \/ header' = [elements |-> Pps, ends |-> "trailing"]
     \/ \E idr \in BOOLEAN, n \in {0, MAX_FRAME_NUM - 1}, id \in {0, 32767, 65535}, q \in Dials :
          header' = [elements |-> SliceHeader([idr |-> idr, frame_num |-> IF idr THEN 0 ELSE n,
                                               idr_pic_id |-> id, qp |-> Qp(q)]),
                     ends |-> "aligned"]
  /\ UNCHANGED <<found, screen, nv12, stream, shows>>

\* Any elements are written, one after the other.
WriteElement ==
  /\ header.ends = "open" /\ Len(header.elements) < MaxElements
  /\ \E e \in Elements : header' = [header EXCEPT !.elements = Append(@, e)]
  /\ UNCHANGED <<found, screen, nv12, stream, shows>>

StreamNext ==
  \/ Paint \/ ReadPicture \/ SoftwareFrame \/ OpenAnother
  \/ \E keyframe \in BOOLEAN : HardwareFrame(keyframe)

HeaderNext == WriteHeader \/ WriteElement

-------------------------------------------------------------------------------
(* A decoder's reading of a unit. *)

\* The bytes without the prevention ones.
Unescaped(bytes) ==
  FoldLeft(LAMBDA r, byte :
             IF r.zeros = 2 /\ byte = 3 THEN [r EXCEPT !.zeros = 0]
             ELSE [out |-> Append(r.out, byte), zeros |-> IF byte = 0 THEN r.zeros + 1 ELSE 0],
           [out |-> <<>>, zeros |-> 0], bytes).out

\* The values of these kinds of elements in these bits, and what is left of them.
Parsed(bits, elements) ==
  LET Golombed(from) ==
        LET n == CHOOSE k \in 0 .. 30 : bits[from + k] = 1 /\ \A i \in 0 .. k - 1 : bits[from + i] = 0
        IN  [used |-> 2 * n + 1, value |-> ByteValue(SubSeq(bits, from + n, from + 2 * n)) - 1]
      Signed(v) == IF v % 2 = 1 THEN (v + 1) \div 2 ELSE -(v \div 2)
      one(from, e) ==
        IF e[1] = "u"
        THEN [used |-> e[3], value |-> ByteValue(SubSeq(bits, from, from + e[3] - 1))]
        ELSE LET g == Golombed(from)
             IN  [g EXCEPT !.value = IF e[1] = "se" THEN Signed(@) ELSE @]
      read == FoldLeft(LAMBDA r, e : LET o == one(r.at, e)
                                     IN  [at |-> r.at + o.used, values |-> Append(r.values, o.value)],
                       [at |-> 1, values |-> <<>>], elements)
  IN  [values |-> read.values, left |-> SubSeq(bits, read.at, Len(bits))]

(* A header is read back as it was written, up to the bits it ends on a byte     *)
(* with, and nothing in it reads as a start code, whatever its elements are      *)
(* (syntax.rs:10-13).                                                            *)
HeadersAreRead ==
  header.elements # <<>> =>
    LET ends  == IF header.ends = "open" THEN "trailing" ELSE header.ends
        bytes == Written(header.elements, ends)
        plain == Unescaped(bytes)
        read  == Parsed(FlattenSeq([i \in DOMAIN plain |-> BitsOf(plain[i], 8)]), header.elements)
    IN  /\ read.values = [i \in DOMAIN header.elements |-> header.elements[i][2]]
        /\ read.left = Ending(ends, 8 * Len(plain) - Len(read.left))
        /\ \A i \in 1 .. Len(bytes) - 2 :
             ~(bytes[i] = 0 /\ bytes[i + 1] = 0 /\ bytes[i + 2] <= 2)

\* The planes of a picture: luma of each pixel, an odd height's last row again
\* below it and black past an odd width, and chroma of all the pixels of a block.
PlanesOf(size, at) ==
  [filled |-> TRUE,
   y  |-> [p \in DOMAIN nv12.y |-> IF p[1] < size[1] THEN Luma(at, size, p) ELSE BLACK],
   uv |-> [b \in DOMAIN nv12.uv |-> Chroma(at, size, b, size[1])]]

(* The planes are the picture as it was read, whatever parts of it were read     *)
(* again; and the client's decoder never meets a frame it has not the reference  *)
(* or the numbers for, over keyframes asked at any time and the numbers' wraps,  *)
(* and shows the picture that was coded last (h264/mod.rs:295-300, vaapi.rs:15-23). *)
StreamsDecode ==
  /\ nv12.filled => nv12 = PlanesOf(screen.size, screen.seen)
  /\ shows.sound
  /\ shows.picture.filled => shows.picture = PlanesOf(screen.size, screen.coded)
=============================================================================
