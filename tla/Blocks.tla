--------------------------------- MODULE Blocks ---------------------------------
(* The coding of the desktop's sound (rfb/audio.rs, crates/wlshare-proto's       *)
(* audio.rs): the capture's buffers, of any length, made frames of twenty        *)
(* milliseconds, FLAC or Opus, of the format the client set.                     *)
(*                                                                               *)
(* sound-flac and libopus are external: a frame is the samples it was coded      *)
(* from, though of Opus they are near them only.  Sound has the queue behind.    *)
EXTENDS Integers, SequencesExt

CONSTANTS
  MIN_FREQUENCY, MAX_FREQUENCY,         \* 8 kHz and 96 kHz in the code.
  OPUS_BITRATE_MIN, OPUS_BITRATE_MAX,   \* 6 and 510 kbit/s.
  OPUS_RATES,      \* The frequencies Opus is coded at.
  Frequencies,     \* Those clients ask for,
  BitRates,        \* and the bit rates, 0 where none was set.
  Captured,        \* The capture's buffers: [bytes, offset, size].
  MaxCaptured      \* Bound: so many of them.

ASSUME BlocksAssumption ==
  /\ MIN_FREQUENCY >= 50 /\ MAX_FREQUENCY >= MIN_FREQUENCY
  /\ OPUS_BITRATE_MIN > 0 /\ MaxCaptured \in Nat

VARIABLE
  sounds    \* The stream: its codec and format; the samples pending; the frames
            \* the client was sent; and what was captured, in how many buffers.

NotCoded == [codec |-> "none"]

SampleFormats == {"U8", "S8", "U16", "S16"}
SampleBytes(s) == IF s \in {"U8", "S8"} THEN 1 ELSE 2
Unsigned(s)    == s \in {"U8", "U16"}

FrameBytes(f)  == SampleBytes(f.sample) * f.channels
BlockFrames(f) == f.frequency \div 50
BlockBytes(f)  == BlockFrames(f) * FrameBytes(f)

Checked(f)        == f.channels \in 1 .. 2 /\ f.frequency \in MIN_FREQUENCY .. MAX_FREQUENCY
CheckBitrate(b)   == b \in OPUS_BITRATE_MIN .. OPUS_BITRATE_MAX

\* AudioEncoder::new; an Opus stream wants its rate set.
NewCoder(codec, f, bitrate) ==
  IF Checked(f) /\ (codec = "opus" => CheckBitrate(bitrate) /\ f.frequency \in OPUS_RATES)
  THEN [codec |-> codec, format |-> f, pending |-> <<>>, sent |-> <<>>,
        captured |-> <<>>, buffers |-> 0]
  ELSE NotCoded

BlocksInit == sounds = NotCoded

-------------------------------------------------------------------------------
(* Samples. *)

\* The top bit of a byte.
Flipped(byte) == (byte + 128) % 256

AsSigned(value, bits) == IF value >= 2 ^ (bits - 1) THEN value - 2 ^ bits ELSE value

(* Mutant: an unsigned sample's first byte is flipped. *)
SampleOfFirst(s, bytes) ==
  LET low == IF Unsigned(s) THEN Flipped(bytes[1]) ELSE bytes[1]
  IN  IF Len(bytes) = 1 THEN AsSigned(low, 8)
      ELSE AsSigned(low + 256 * bytes[2], 16)

\* A sample signed: an unsigned one has its top bit flipped, in its last byte.
SampleOf(s, bytes) ==
  LET high == IF Unsigned(s) THEN Flipped(Last(bytes)) ELSE Last(bytes)
  IN  IF Len(bytes) = 1 THEN AsSigned(high, 8)
      ELSE AsSigned(bytes[1] + 256 * high, 16)

InParts(seq, n) == [k \in 1 .. Len(seq) \div n |-> SubSeq(seq, (k - 1) * n + 1, k * n)]

FlacSamples(f, block) ==
  LET parts == InParts(block, SampleBytes(f.sample))
  IN  [i \in DOMAIN parts |-> SampleOf(f.sample, parts[i])]

\* Opus takes 16 bits: 8 become the high byte.
OpusSamples(f, block) ==
  LET flac == FlacSamples(f, block)
  IN  [i \in DOMAIN flac |-> IF SampleBytes(f.sample) = 1 THEN 256 * flac[i] ELSE flac[i]]

EncodeBlock(c, block) ==
  IF c.codec = "flac" THEN FlacSamples(c.format, block) ELSE OpusSamples(c.format, block)

-------------------------------------------------------------------------------
(* Blocks. *)

(* Mutant: what is left over a block goes with it. *)
PendingCleared(all, block) ==
  IF Len(all) >= block THEN <<>> ELSE all

\* What no block took is kept for the next buffer.
PendingAfter(all, block) == SubSeq(all, (Len(all) \div block) * block + 1, Len(all))

\* Pending::push: a frame for every whole block, in order.
PushSamples(c, samples) ==
  LET all    == c.pending \o samples
      blocks == InParts(all, BlockBytes(c.format))
  IN  [c EXCEPT !.pending = PendingAfter(all, BlockBytes(c.format)),
                !.sent = @ \o [k \in DOMAIN blocks |-> EncodeBlock(c, blocks[k])]]

StartCoding ==
  /\ sounds = NotCoded
  /\ \E codec \in {"flac", "opus"}, s \in SampleFormats, channels \in 0 .. 3,
        frequency \in Frequencies, bitrate \in BitRates :
       sounds' = NewCoder(codec, [sample |-> s, channels |-> channels, frequency |-> frequency],
                          bitrate)

\* The capture's process callback: whole frames alone, or the channels would be
\* swapped from there on.
ProcessBuffer ==
  /\ sounds # NotCoded /\ sounds.buffers < MaxCaptured
  /\ \E b \in Captured :
       LET end   == IF b.offset + b.size < Len(b.bytes) THEN b.offset + b.size ELSE Len(b.bytes)
           start == IF b.offset < Len(b.bytes) THEN b.offset ELSE Len(b.bytes)
           whole == ((end - start) \div FrameBytes(sounds.format)) * FrameBytes(sounds.format)
           taken == SubSeq(b.bytes, start + 1, start + whole)
       IN  /\ whole > 0
           /\ sounds' = [PushSamples(sounds, taken) EXCEPT
                           !.captured = @ \o taken, !.buffers = @ + 1]

BlocksNext == StartCoding \/ ProcessBuffer

-------------------------------------------------------------------------------
\* A sample of a frame as the client's decoder gives it back.
SampleBack(c, value) ==
  LET wide  == SampleBytes(c.format.sample) = 2
      width == IF wide THEN 16 ELSE 8
      of    == IF c.codec = "opus" /\ ~wide THEN value \div 256 ELSE value
      bits  == of % 2 ^ width
      Top(b) == IF Unsigned(c.format.sample) THEN Flipped(b) ELSE b
  IN  IF wide THEN <<bits % 256, Top(bits \div 256)>> ELSE <<Top(bits)>>

FrameBack(c, frame) == FlattenSeq([i \in DOMAIN frame |-> SampleBack(c, frame[i])])

(* The frames are the length the client takes every frame to be, and decode to   *)
(* the samples as they were captured, in the client's format, whatever buffers   *)
(* the capture gave; all that is not sent yet is less than one of them           *)
(* (rfb/audio.rs:103-108).                                                       *)
BlocksAreCaptured ==
  sounds # NotCoded =>
    /\ \A k \in DOMAIN sounds.sent :
         Len(sounds.sent[k]) = BlockFrames(sounds.format) * sounds.format.channels
    /\ FlattenSeq([k \in DOMAIN sounds.sent |-> FrameBack(sounds, sounds.sent[k])])
         \o sounds.pending = sounds.captured
    /\ Len(sounds.pending) < BlockBytes(sounds.format)
=============================================================================
