--------------------------------- MODULE Wavelet --------------------------------
(* rfb/progressive.rs: what comes before a progressive tile's passes and after  *)
(* them - the colours in 11.5 fixed point, and a line's low and high halves by  *)
(* the reduce-extrapolate wavelet, one that is even extrapolated by a sample    *)
(* and one that is odd mirrored at both ends.                                   *)
EXTENDS Integers, Sequences

CONSTANTS
  LineLengths,   \* The lengths of the lines transformed: 64, 33 and 17 in the code.
  Samples,       \* The samples of a line,
  Levels         \* and the channels' levels of a pixel.

WaveletAssumption ==
  /\ LineLengths \subseteq Nat /\ \A n \in LineLengths : n > 4
  /\ Samples \subseteq -4096 .. 4095 /\ Levels \subseteq 0 .. 255
ASSUME WaveletAssumption

VARIABLES
  line,    \* The samples of a line, none of them yet known,
  length,  \* and how many they are.
  px       \* A pixel, <<blue, green, red>>.

waveletVars == <<line, length, px>>

-------------------------------------------------------------------------------
\* v / 2 towards zero, as the decoder halves; and half rounded down.
Halved(v) == IF v < 0 THEN -((-v) \div 2) ELSE v \div 2
Shifted(v) == v \div 2

BandL(n) == n \div 2 + 1
BandH(n) == n - BandL(n)

(* Mutant: an even line's last low coefficient is its last sample, unextrapolated. *)
NotExtrapolated(x, n) == IF n % 2 = 0 THEN <<x[n]>> ELSE <<>>

\* The low coefficient an even line has more: the sample extrapolated past its end.
Extrapolated(x, n) == IF n % 2 = 0 THEN <<2 * x[n] - x[n - 1]>> ELSE <<>>

\* dwt_line: sample i of the code is x[i + 1] here, and so for low and high.
High(x, n) ==
  [k \in 1 .. BandH(n) |-> Shifted(x[2 * k] - Halved(x[2 * k - 1] + x[2 * k + 1]))]

Low(x, n) ==
  LET high == High(x, n)
      nh   == BandH(n)
  IN  [k \in 1 .. nh + 1 |->
         IF k = 1 THEN x[1] + high[1]
         ELSE IF k <= nh THEN x[2 * k - 1] + Halved(high[k - 1] + high[k])
         ELSE x[2 * k - 1] + (IF n % 2 = 0 THEN Halved(high[nh]) ELSE high[nh])]
      \o Extrapolated(x, n)

\* idwt_line: the even samples first, then those between them.
InverseLine(low, high, n) ==
  LET nh == Len(high)
      even(k) == IF k = 1 THEN low[1] - high[1]
                 ELSE IF k <= nh THEN low[k] - Halved(high[k - 1] + high[k])
                 ELSE low[k] - (IF n % 2 = 0 THEN Halved(high[nh]) ELSE high[nh])
  IN  [i \in 1 .. n |->
         IF i % 2 = 1 THEN even((i + 1) \div 2)
         ELSE IF i = n THEN Halved(even(nh + 1) + low[nh + 2])
         ELSE Halved(even(i \div 2) + even(i \div 2 + 1)) + 2 * high[i \div 2]]

-------------------------------------------------------------------------------
\* A pixel's Y, Cb and Cr, and back: the protocol's fixed point.
ToYCbCr(p) ==
  <<(p[3] * 9798 + p[2] * 19235 + p[1] * 3735) \div 1024 - 4096,
    (p[1] * 16403 - p[2] * 10868 - p[3] * 5535) \div 1024,
    (p[3] * 16377 - p[2] * 13714 - p[1] * 2663) \div 1024>>

Clamped(v) == IF v < 0 THEN 0 ELSE IF v > 255 THEN 255 ELSE v

ToBgrx(w) ==
  LET y == (w[1] + 4096) * 65536
  IN  <<Clamped((y + w[2] * 115992) \div 2097152),
        Clamped((y - w[2] * 22527 - w[3] * 46819) \div 2097152),
        Clamped((y + w[3] * 91916) \div 2097152)>>

-------------------------------------------------------------------------------
WaveletInit ==
  /\ line = <<>> /\ length \in LineLengths
  /\ px \in [1 .. 3 -> Levels]

\* A line of any samples; its colours are another matter.
AnyLine ==
  /\ line = <<>> /\ px = <<0, 0, 0>>
  /\ line' \in [1 .. length -> Samples]
  /\ UNCHANGED <<length, px>>

WaveletNext == AnyLine

Near(a, b) == a - b \in -1 .. 1

(* A line comes back from its halves to within one of every sample, whatever    *)
(* its ends are and whichever way its values round, and so does every channel   *)
(* of a colour, which the fixed point leaves in the clamp of the reference      *)
(* (the_wavelet_inverts, the_colours_need_no_clamp).                            *)
TransformsInvert ==
  /\ Len(line) = length =>
       \A i \in 1 .. length :
         Near(InverseLine(Low(line, length), High(line, length), length)[i], line[i])
  /\ \A c \in 1 .. 3 : /\ ToYCbCr(px)[c] \in -4096 .. 4095
                       /\ Near(ToBgrx(ToYCbCr(px))[c], px[c])
=============================================================================
