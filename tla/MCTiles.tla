-------------------------------- MODULE MCTiles -------------------------------
(* Instances of the picture a session sends, small enough for TLC: the tiles   *)
(* picture, whose colours are interchangeable, and what its rectangles are     *)
(* coded with.  They share no state, so each behaviour is of one of them.      *)
EXTENDS Tiles, Planar, Zrle, Progressive, Wavelet, H264

CONSTANTS red, green, blue

VARIABLE part    \* The one that runs.

tilesVars ==
  <<vars, planarVars, zrleVars, progressiveVars, waveletVars, h264Vars, part>>

ThreeColours == {red, green, blue}
AnyColour    == Permutations(ThreeColours)

\* A tile and a run's byte past it, a row of two tiles, and a column of two.
TileAndLess == {<<17, 17>>, <<20, 3>>, <<3, 20>>}

\* Bands of a few coefficients: one long enough for a run, LL3 for differences.
FewOfEachBand == <<10, 1, 1, 2, 1, 1, 1, 1, 1, 3>>

\* A flat tile and a busy one.
FlatAndBusy ==
  {[c \in Components |-> [i \in 1 .. COEFFS |-> 0]],
   [c \in Components |-> [i \in 1 .. COEFFS |-> ((i * 37 + c) % 41) - 20]]}

\* The extremes of a sample, and one that rounds the other way below zero.
FewSamples == {-4096, -3, 4095}

\* An odd width and height, which are coded even.
OddAndEven == {<<3, 3>>, <<4, 2>>}

\* A corner of a block, and one across two.
TwoPatches == {[x |-> 1, y |-> 1, width |-> 2, height |-> 1], [x |-> 2, y |-> 0, width |-> 1, height |-> 1]}

\* 1080p, the trial's, and a desktop wider than its macroblocks' level.
ThreeSizes == {<<1920, 1080>>, <<64, 64>>, <<4096, 2>>}

\* Bytes that prevention is about and numbers at a code's ends.
FewElements ==
  {<<"u", 0, 8>>, <<"u", 3, 8>>, <<"u", 1, 1>>, <<"ue", 0, 0>>, <<"ue", 7, 0>>, <<"ue", 65535, 0>>, <<"se", -3, 0>>}

\* A coding that does not run holds nothing.
PlanarIdle == rectangle = <<>> /\ rows = <<>> /\ bitmap = NotPacked
ZrleIdle   == format = NATIVE /\ strokes = <<>> /\ rect = <<>> /\ tiles = NotEncoded
ProgressiveIdle ==
  target = <<>> /\ turns = 0 /\ held = NoTile /\ ready = NoPass /\ decoder = NoTile
WaveletIdle == line = <<>> /\ length = 1 /\ px = <<0, 0, 0>>
H264Idle   ==
  /\ found = <<>> /\ header = [elements |-> <<>>, ends |-> "open"]
  /\ Opened(CHOOSE size \in StreamSizes : TRUE)

PictureInit ==
  /\ part \in {"tiles", "planar", "zrle", "progressive", "wavelet", "stream", "header"}
  /\ Init /\ (part = "tiles" \/ enc.picture = CHOOSE p \in Pictures : TRUE)
  /\ IF part = "planar" THEN PlanarInit ELSE PlanarIdle
  /\ IF part = "zrle" THEN ZrleInit ELSE ZrleIdle
  /\ IF part = "progressive" THEN ProgressiveInit ELSE ProgressiveIdle
  /\ IF part = "wavelet" THEN WaveletInit ELSE WaveletIdle
  /\ IF part = "stream" THEN H264Init ELSE H264Idle

PictureNext ==
  \/ /\ part = "tiles" /\ Next
     /\ UNCHANGED <<planarVars, zrleVars, progressiveVars, waveletVars, h264Vars, part>>
  \/ /\ part = "planar" /\ PlanarNext
     /\ UNCHANGED <<vars, zrleVars, progressiveVars, waveletVars, h264Vars, part>>
  \/ /\ part = "zrle" /\ ZrleNext
     /\ UNCHANGED <<vars, planarVars, progressiveVars, waveletVars, h264Vars, part>>
  \/ /\ part = "progressive" /\ ProgressiveNext
     /\ UNCHANGED <<vars, planarVars, zrleVars, waveletVars, h264Vars, part>>
  \/ /\ part = "wavelet" /\ WaveletNext
     /\ UNCHANGED <<vars, planarVars, zrleVars, progressiveVars, h264Vars, part>>
  \/ /\ \/ part = "stream" /\ StreamNext
        \/ part = "header" /\ HeaderNext
     /\ UNCHANGED <<vars, planarVars, zrleVars, progressiveVars, waveletVars, part>>

PictureSpec == PictureInit /\ [][PictureNext]_tilesVars

-------------------------------------------------------------------------------
(* What a client decodes of a rectangle is the picture it was coded from: planar *)
(* and ZRLE whatever the runs, palettes, pixel formats and sizes, ZRLE in the    *)
(* fewest bytes of its shapes, and to within one what the transforms under the   *)
(* progressive coding take apart, whatever the samples.  An H.264 stream's       *)
(* headers are read back as they were written, and its frames decode to the      *)
(* picture as it was when it was coded.  And however a tile changes, is coded    *)
(* ahead of its turn, sent in stages and forgotten, the client's coefficients are*)
(* the encoder's: whole after all the stages, and lacking between them what they *)
(* hold back.                                                                    *)
CodingsReturn ==
  /\ PlanarReturns /\ ZrleReturns /\ ZrleIsLeast /\ TransformsInvert
  /\ HeadersAreRead /\ StreamsDecode
  /\ DecoderHolds /\ StagesHoldBack
=============================================================================
