\* Two tiles of three colours, a cache of two slots, two streams, three stages;
\* and of each coding what reaches its control bytes' limits.
SPECIFICATION PictureSpec
CONSTANTS
  red = red
  green = green
  blue = blue
  Width = 2
  Colours <- ThreeColours
  CACHE_SLOTS = 2
  MAX_STREAMS = 2
  FULL = 2
  Pictures = {"held", "lossless", "progressive"}
  MaxChanges = 2
  MaxRestarts = 1
  PlaneCount = 2
  Widths = {70, 18}
  Height = 2
  Shades = {0, 255}
  Starts = {1, 3}
  Stretches = {2, 4, 48}
  MaxStretches = 2
  TILE = 17
  MAX_PALETTE = 127
  Rectangles <- TileAndLess
  Lengths = {2, 140, 255, 256}
  Cycles = {1, 3, 5, 127, 128}
  MaxStrokes = 2
  Shifts = {0, 4, 8, 16, 17, 24}
  Components = {1, 3}
  COUNTS <- FewOfEachBand
  FirstPictures <- FlatAndBusy
  Places = {1, 20}
  Values = {6}
  MaxTurns = 1
  LineLengths = {6, 7}
  Samples <- FewSamples
  Levels = {0, 1, 77, 255}
  StreamSizes <- OddAndEven
  Patches <- TwoPatches
  MaxPaints = 2
  RenderNodes = 1
  LOG2_MAX_FRAME_NUM = 4
  MAX_SINCE_IDR = 18
  IDR_IDS = 2
  CodedSizes <- ThreeSizes
  Dials = {0, 1, 50, 100, 255}
  Elements <- FewElements
  MaxElements = 3
SYMMETRY AnyColour
INVARIANTS PictureIsHeld CodingsReturn
CHECK_DEADLOCK FALSE
