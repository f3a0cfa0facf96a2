\* Rectangles, and video whose encoder may make no frame, and every request.
SPECIFICATION UpdatesFairSpec
CONSTANTS
  Tiles <- TwoTiles
  Sizes <- TwoSizes
  Clients <- NoClient
  LogLimit = 2
  MaxRects = 1
  MaxGeneration = 6
  Encoders <- RectanglesOrVideo
  Fences = TRUE
  Requests <- AllRequests
INVARIANTS  ClientHasWhatIsSeen DecoderIsFed
PROPERTY RectanglesCatchUp
CHECK_DEADLOCK FALSE
