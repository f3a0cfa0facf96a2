\* Video, on a link that may be slowed: the turn of a frame that waits.
SPECIFICATION UpdatesFairSpec
CONSTANTS
  Tiles <- TwoTiles
  Sizes <- TwoSizes
  Clients <- NoClient
  LogLimit = 2
  MaxRects = 1
  MaxGeneration = 5
  Encoders <- SureVideo
  Fences = TRUE
  Requests <- Incremental
PROPERTY CatchesUp
CHECK_DEADLOCK FALSE
