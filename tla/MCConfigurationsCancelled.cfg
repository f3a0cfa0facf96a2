\* A declaration meets a change somebody else made.
SPECIFICATION AskedSpec
CONSTANTS
  Parts = {"configurations"}
  Clients <- TwoClients
  Headless <- BothDesks
  Widths <- TwoWidths
  Scales <- TwoScales
  Asks <- ThreeAsks
  MaxAsks = 2
  MaxOthers = 1
  Outputs = {"a", "b"}
  Wanted = "b"
  Densities = {1, 2}
  Images = {"arrow"}
  ClientLists <- ThreeLists
  CAPACITY = 2
  MaxNews = 3
PROPERTY CancelledIsAskedAgain
CHECK_DEADLOCK FALSE
