\* A client on the desktop and one beside it, three requests, one change by others;
\* a session of two outputs whose broadcast keeps two events.
SPECIFICATION AskedSpec
CONSTANTS
  Parts <- Part
  Clients <- TwoClients
  Headless <- BothDesks
  Widths <- TwoWidths
  Scales <- TwoScales
  Asks <- ThreeAsks
  MaxAsks = 3
  MaxOthers = 1
  Outputs = {"a", "b"}
  Wanted = "b"
  Densities = {1, 2}
  Images = {"arrow"}
  ClientLists <- ThreeLists
  CAPACITY = 2
  MaxNews = 3
INVARIANTS DeclarationInHand PendingIsTheClients WaitIsTrue ToldIsCurrent
CHECK_DEADLOCK FALSE
