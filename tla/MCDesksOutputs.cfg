\* Two connections, and three outputs that come and go.
SPECIFICATION FairSpec
CONSTANTS
  Clients <- TwoClients
  Outputs <- ThreeOutputs
  Wanted = 2
  MaxWaiting = 1
INVARIANTS OutputOnOneDesk PictureIsOfItsOutput CaptureAlive DesktopHasItsOutput ListingIsCurrent
PROPERTIES BlankIsPainted BesideIsAnswered
CHECK_DEADLOCK FALSE
