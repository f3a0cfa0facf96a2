\* Three connections whose handshakes end in any order, two outputs.
SPECIFICATION Spec
CONSTANTS
  Clients <- ThreeClients
  Outputs <- TwoOutputs
  Wanted = 2
  MaxWaiting = 1
INVARIANTS TypeOK SeatsTellDesks BesideIsTheHolders
PROPERTIES BesideVerdictStands FollowsDesktop
CHECK_DEADLOCK FALSE
