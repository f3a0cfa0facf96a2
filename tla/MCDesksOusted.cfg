\* The older handshake ends last.
SPECIFICATION Spec
CONSTANTS
  Clients <- TwoClients
  Outputs <- OneOutput
  Wanted <- NotWanted
  MaxWaiting = 0
INVARIANT OustedIsTold
CHECK_DEADLOCK FALSE
