CONSTANTS
  Location <- Locations
  NumInterfaces = 1
  Client = {c1}
  Event <- BothAreThere
  Refused <- FirstIsRefused
  Misconfigured <- InterfaceIsWrong
  Requested <- Second
  Interrupted <- NoClient
  AutoCreation = TRUE
  MaxEvents = 1
  MaxCalls = 1
  MaxSignals = 0
  None = None
SPECIFICATION Spec
CHECK_DEADLOCK FALSE
INVARIANTS
  OneCallAtATime
