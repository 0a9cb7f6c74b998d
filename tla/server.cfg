CONSTANTS
  Location <- Locations
  NumInterfaces = 1
  Client = {c1, c2}
  Event <- BothAreThere
  Refused <- FirstIsRefused
  Misconfigured <- InterfaceIsWrong
  Requested <- Second
  Interrupted <- NoClient
  AutoCreation = TRUE
  MaxEvents = 2
  MaxCalls = 2
  MaxSignals = 1
  None = None
SPECIFICATION FairSpec
CHECK_DEADLOCK FALSE
INVARIANTS
  TypeOK
  QueuedIsSignalled
  ListingIsLibrary
  TerminatedIsExplained
PROPERTIES
  RequestsAreServed
