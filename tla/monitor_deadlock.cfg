CONSTANTS
  Stream = {s1}
  Cancelling = {}
  MaxOpen = 1
  Removable = TRUE
  MaxNotify = 1
  None = None
SPECIFICATION FairSpec
CHECK_DEADLOCK FALSE
PROPERTIES
  RemovalEndsStreams
