CONSTANTS
  Stream = {s1, s2, s3}
  Cancelling = {s1, s2, s3}
  MaxOpen = 1
  Removable = FALSE
  MaxNotify = 2
  None = None
SPECIFICATION FairSpec
CHECK_DEADLOCK FALSE
INVARIANTS
  ContextIsAlive
  ReachesLiveStreams
  NothingLeftBehind
PROPERTIES
  CancelEnds
  QueuesDrain
