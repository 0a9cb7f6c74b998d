CONSTANTS
  Stream = {s1, s2}
  Cancelling = {s1, s2}
  MaxOpen = 2
  Removable = TRUE
  MaxNotify = 3
  None = None
SPECIFICATION Spec
SYMMETRY Symmetry
CHECK_DEADLOCK FALSE
INVARIANTS
  TypeOK
  SubscribersAreCalledBack
  NothingMissed
  InOrder
  ToldRemovedOnlyIfRemoved
