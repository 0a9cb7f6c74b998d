CONSTANTS
  Location = {"0", "00", "1", "2", "-1", "x"}
  Number <- MCNumber
  Index <- MCIndex
  NumModule = 2
  NumHostIf = 1
  None = None
SPECIFICATION Spec
VIEW MCView
CHECK_DEADLOCK FALSE
INVARIANTS
  TypeOK
  ObjectHasFsm
  AttachedIsRegistered
PROPERTIES
  NoModuleIsLeaked
  ImplementsTree
