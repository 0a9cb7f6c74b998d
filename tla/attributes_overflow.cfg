CONSTANTS
  Item <- Items
  DEFAULT_LIST_SIZE = 2
  TAI_CHARDATA_LENGTH = 3
  Garbage <- OneOrThree
  JUNK = JUNK
  BAD = BAD
  NO_MEMORY = NO_MEMORY
  Kinds <- AllKinds
  Listed = {TRUE, FALSE}
  Json = {TRUE, FALSE}
  Values <- AdapterValues
  Texts <- SetTexts
  Inputs <- ReadTexts
  MaxSets = 3
  None = None
  x = x
  y = y
SPECIFICATION Spec
CHECK_DEADLOCK FALSE
INVARIANT OverflowIsReported
