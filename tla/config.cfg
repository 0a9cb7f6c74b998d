CONSTANTS
  Attr <- MCAttr
  Value = {1, 2}
  Info <- MCInfo
  Inputs <- MCInputs
  State <- MCState
  DefaultSetter = {TRUE, FALSE}
  MaxList = 3
  None = None
SPECIFICATION Spec
INVARIANTS
  TypeOK
PROPERTIES
  SuccessStoresTheList
  FailureKeepsTheRest
  ChangeLowersTheState
