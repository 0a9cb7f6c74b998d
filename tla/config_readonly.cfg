CONSTANTS
  Attr <- MCAttr
  Value = {1, 2}
  Info <- MCInfo
  Inputs <- MCInputs
  State <- MCState
  DefaultSetter = {TRUE}
  MaxList = 2
  None = None
SPECIFICATION Spec
INVARIANT ReadOnlyIsKept
