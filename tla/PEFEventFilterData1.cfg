CONSTANTS
  NULL = NULL
  TooShort = TooShort
  Panic = Panic
  Values <- MCValuesEventFilterData1
SPECIFICATION Spec
INVARIANT
  WireLayout
