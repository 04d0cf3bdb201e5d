CONSTANTS
  NULL = NULL
  TooShort = TooShort
  Panic = Panic
  Values <- MCValuesOEMSelector
SPECIFICATION Spec
INVARIANTS
  WireLayout
