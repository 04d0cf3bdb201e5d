CONSTANTS
  NULL = NULL
  TooShort = TooShort
  Panic = Panic
  Values <- MCValuesEventFilterParam
SPECIFICATION Spec
INVARIANTS
  RoundTrip
