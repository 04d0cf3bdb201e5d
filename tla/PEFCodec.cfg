CONSTANTS
  NULL = NULL
  TooShort = TooShort
  Panic = Panic
  Values <- MCValues
SPECIFICATION Spec
INVARIANTS
  TypeOK
  RoundTrip
  WireLayout
