CONSTANTS
  NULL = NULL
  TooShort = TooShort
  Panic = Panic
  Values <- MCValuesPreConfigured
SPECIFICATION Spec
INVARIANTS
  RoundTrip
