\* Does an Operation value wider than its nibble leave RetryCount alone?
CONSTANTS
  NULL = NULL
  TooShort = TooShort
  Panic = Panic
  Values <- MCValuesGroupControlSpill
SPECIFICATION Spec
INVARIANT
  SiblingsUndisturbed
