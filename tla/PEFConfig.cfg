\* GetPEFConfig with small counts: termination, selector range, the
\* all-or-nothing result and refinement of the atomic promise.
CONSTANTS
  NULL = NULL
  CountValues <- MCCountsSmall
SPECIFICATION Spec
\* The call returns (Done or Failed) and stops there.
CHECK_DEADLOCK FALSE
INVARIANTS
  TypeOK
  SelectorsInRange
PROPERTIES
  Terminates
  Refinement
