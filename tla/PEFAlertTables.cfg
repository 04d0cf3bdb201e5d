\* Do returned alert policy and alert string tables hold every entry?
CONSTANTS
  NULL = NULL
  CountValues <- MCCountsSmall
SPECIFICATION Spec
CHECK_DEADLOCK FALSE
INVARIANTS
  AlertTablesComplete
