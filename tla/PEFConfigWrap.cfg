\* A controller reporting 255 event filters: the uint8 loop counter wraps.
CONSTANTS
  NULL = NULL
  CountValues <- MCCountsEdge
SPECIFICATION Spec
CHECK_DEADLOCK FALSE
INVARIANTS
  SelectorsInRange
