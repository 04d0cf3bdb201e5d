\* `dcmi get_temp_reading` with the call failing.
CONSTANTS
  NULL = NULL
  Commands <- MCCommandsTempReading
  MsgLens <- MCMsgLens
  MaxPeriods = 2
  TagLens <- MCTagLens
  ChunkLens <- MCChunkLens
SPECIFICATION Spec
CHECK_DEADLOCK FALSE
INVARIANT
  ErrorNamesFailingStep
