\* `dcmi sensors` with any GetDCMISensors call failing.
CONSTANTS
  NULL = NULL
  Commands <- MCCommandsSensors
  MsgLens <- MCMsgLens
  MaxPeriods = 2
  TagLens <- MCTagLens
  ChunkLens <- MCChunkLens
SPECIFICATION Spec
CHECK_DEADLOCK FALSE
INVARIANT
  ErrorNamesFailingStep
