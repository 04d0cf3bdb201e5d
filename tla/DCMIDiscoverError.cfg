\* `dcmi discover` with any exchange failing.
CONSTANTS
  NULL = NULL
  Commands <- MCCommandsDiscover
  MsgLens <- MCMsgLens
  MaxPeriods = 2
  TagLens <- MCTagLens
  ChunkLens <- MCChunkLens
SPECIFICATION Spec
CHECK_DEADLOCK FALSE
INVARIANT
  ErrorNamesFailingStep
