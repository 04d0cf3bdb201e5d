\* Every `goipmi dcmi` command line, against any reply, with any call failing.
CONSTANTS
  NULL = NULL
  Commands <- MCCommandsAll
  MsgLens <- MCMsgLens
  MaxPeriods = 2
  TagLens <- MCTagLens
  ChunkLens <- MCChunkLens
SPECIFICATION Spec
\* The command prints or exits, and then the process ends.
CHECK_DEADLOCK FALSE
INVARIANTS
  TypeOK
  NoOutOfRangeRead
  AllOrNothing
  AssetTagComplete
PROPERTIES
  Terminates
