\* `dcmi asset_tag` against a controller that may return an empty chunk.
CONSTANTS
  NULL = NULL
  Commands <- MCCommandsAssetTag
  MsgLens <- MCMsgLens
  MaxPeriods = 2
  TagLens <- MCTagLens
  ChunkLens <- MCChunkLensZero
SPECIFICATION Spec
CHECK_DEADLOCK FALSE
PROPERTY
  Terminates
