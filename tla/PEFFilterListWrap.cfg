\* `pef filter list` against a controller with 255 event filters.
CONSTANTS
  NULL = NULL
  CountValues <- MCCountsEdge
  StoredFilters <- MCStored
  ControlOctets <- MCControlAgreeing
  AGCOctets <- MCAGCOctets
  Revision <- MCRevision
SPECIFICATION Spec
\* A pef command prints, exits or panics, and then the process ends.
CHECK_DEADLOCK FALSE
PROPERTIES
  Terminates
