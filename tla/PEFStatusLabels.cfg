\* `pef status` against a controller with only PEF Startup Delay enabled.
CONSTANTS
  NULL = NULL
  CountValues <- MCCountsOne
  StoredFilters <- MCStored
  ControlOctets <- MCControlOneDelay
  AGCOctets <- MCAGCOctets
  Revision <- MCRevision
SPECIFICATION Spec
\* A pef command prints, exits or panics, and then the process ends.
CHECK_DEADLOCK FALSE
INVARIANT
  StatusShowsController
