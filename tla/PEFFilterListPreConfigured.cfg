\* `pef filter list` against a controller whose filter 1 is pre-configured.
CONSTANTS
  NULL = NULL
  CountValues <- MCCountsOne
  StoredFilters <- MCStoredPreConfigured
  ControlOctets <- MCControlAgreeing
  AGCOctets <- MCAGCOctets
  Revision <- MCRevision
SPECIFICATION Spec
\* A pef command prints, exits or panics, and then the process ends.
CHECK_DEADLOCK FALSE
INVARIANT
  ListShowsFilters
