\* Every `goipmi pef` subcommand: filter list counts 0..3 and 254, status controllers whose startup-delay bits agree.
CONSTANTS
  NULL = NULL
  CountValues <- MCCountsSmall
  StoredFilters <- MCStored
  ControlOctets <- MCControlAgreeing
  AGCOctets <- MCAGCOctets
  Revision <- MCRevision
SPECIFICATION Spec
\* A pef command prints, exits or panics, and then the process ends.
CHECK_DEADLOCK FALSE
INVARIANTS
  TypeOK
  ListShowsFilters
  StatusShowsController
PROPERTIES
  Terminates
