\* Are thermal-limit requests limited to the inlet entities?
CONSTANTS
  NULL = NULL
  ExceptionActions <- MCExceptionActions
  Watts <- MCWatts
  Millis <- MCMillis
  Seconds <- MCSeconds
  EntityIDs <- MCEntityIDs
  Instances <- MCInstances
  TempLimits <- MCTempLimits
  ExceptionTimes <- MCExceptionTimes
SPECIFICATION Spec
INVARIANTS
  InletEntitiesOnly
