\* Set/get power and thermal limits against a controller.
CONSTANTS
  NULL = NULL
  ExceptionActions <- MCExceptionActions
  Watts <- MCWatts
  Millis <- MCMillis
  Seconds <- MCSeconds
  EntityIDs <- MCEntityIDs
  Instances <- MCInstances
  TempLimits <- MCTempLimits
  ExceptionTimes <- MCExceptionTimes
SPECIFICATION Spec
INVARIANTS
  TypeOK
PROPERTIES
  PowerLimitRoundTrip
  ThermalRoundTrip
