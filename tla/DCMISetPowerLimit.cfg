\* Does Client.SetDCMIPowerLimit set the limit its caller wants?
CONSTANTS
  NULL = NULL
  ExceptionActions <- MCExceptionActions
  Watts <- MCWatts
  Millis <- MCMillis
  Seconds <- MCSeconds
  EntityIDs <- MCEntityIDs
  Instances <- MCInstances
  TempLimits <- MCTempLimits
  ExceptionTimes <- MCExceptionTimes
SPECIFICATION Spec
INVARIANTS
  SetPowerLimitHonoured
