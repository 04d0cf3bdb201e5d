\* A controller whose power management controller is on channel 1.
CONSTANTS
  NULL = NULL
  Platforms <- MCPlatformsChannel
  ConfigValues <- MCConfigValues
SPECIFICATION Spec
INVARIANTS
  CapabilitiesReported
