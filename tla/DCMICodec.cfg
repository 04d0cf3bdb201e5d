\* Capability discovery and configuration set/get against a DCMI controller.
CONSTANTS
  NULL = NULL
  Platforms <- MCPlatforms
  ConfigValues <- MCConfigValues
SPECIFICATION Spec
INVARIANTS
  TypeOK
  CapabilitiesReported
  ConfigRoundTrip
