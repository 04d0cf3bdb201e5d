\* Every command line has a mistyped power-off word and a temperature that
\* does not fit in a uint8.
CONSTANTS
  NULL = NULL
  CLIEntities <- MCEntitiesInlet
  CLIInstances <- MCInstances
  CLITemps <- MCTempsWide
  CLITimes <- MCTimes
  PowerWords <- MCPowerTypo
  SelWords <- MCSelListed
SPECIFICATION Spec
INVARIANTS
  CLIRejectsInvalid
