\* The thermal policy commands for valid and invalid command lines: a
\* valid line that succeeds leaves the controller holding what it asked.
CONSTANTS
  NULL = NULL
  CLIEntities <- MCEntities
  CLIInstances <- MCInstances
  CLITemps <- MCTemps
  CLITimes <- MCTimes
  PowerWords <- MCPowerWords
  SelWords <- MCSelWords
SPECIFICATION Spec
INVARIANTS
  TypeOK
  CLISetHonoured
