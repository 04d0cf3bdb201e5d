\* GetPEFConfig while another session issues one Set PEF Configuration
\* Parameters command.
CONSTANTS
  NULL = NULL
  CountValues <- MCCounts
  MaxWrites = 1
SPECIFICATION Spec
\* The call returns and stops; the other session stops after its Set.
CHECK_DEADLOCK FALSE
INVARIANTS
  ResultWasConfiguration
