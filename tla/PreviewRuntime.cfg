SPECIFICATION Spec
CONSTANTS
  Calls = {c1, c2}
  BuildRevisions = {1}
  MaxPerWorkspace = 2
  MaxActive = 2
  MaxChecks = 2
  MaxRuntimes = 2
  MaxRevision = 1
SYMMETRY Symmetry
CHECK_DEADLOCK FALSE
INVARIANTS
  QuietRuntimesMatchTheExecutor
  
  RestartRetires
PROPERTIES
  EndedStaysEnded
