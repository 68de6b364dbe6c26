SPECIFICATION Spec
CONSTANTS
  Scenarios <- AllScenarios
  Scanners <- SomeScanners
  BodyWindowLines = 2
  ReadLimit = 3
  MaxFailures = 2
  None = None
  Raised = Raised
INVARIANTS
  FileFailuresWarn
CHECK_DEADLOCK FALSE
