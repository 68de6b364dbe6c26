SPECIFICATION FairSpec
CONSTANTS
  Scenarios <- AllScenarios
  Scanners <- SomeScanners
  BodyWindowLines = 2
  ReadLimit = 3
  MaxFailures = 2
  None = None
  Raised = Raised
INVARIANTS
  TypeOK
  EveryFileHasAPlace
  LimitsHold
  ArchivesLeaveNothing
PROPERTIES
  ImplementsContract
  EveryScanAnswers
CHECK_DEADLOCK FALSE
