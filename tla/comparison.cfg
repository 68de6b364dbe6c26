SPECIFICATION Spec
CONSTANTS
  Domains = {"payments", "core_banking"}
  DomainOfPath <- TwoFiles
  Kinds <- AnyKind
  Recurring <- ComparedKinds
  Verdicts = {"ACCEPTABLE", "HIGH_RISK"}
  MaxLines = 4
  MaxCompared = 3
  None = None
INVARIANTS
  NoFindingIsLost
  ChoiceDoesNotMatter
  ChangesAreExplained
  OverridesAreShown
PROPERTIES
  NeverBetter
  EditsAreTold
CHECK_DEADLOCK FALSE
