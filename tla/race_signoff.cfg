SPECIFICATION Spec
CONSTANTS
  Askers = {}
  AgentSettings <- NoSettings
  MaxAnswers = 0
  Scans = {s1}
  Managers = {m1}
  Viewers = {v1}
  Outcomes <- OneEach
  Domains <- TwoDomains
  Decisions <- SomeDecisions
  Verdicts = {"ACCEPTABLE", "HIGH_RISK"}
  MaxClock = 5
PROPERTY
  CheckWasTrueAtSomeMoment
CHECK_DEADLOCK FALSE
