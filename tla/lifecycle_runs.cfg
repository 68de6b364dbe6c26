SPECIFICATION FairSpec
CONSTANTS
  Askers = {}
  AgentSettings <- NoSettings
  MaxAnswers = 0
  Scans = {s1, s2}
  Managers = {}
  Viewers = {}
  Outcomes <- VariedOutcomes
  Domains <- TwoDomains
  Decisions <- NoDecisions
  Verdicts = {}
  MaxClock = 3
INVARIANTS
  CompletedIsWhole
  CoverageAgrees
PROPERTIES
  RunsEnd
CHECK_DEADLOCK FALSE
