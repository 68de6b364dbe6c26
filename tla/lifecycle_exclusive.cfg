SPECIFICATION ExclusiveSpec
CONSTANTS
  Askers = {a1}
  AgentSettings <- SomeSettings
  MaxAnswers = 1
  Scans = {s1}
  Managers = {m1, m2}
  Viewers = {}
  Outcomes <- CriticalOnly
  Domains = {"payments"}
  Decisions <- NoDecisions
  Verdicts = {"HIGH_RISK"}
  MaxClock = 5
INVARIANTS
  OverridesTakeEffect
  AnswersAreOnTrail
  SummariesAreOnTrail
  OmissionsAreTold
SYMMETRY AnyManager
CHECK_DEADLOCK FALSE
