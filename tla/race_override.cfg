SPECIFICATION Spec
CONSTANTS
  Askers = {}
  AgentSettings <- NoSettings
  MaxAnswers = 0
  Scans = {s1}
  Managers = {m1, m2}
  Viewers = {}
  Outcomes <- CriticalOnly
  Domains <- TwoDomains
  Decisions <- NoDecisions
  Verdicts = {"ACCEPTABLE", "HIGH_RISK"}
  MaxClock = 5
INVARIANT
  OverridesTakeEffect
CHECK_DEADLOCK FALSE
