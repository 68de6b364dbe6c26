SPECIFICATION Spec
CONSTANTS
  Askers = {}
  AgentSettings <- NoSettings
  MaxAnswers = 0
  Scans = {s1}
  Managers = {m1, m2}
  Viewers = {v1}
  Outcomes <- SqlOnly
  Domains = {"database_controls_sod"}
  Decisions <- JustifiedOnly
  Verdicts = {"HIGH_RISK"}
  MaxClock = 4
INVARIANTS
  ReadersAgree
  VerdictIsAccountedFor
  TypeOK
  CompletedIsWhole
  ReviewIsAccountedFor
PROPERTIES
  SignOffIsRight
  ImplementsRecord
SYMMETRY AnyManager
CHECK_DEADLOCK FALSE
