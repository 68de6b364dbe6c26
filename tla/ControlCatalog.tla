--------------------------- MODULE ControlCatalog ---------------------------
(***************************************************************************)
(* The built-in catalog of controls (controls/catalog.py) over the banking *)
(* domains (core/domains.py).  A rule is known by the prefix of its        *)
(* rule_id, which is all the catalog looks at; a control that names no     *)
(* domain is for every domain.                                             *)
(***************************************************************************)
EXTENDS FiniteSets

BankingDomain ==
  {"core_banking", "payments", "credit_lending", "investments_trading",
   "onboarding_identity_access", "transaction_processing_reporting",
   "fraud_controls", "privacy_data_protection", "application_security",
   "infrastructure_api_security", "database_controls_sod",
   "change_management", "monitoring_observability",
   "business_continuity_dr", "model_ai_governance",
   "human_approval_auditability"}

AnyDomain == "any"

Control(id, prefix, domain) ==
  [id |-> id, prefix |-> prefix, domain |-> domain]

CONTROL_CATALOG ==
  {Control("CTRL-SECRET-001", "SECRET-", AnyDomain),
   Control("CTRL-PII-001", "PII-", AnyDomain),
   Control("CTRL-LOG-001", "LOG-", AnyDomain),
   Control("CTRL-AUDIT-001", "AUDIT-", "human_approval_auditability"),
   Control("CTRL-PERM-001", "PERM-", "application_security"),
   Control("CTRL-SQL-001", "SQL-", "database_controls_sod"),
   Control("CTRL-CFG-001", "CFG-", "infrastructure_api_security"),
   Control("CTRL-SKIP-001", "SKIP-", AnyDomain)}

Prefixes == {c.prefix : c \in CONTROL_CATALOG}

AppliesToDomain(c, d) == c.domain \in {AnyDomain, d}

\* Mutant of ControlsForDomain: only those that name the domain.
ControlsOnlyForDomain(d) == {c \in CONTROL_CATALOG : c.domain = d}

ControlsForDomain(d) == {c \in CONTROL_CATALOG : AppliesToDomain(c, d)}

\* Every rule of the scanners has a control: the prefixes are theirs.
ControlForRule(prefix) ==
  CHOOSE c \in CONTROL_CATALOG : c.prefix = prefix
=============================================================================
