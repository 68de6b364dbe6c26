---------------------------- MODULE MCLifecycle -----------------------------
(***************************************************************************)
(* Values of the constants of Lifecycle for model checking.  The two       *)
(* domains differ in the controls they have of their own: database_        *)
(* controls_sod has the SQL control, payments only those of every domain.  *)
(***************************************************************************)
EXTENDS LifecycleSafety, TLC

FromFile(id, rule, severity, confidence, domains) ==
  [id |-> id, rule |-> rule, severity |-> severity,
   confidence |-> confidence, domains |-> domains]

TwoDomains == {"payments", "database_controls_sod"}

CriticalSecret == FromFile("f1", "SECRET-", "CRITICAL", "HIGH", {"payments"})

SqlInBoth == FromFile("f2", "SQL-", "HIGH", "MEDIUM", TwoDomains)

UnsureLog == FromFile("f3", "LOG-", "MEDIUM", "LOW", {"payments"})

Skipped == FromFile("f4", "SKIP-", "INFO", "HIGH", {})

Outcome(found, mapped) == [found |-> found, mapped |-> mapped]

\* A domain that is not at risk until a manager says so.
SqlOnly ==
  {Outcome({FromFile("f5", "SQL-", "HIGH", "MEDIUM", {"database_controls_sod"})},
           {"database_controls_sod"})}

CriticalOnly == {Outcome({CriticalSecret}, {"payments"})}

\* Nothing found, nothing mapped, a domain not evaluated, a file skipped.
VariedOutcomes ==
  {Outcome({}, {}), Outcome({Skipped}, {}), Outcome({}, {"payments"}),
   Outcome({UnsureLog, Skipped}, {"payments"}),
   Outcome({CriticalSecret, SqlInBoth, UnsureLog}, TwoDomains)}

\* One critical finding of each domain.
OneEach ==
  {Outcome({CriticalSecret,
            FromFile("f6", "SQL-", "CRITICAL", "HIGH", {"database_controls_sod"})},
           TwoDomains)}

Decision(status, reasoned) == [status |-> status, reasoned |-> reasoned]

\* An override without a reason is refused.
SomeDecisions ==
  {Decision("APPROVED", FALSE), Decision("OVERRIDDEN", FALSE),
   Decision("OVERRIDDEN", TRUE)}

JustifiedOnly == {Decision("OVERRIDDEN", FALSE), Decision("OVERRIDDEN", TRUE)}

NoDecisions == {}

Configured(keys, limit) ==
  [enabled |-> TRUE, provider |-> "claude", external |-> TRUE,
   flags |-> {"claude"}, keys |-> keys, maxItems |-> limit]

\* An external provider that may be used and one that lacks its key, so that
\* the local one answers; no item may be told of, or one.
SomeSettings == {Configured({"claude"}, 0), Configured({}, 1)}

NoSettings == {}

AnyManager == Permutations(Managers)
=============================================================================
