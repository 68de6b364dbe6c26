------------------------------- MODULE Scoring -------------------------------
(***************************************************************************)
(* The score of a domain (scoring/engine.py) and the evaluation of its     *)
(* controls (assessment/evaluators/control_evaluator.py), as functions of  *)
(* the findings that map to it.  Scores are in tenths of a point, so that  *)
(* the multipliers 1.0, 0.7 and 0.4 are whole numbers; the sums are exact  *)
(* where the code's floating point may round.                              *)
(***************************************************************************)
EXTENDS ControlCatalog, Integers, Folds

CONSTANT Domains   \* the banking domains of the instance

ASSUME DomainsAssumption == Domains \subseteq BankingDomain /\ Domains # {}

Severities == {"CRITICAL", "HIGH", "MEDIUM", "LOW", "INFO"}

Confidences == {"HIGH", "MEDIUM", "LOW"}

\* domains: those its file maps to, none when its file maps to none or was
\* skipped.  rule: the prefix of its rule_id.
Finding == [id : STRING, rule : Prefixes, severity : Severities,
            confidence : Confidences, domains : SUBSET Domains]

SeverityDeduction ==
  [CRITICAL |-> 40, HIGH |-> 25, MEDIUM |-> 12, LOW |-> 5, INFO |-> 1]

ConfidenceMultiplier == [HIGH |-> 10, MEDIUM |-> 7, LOW |-> 4]

HighRiskThreshold == 350
RemediationRequiredThreshold == 550
AcceptableWithObservationsThreshold == 750

\* Mutant of Deduction: the less sure of a finding, the more it weighs.
DeductionByDoubt(f) ==
  SeverityDeduction[f.severity] * (14 - ConfidenceMultiplier[f.confidence])

Deduction(f) ==
  SeverityDeduction[f.severity] * ConfidenceMultiplier[f.confidence]

AtLeastZero(n) == IF n < 0 THEN 0 ELSE n

WeightedScore(fs) ==
  AtLeastZero(1000 - MapThenFoldSet(LAMBDA m, n : m + n, 0, Deduction,
                                    LAMBDA rest : CHOOSE f \in rest : TRUE,
                                    fs))

\* Too little confidence in every finding to assert a verdict.
AllUnsure(fs) ==
  /\ \A f \in fs : f.confidence = "LOW"
  /\ \E f \in fs : f.severity \in {"CRITICAL", "HIGH", "MEDIUM"}

CategoryOf(score) ==
  IF score < HighRiskThreshold THEN "HIGH_RISK"
  ELSE IF score < RemediationRequiredThreshold THEN "REMEDIATION_REQUIRED"
  ELSE IF score < AcceptableWithObservationsThreshold
       THEN "ACCEPTABLE_WITH_OBSERVATIONS"
  ELSE "ACCEPTABLE"

DecisionCategory(fs, evaluated) ==
  IF ~evaluated THEN "INSUFFICIENT_EVIDENCE"
  ELSE IF AllUnsure(fs) THEN "MANUAL_REVIEW_REQUIRED"
  ELSE IF \E f \in fs : f.severity = "CRITICAL" THEN "CRITICAL_RISK"
  ELSE CategoryOf(WeightedScore(fs))

Categories ==
  {"ACCEPTABLE", "ACCEPTABLE_WITH_OBSERVATIONS", "REMEDIATION_REQUIRED",
   "HIGH_RISK", "CRITICAL_RISK", "INSUFFICIENT_EVIDENCE",
   "MANUAL_REVIEW_REQUIRED"}

InDomain(fs, d) == {f \in fs : d \in f.domains}

\* Mutant of ScoreAllDomains: every finding counts against every domain.
ScoreTogether(fs, mapped) ==
  [d \in Domains |-> DecisionCategory(fs, d \in mapped)]

\* The findings of a scan give each domain its category; the files of the
\* scan map to the domains mapped.
ScoreAllDomains(fs, mapped) ==
  [d \in Domains |-> DecisionCategory(InDomain(fs, d), d \in mapped)]

\* Mutant of EvaluateDomain: a domain without findings is satisfied, also
\* when nobody evaluated it.
EvaluateFindings(fs, d, evaluated) ==
  {[domain |-> d, control |-> c.id,
    status |-> IF \E f \in fs : f.rule = c.prefix THEN "GAP" ELSE "SATISFIED",
    findings |-> {f \in fs : f.rule = c.prefix}] : c \in ControlsForDomain(d)}

\* Every domain has the controls that are for any domain, so that the
\* placeholder row of a domain with no control never arises.
EvaluateDomain(fs, d, evaluated) ==
  LET Matched(c) == {f \in fs : evaluated /\ f.rule = c.prefix}
      StatusOf(c) == IF ~evaluated THEN "INSUFFICIENT_EVIDENCE"
                     ELSE IF Matched(c) # {} THEN "GAP" ELSE "SATISFIED"
  IN {[domain |-> d, control |-> c.id, status |-> StatusOf(c),
       findings |-> Matched(c)] : c \in ControlsForDomain(d)}

EvaluateAllDomains(fs, mapped) ==
  UNION {EvaluateDomain(InDomain(fs, d), d, d \in mapped) : d \in Domains}

\* Mutant of WithControl: the rule in place of the control it belongs to.
WithRule(fs) == {[finding |-> f, control |-> f.rule] : f \in fs}

\* evidence/capture.py and scoring/recommendations.py: one row for each
\* finding, with the control its rule belongs to.
WithControl(fs) ==
  {[finding |-> f, control |-> ControlForRule(f.rule).id] : f \in fs}
=============================================================================
