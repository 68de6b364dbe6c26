---------------------------- MODULE MCComparison ----------------------------
(***************************************************************************)
(* Values of the constants of ComparisonChecks for model checking.  Four   *)
(* findings reach every category and the score of zero.  Two log calls     *)
(* whose texts are redacted have one key and two severities.               *)
(***************************************************************************)
EXTENDS ComparisonChecks

TwoFiles == [pay |-> "payments", ledger |-> "core_banking"]

Occurrence(path, rule, evidence, severity, confidence) ==
  [path |-> path, rule |-> rule, evidence |-> evidence, severity |-> severity,
   confidence |-> confidence]

Blank(path) == Occurrence(path, "none", "", "INFO", "LOW")

Query(path) == Occurrence(path, "SQL-", "q", "HIGH", "MEDIUM")

Redacted(severity) == Occurrence("pay", "LOG-", "[REDACTED]", severity, "LOW")

ComparedKinds ==
  {Blank("pay"), Query("pay"), Query("ledger"), Redacted("HIGH"),
   Redacted("CRITICAL")}

AnyKind ==
  ComparedKinds \cup
    {Occurrence("pay", "CFG-", "c", severity, confidence) :
       severity \in Severities, confidence \in Confidences}
=============================================================================
