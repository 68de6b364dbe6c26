----------------------------- MODULE Comparison -----------------------------
(***************************************************************************)
(* What changed between two stored assessments of a source                 *)
(* (ui/services/comparison_service.py), as functions of their rows.        *)
(***************************************************************************)
EXTENDS Naturals, Sequences, FiniteSets

CompletedStatuses == {"completed", "completed_with_warnings"}

\* Mutant of FindingKey: with the line.
FindingKeyInPlace(f) ==
  [rule |-> f.rule, path |-> f.path, evidence |-> f.evidence, line |-> f.line]

\* The line is not part of it, nor is the severity.
FindingKey(f) == [rule |-> f.rule, path |-> f.path, evidence |-> f.evidence]

WithKey(fs, key) == {f \in fs : FindingKey(f) = key}

\* Sorted by line, and stably.
NotAfter(f, g) ==
  \/ f.line < g.line
  \/ f.line = g.line /\ f.id <= g.id

First(n, fs) == {f \in fs : Cardinality({g \in fs : NotAfter(g, f)}) <= n}

\* Mutant of Matched: one finding with a key stands for all of them.
MatchedByKey(before, after) == IF before = {} THEN 0 ELSE Cardinality(after)

\* How many of the findings with one key are in both.
Matched(before, after) ==
  LET m == Cardinality(before)
      n == Cardinality(after)
  IN  IF m < n THEN m ELSE n

\* Findings with the same key are matched one to one, in the order of lines.
Split(before, after) ==
  LET n == Matched(before, after)
      unchanged == First(n, after)
  IN  [new |-> after \ unchanged, resolved |-> before \ First(n, before),
       unchanged |-> unchanged]

CompareFindings(baseline, current) ==
  LET splits == {Split(WithKey(baseline, key), WithKey(current, key)) :
                   key \in {FindingKey(f) : f \in baseline \cup current}}
  IN  [new |-> UNION {split.new : split \in splits},
       resolved |-> UNION {split.resolved : split \in splits},
       unchanged |-> UNION {split.unchanged : split \in splits}]

\* Mutant of EffectiveScores: the first row of a domain, overridden or not.
FirstScores(rows) ==
  [d \in {rows[i].domain : i \in DOMAIN rows} |->
     rows[CHOOSE i \in DOMAIN rows :
            rows[i].domain = d /\ \A j \in 1 .. i - 1 : rows[j].domain # d]]

\* The rows in the order of the query: a row that another overrides does not
\* count, and of the others the first stays that none is later than.
EffectiveScores(rows) ==
  LET superseded == {rows[i].overrideOf : i \in DOMAIN rows}
      Counting == {i \in DOMAIN rows : rows[i].at \notin superseded}
      Stays(i) == \A j \in Counting : rows[j].domain = rows[i].domain =>
                    \/ rows[j].at < rows[i].at
                    \/ rows[j].at = rows[i].at /\ i <= j
  IN  [d \in {rows[i].domain : i \in Counting} |->
         rows[CHOOSE i \in Counting : rows[i].domain = d /\ Stays(i)]]

NoCategory == "none"

CategoryIn(effective, d) ==
  IF d \in DOMAIN effective THEN effective[d].category ELSE NoCategory

CompareScores(baseline, current) ==
  LET before == EffectiveScores(baseline)
      after == EffectiveScores(current)
  IN  {[domain |-> d, baseline |-> CategoryIn(before, d),
        current |-> CategoryIn(after, d)] : d \in DOMAIN before \cup DOMAIN after}

Compatible(baseline, current) ==
  /\ baseline.id # current.id
  /\ {baseline.status, current.status} \subseteq CompletedStatuses
  /\ baseline.source = current.source

Refused == "IncompatibleScansError"

\* Mutant of Compared: the scores stay in the order in which they were asked for.
ComparedAsChosen(older, newer, swapped) ==
  [reordered |-> swapped,
   findings |-> CompareFindings(older.findings, newer.findings),
   domains |-> IF swapped THEN CompareScores(newer.scores, older.scores)
                          ELSE CompareScores(older.scores, newer.scores)]

Compared(older, newer, swapped) ==
  [reordered |-> swapped,
   findings |-> CompareFindings(older.findings, newer.findings),
   domains |-> CompareScores(older.scores, newer.scores)]

\* The earlier of the two is the baseline, whichever was chosen for it.
CompareLoaded(baseline, current) ==
  IF ~Compatible(baseline, current) THEN Refused
  ELSE IF baseline.created > current.created THEN Compared(current, baseline, TRUE)
  ELSE Compared(baseline, current, FALSE)
=============================================================================
