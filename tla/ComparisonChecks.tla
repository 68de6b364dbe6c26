-------------------------- MODULE ComparisonChecks --------------------------
(***************************************************************************)
(* A source changes line by line between two assessments of it, which give *)
(* its domains their verdicts (Scoring) and are then compared (Comparison).*)
(* A state is what the source was when it was assessed before and what it  *)
(* is now, with what managers decided on the two.                          *)
(***************************************************************************)
EXTENDS Scoring, Comparison

Seqs == INSTANCE SequencesExt

CONSTANTS
  DomainOfPath,   \* the domain that each file of the source maps to
  Kinds,          \* lines that the source may have before there is a baseline
  Recurring,      \* and once there is one
  Verdicts,       \* categories that scores are overridden to
  MaxLines,       \* bounds on the lines of the source: before there is a
  MaxCompared,    \* baseline, and once there is one
  None

\* A line has one finding or, with no rule, none.
LineKind == [path : DOMAIN DomainOfPath, rule : Prefixes \cup {"none"},
             evidence : STRING, severity : Severities, confidence : Confidences]

ASSUME ChecksAssumption ==
  /\ DomainOfPath \in [DOMAIN DomainOfPath -> Domains]
  /\ Recurring \subseteq Kinds
  /\ Kinds \subseteq LineKind
  /\ MaxLines \in Nat /\ MaxCompared \in Nat

VARIABLES
  source,      \* the lines that the source has
  baseline,    \* the lines that it had when it was assessed before, or None
  overrides    \* the score rows that managers have added to the two

vars == <<source, baseline, overrides>>

Paths == DOMAIN DomainOfPath

(***************************************************************************)
(* What is stored of an assessment of some lines.                          *)
(***************************************************************************)
FindingAt(lines, i) ==
  [id |-> i, line |-> i, path |-> lines[i].path, rule |-> lines[i].rule,
   evidence |-> lines[i].evidence, severity |-> lines[i].severity,
   confidence |-> lines[i].confidence,
   domains |-> {DomainOfPath[lines[i].path]}]

FindingsIn(lines) ==
  {FindingAt(lines, i) : i \in {j \in DOMAIN lines : lines[j].rule # "none"}}

\* A file that has no line is not there.
Mapped(lines) == {DomainOfPath[lines[i].path] : i \in DOMAIN lines}

Verdict(lines) == ScoreAllDomains(FindingsIn(lines), Mapped(lines))

ScoreRow(domain, category, at, original) ==
  [domain |-> domain, category |-> category, at |-> at, overrideOf |-> original]

\* A domain's row is the nth of the engine's; NoRow is no row's.
NoRow == 0

DomainOrder == Seqs!SetToSeq(Domains)

EngineRows(lines) ==
  [n \in DOMAIN DomainOrder |->
     ScoreRow(DomainOrder[n], Verdict(lines)[DomainOrder[n]], n, NoRow)]

OverrideRows(which) ==
  Seqs!SetToSeq({ScoreRow(o.domain, o.category, Len(DomainOrder) + 1,
                     CHOOSE n \in DOMAIN DomainOrder : DomainOrder[n] = o.domain) :
              o \in {x \in overrides : x.of = which}})

Stored(which, lines, created, status) ==
  [id |-> which, source |-> "a source", status |-> status, created |-> created,
   findings |-> FindingsIn(lines), scores |-> EngineRows(lines) \o OverrideRows(which)]

Before == Stored("baseline", baseline, 1, "completed_with_warnings")

Now == Stored("current", source, 2, "completed")

(***************************************************************************)
(* Steps.                                                                  *)
(***************************************************************************)
Init ==
  /\ source = <<>>
  /\ baseline = None
  /\ overrides = {}

Allowed == IF baseline = None THEN Kinds ELSE Recurring

Longest == IF baseline = None THEN MaxLines ELSE MaxCompared

Undecided == overrides = {}

InsertLine ==
  /\ Undecided /\ Len(source) < Longest
  /\ \E i \in 1 .. Len(source) + 1, kind \in Allowed :
       source' = Seqs!InsertAt(source, i, kind)
  /\ UNCHANGED <<baseline, overrides>>

RemoveLine ==
  /\ Undecided
  /\ \E i \in DOMAIN source : source' = Seqs!RemoveAt(source, i)
  /\ UNCHANGED <<baseline, overrides>>

Worse == <<"INFO", "LOW", "MEDIUM", "HIGH", "CRITICAL">>

Surer == <<"LOW", "MEDIUM", "HIGH">>

NextOf(order, x) ==
  LET i == CHOOSE j \in DOMAIN order : order[j] = x  IN
  IF i < Len(order) THEN order[i + 1] ELSE x

\* What a line is found to have is rated more severe, or found more surely.
WorsenLine ==
  /\ Undecided
  /\ \E i \in DOMAIN source :
       /\ source' \in
            {[source EXCEPT ![i].severity = NextOf(Worse, @)],
             [source EXCEPT ![i].confidence = NextOf(Surer, @)]} \ {source}
       /\ source'[i] \in Allowed
  /\ UNCHANGED <<baseline, overrides>>

\* The source as it is becomes the one that is compared with.
Assess ==
  /\ baseline = None
  /\ source \in Seq(Recurring) /\ Len(source) <= MaxCompared
  /\ baseline' = source
  /\ UNCHANGED <<source, overrides>>

\* One override in all (a bound).
Override ==
  /\ baseline # None /\ Undecided
  /\ \E which \in {"baseline", "current"}, d \in Domains, category \in Verdicts :
       overrides' = {[of |-> which, domain |-> d, category |-> category]}
  /\ UNCHANGED <<source, baseline>>

Next == InsertLine \/ RemoveLine \/ WorsenLine \/ Assess \/ Override

Spec == Init /\ [][Next]_vars

(***************************************************************************)
(* Properties.                                                             *)
(***************************************************************************)
Ranking ==
  <<"ACCEPTABLE", "ACCEPTABLE_WITH_OBSERVATIONS", "REMEDIATION_REQUIRED",
    "HIGH_RISK", "CRITICAL_RISK">>

Ranked(category) == \E i \in DOMAIN Ranking : Ranking[i] = category

Rank(category) == CHOOSE i \in DOMAIN Ranking : Ranking[i] = category

\* More findings, worse findings and surer findings never improve a verdict
\* that the scoring engine asserts, manual review aside.
NeverBetter ==
  [][Len(source') >= Len(source) =>
       LET was == Verdict(source)
           is == Verdict(source')
       IN  \A d \in Domains :
             Ranked(was[d]) /\ Ranked(is[d]) => Rank(was[d]) <= Rank(is[d])]_vars

Comparison == CompareLoaded(Before, Now)

\* How many findings of each kind there are when these lines are the current ones.
Told(lines) ==
  LET found == CompareFindings(FindingsIn(baseline), FindingsIn(lines))
  IN  [field \in DOMAIN found |-> Cardinality(found[field])]

\* Every finding of the two assessments is told once: those of the current
\* one are new or unchanged, those of the earlier one that are not resolved
\* are as many as are unchanged, and nothing is both resolved and new.
NoFindingIsLost ==
  baseline # None =>
    LET found == Comparison.findings
    IN  /\ found.new \cup found.unchanged = FindingsIn(source)
        /\ found.new \cap found.unchanged = {}
        /\ found.resolved \subseteq FindingsIn(baseline)
        /\ Cardinality(FindingsIn(baseline) \ found.resolved)
             = Cardinality(found.unchanged)
        /\ \A f \in found.new, g \in found.resolved : FindingKey(f) # FindingKey(g)

\* One more finding in the source is one more that is new, or one less that
\* is resolved and one more that is unchanged; a line that has none, wherever
\* it goes, and whatever it moves, changes nothing that is reported.
EditsAreTold ==
  [][baseline # None /\ Len(source') > Len(source) =>
       \A was \in {Told(source)}, lines \in {source'} :
         \/ /\ Cardinality(FindingsIn(lines)) = Cardinality(FindingsIn(source))
            /\ Told(lines) = was
         \/ /\ Cardinality(FindingsIn(lines)) = Cardinality(FindingsIn(source)) + 1
            /\ Told(lines) \in
                 {[was EXCEPT !.new = @ + 1],
                  [was EXCEPT !.resolved = @ - 1, !.unchanged = @ + 1]}]_vars

\* What a manager chose for the baseline makes no difference to the report.
ChoiceDoesNotMatter ==
  baseline # None =>
    CompareLoaded(Now, Before) = [Comparison EXCEPT !.reordered = TRUE]

\* Findings that share a key weigh the same: not those whose evidence the
\* mask makes equal, for which one rule has several severities.
KeysTellWeight(d) ==
  \A f, g \in InDomain(FindingsIn(source) \cup FindingsIn(baseline), d) :
    FindingKey(f) = FindingKey(g) =>
      f.severity = g.severity /\ f.confidence = g.confidence

\* A domain whose ranked verdict is shown to be worse than it was has a new
\* finding or an override, and one whose ranked verdict is shown to be better a
\* resolved one or an override, where keys tell weights.  A change from or to
\* insufficient evidence or manual review may have neither.
ChangesAreExplained ==
  baseline # None =>
    LET report == Comparison
        Explained(change) ==
          LET d == change.domain  IN
          \/ \E o \in overrides : o.domain = d
          \/ ~KeysTellWeight(d)
          \/ /\ Rank(change.current) > Rank(change.baseline)
                  => InDomain(report.findings.new, d) # {}
             /\ Rank(change.current) < Rank(change.baseline)
                  => InDomain(report.findings.resolved, d) # {}
    IN  \A change \in report.domains :
          Ranked(change.baseline) /\ Ranked(change.current) => Explained(change)

\* The comparison shows what managers decided, and the engine's verdicts
\* where they decided nothing.
OverridesAreShown ==
  baseline # None =>
    \A change \in Comparison.domains :
      LET Decided(which, lines) ==
            LET own == {o \in overrides : o.of = which /\ o.domain = change.domain}
            IN  IF own = {} THEN Verdict(lines)[change.domain]
                ELSE (CHOOSE o \in own : TRUE).category
      IN  /\ change.baseline = Decided("baseline", baseline)
          /\ change.current = Decided("current", source)
=============================================================================
