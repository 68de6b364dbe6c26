-------------------------- MODULE LifecycleSafety ---------------------------
(***************************************************************************)
(* What must be true of assessments while they are made and governed.      *)
(***************************************************************************)
EXTENDS Lifecycle

CatalogControls == {c.id : c \in CONTROL_CATALOG}

\* Every table, run and session of a manager has the shape its users expect.
TypeOK ==
  /\ scans \subseteq Scans
  /\ mappings \in [Scans -> SUBSET Domains]
  /\ \A s \in Scans : /\ Findings(s) \subseteq ScanFindings
                      /\ findings[s] \in [Findings(s) -> Review]
  /\ scores \subseteq ScoreRow
  /\ \A row \in UNION {evidence[s] \cup recommendations[s] : s \in Scans} :
       row \in [finding : ScanFindings, control : CatalogControls]
  /\ \A row \in UNION {evaluations[s] : s \in Scans} :
       row.findings \subseteq ScanFindings
  /\ catalog \in BOOLEAN
  /\ clock \in Nat
  /\ run \in [Scans -> Run]
  /\ op \in [People -> Op]
  /\ \A p \in Askers : AskAt(p, "shown") =>
       ask[p].context \in [scores : SUBSET ScoreRow, findings : SUBSET ScanFindings,
                           truncated : BOOLEAN]

(***************************************************************************)
(* The audit trail.                                                        *)
(***************************************************************************)
Trail(type, s) == {i \in DOMAIN audit : audit[i].type = type /\ audit[i].scan = s}

ReviewsOf(s, f) ==
  {i \in Trail("FINDING_REVIEWED", s) : audit[i].about.finding = f}

OverridesOf(s, d) ==
  {i \in Trail("SCORE_OVERRIDDEN", s) : audit[i].about.domain = d}

LastOf(positions) == CHOOSE i \in positions : \A j \in positions : j <= i

EngineRows(s) == {row \in scores : row.scan = s /\ row.overrideOf = NoScore}

GapFindings(s, d) ==
  UNION {row.findings : row \in {e \in evaluations[s] :
                                   e.domain = d /\ e.status = "GAP"}}

(***************************************************************************)
(* Properties.                                                             *)
(***************************************************************************)
\* An assessment that the trail calls completed is whole, and the counts it
\* was reported with are those of its rows, whatever managers decided while
\* it was being made and whichever other runs it met: one score of the
\* engine for each domain, evidence and a recommendation for each finding,
\* and for every domain evaluated the findings that its gaps name are those
\* of the domain that a control of the domain is for.
CompletedIsWhole ==
  \A s \in Scans : \A i \in Trail("ASSESSMENT_COMPLETED", s) :
    /\ {row.domain : row \in EngineRows(s)} = Domains
    /\ \A row \in EngineRows(s) :
         row.category = ScoreAllDomains(Findings(s), mappings[s])[row.domain]
    /\ {row.finding : row \in evidence[s]} = Findings(s)
    /\ {row.finding : row \in recommendations[s]} = Findings(s)
    /\ \A d \in mappings[s] :
         GapFindings(s, d) =
           {f \in InDomain(Findings(s), d) :
              AppliesToDomain(ControlForRule(f.rule), d)}
    /\ audit[i].about =
         [findings |-> Cardinality(Findings(s)),
          scores |-> Cardinality(EngineRows(s)),
          evaluations |-> Cardinality(evaluations[s]),
          recommendations |-> Cardinality(recommendations[s])]

\* The scores and the control evaluations of a scan agree on what was looked
\* at: a domain that no file maps to is short of evidence in both, is never
\* acceptable or satisfied for want of findings, and no other domain is.
CoverageAgrees ==
  \A s \in Scans : evaluations[s] # {} =>
    \A row \in EngineRows(s) :
      LET Statuses == {e.status : e \in {x \in evaluations[s] :
                                          x.domain = row.domain}}
      IN IF row.domain \in mappings[s]
         THEN /\ row.category # "INSUFFICIENT_EVIDENCE"
              /\ "INSUFFICIENT_EVIDENCE" \notin Statuses
         ELSE /\ row.category = "INSUFFICIENT_EVIDENCE"
              /\ Statuses = {"INSUFFICIENT_EVIDENCE"}

\* The two rules for the score in force agree: the latest row, by which the
\* finalization check and the trace of a finding go, and the latest row that
\* none overrides, by which the pages and the comparison go.
ReadersAgree ==
  \A s \in Scans : \A d \in ScoredDomains(s) :
    LatestScore(s, d) = EffectiveScore(s, d)

\* A finding is pending exactly while no review of it is on the trail, and
\* the outcome and the reviewer it shows are of reviews on the trail, with a
\* reason where the outcome is an override.
ReviewIsAccountedFor ==
  \A s \in scans : \A f \in Findings(s) :
    LET review == findings[s][f]
        Recorded == {audit[i] : i \in ReviewsOf(s, f)}
    IN /\ (review.status = "PENDING") <=> (Recorded = {})
       /\ Recorded # {} =>
            /\ \E e \in Recorded : e.actor = review.reviewer
            /\ \E e \in Recorded : /\ e.about.decision.status = review.status
                                   /\ review.status = "OVERRIDDEN"
                                        => e.about.decision.reasoned

\* Each override row is on the trail once, with the row it overrides, and the
\* chain of overrides of a score leads back to the engine's row: every link
\* goes to an earlier row of the same domain.
VerdictIsAccountedFor ==
  \A row \in scores : row.overrideOf # NoScore =>
    /\ Cardinality({i \in OverridesOf(row.scan, row.domain) :
                      /\ audit[i].about.new = row.at
                      /\ audit[i].about.original = row.overrideOf}) = 1
    /\ \E original \in ScoresOf(row.scan, row.domain) :
         original.at = row.overrideOf /\ original.at < row.at

OverriddenSince(s, position) ==
  \E i \in Trail("SCORE_OVERRIDDEN", s) : i > position

\* The check of an assessment that has scores does not say that it can be
\* finalized while a domain at risk has a pending finding, unless a score was
\* overridden after the check read the scores: reviews never make pending
\* again what was decided.
SignOffIsRight ==
  [][\A m \in Viewers :
       CheckFindings(m) /\ op'[m].can /\ op[m].read # <<>>
         => \/ CanFinalize(op[m].scan, LatestCategories(op[m].scan))
            \/ OverriddenSince(op[m].scan, op[m].trail)]_vars

Shown == {p \in Askers : AskAt(p, "shown")}

TheirAnswers(p) ==
  {i \in Answers : /\ audit[i].actor = p
                  /\ audit[i].scan = ask[p].request.scan
                  /\ audit[i].about = ask[p].response}

\* Whoever reads an answer finds it on the trail under their name, and both
\* say which provider was tried, which is one only if the feature, the
\* platform and the provider's own settings all allow it, and whether the
\* local mode stood in for it.
AnswersAreOnTrail ==
  \A p \in Shown :
    LET setting == ask[p].request.setting
        response == ask[p].response
    IN  /\ TheirAnswers(p) # {}
        /\ response.provider # Local <=>
             /\ setting.enabled /\ setting.external
             /\ setting.provider \in ProviderNames \cap setting.flags \cap setting.keys
        /\ response.success <=> response.provider = Local

\* A summary of a domain that shows an override comes after that override on
\* the trail, though the assistant takes any row of an overridden domain and
\* reads it in a session of its own.
SummariesAreOnTrail ==
  \A p \in Shown : ask[p].request.action = "summarize_domain" =>
    LET request == ask[p].request  IN
    \A row \in ask[p].context.scores : row.overrideOf # NoScore =>
      \E i \in OverridesOf(request.scan, request.about), j \in TheirAnswers(p) :
        audit[i].about.new = row.at /\ i < j

\* An answer that leaves out a finding or a domain that it is about says so.
OmissionsAreTold ==
  \A p \in Shown :
    LET request == ask[p].request
        context == ask[p].context
    IN  ~context.truncated =>
          CASE request.action = "explain_finding" ->
                 context.findings = {request.about}
            [] request.action = "summarize_domain" ->
                 context.findings = InDomain(Findings(request.scan), request.about)
            [] request.action = "answer_question" ->
                 context.findings = Findings(request.scan)
            [] request.action = "executive_summary" ->
                 context.scores # {} =>
                   {row.domain : row \in context.scores} = Domains

(***************************************************************************)
(* What the abstract record of an assessment promises.                     *)
(***************************************************************************)
Stage(s) ==
  IF Trail("ASSESSMENT_COMPLETED", s) # {} THEN "concluded"
  ELSE IF evaluations[s] # {} THEN "evaluated"
  ELSE IF ScoredDomains(s) # {} THEN "judged"
  ELSE IF s \in scans THEN "stored"
  ELSE "absent"

Verdict(s) == [d \in ScoredDomains(s) |-> EffectiveScore(s, d).category]

TheRecord == INSTANCE AssessmentRecord WITH
  Reportable <- ScanFindings, Decisions <- ReviewOutcomes,
  stage <- [s \in Scans |-> Stage(s)],
  review <- findings,
  verdict <- [s \in Scans |-> Verdict(s)]

\* The tables implement the record: findings appear once and at once, so do
\* the verdicts of all domains, a decided finding is never pending again, and
\* an assessment is concluded after it was evaluated.
ImplementsRecord == TheRecord!Spec

(***************************************************************************)
(* What the runs come to.                                                  *)
(***************************************************************************)
\* A run that has stored its scan comes to an end: it is done, or it failed
\* or was stopped and leaves what it had committed; two first runs never keep
\* each other from adding the catalog.
RunsEnd ==
  \A r \in Scans : At(r, "saved") ~> run[r].phase \in Ended

(***************************************************************************)
(* What is right only while transactions on one subject do not overlap.    *)
(***************************************************************************)
\* The last review on the trail is the one that the finding shows.
TrailTellsReview ==
  \A s \in scans : \A f \in Findings(s) : ReviewsOf(s, f) # {} =>
    LET last == audit[LastOf(ReviewsOf(s, f))]
    IN findings[s][f] = [status |-> last.about.decision.status,
                         reviewer |-> last.actor]

\* The last override on the trail is the score in force.
OverridesTakeEffect ==
  \A s \in scans : \A d \in Domains : OverridesOf(s, d) # {} =>
    LatestScore(s, d).at = audit[LastOf(OverridesOf(s, d))].about.new

\* The trail tells what was pending and in force after its first j rows.
PendingAfter(s, j) == {f \in Findings(s) : \A i \in ReviewsOf(s, f) : i > j}

ScoreAfter(s, d, j) ==
  Latest({row \in ScoresOf(s, d) :
            \A i \in OverridesOf(s, d) :
              audit[i].about.new = row.at => i <= j})

BlockedAfter(s, j) ==
  \E d \in ScoredDomains(s) :
    /\ ScoreAfter(s, d, j).category \in BlockingCategories
    /\ InDomain(PendingAfter(s, j), d) # {}

\* A check does not say that a scored assessment can be finalized if, at
\* every moment from its first read to its answer, some domain at risk had a
\* pending finding.
CheckWasTrueAtSomeMoment ==
  [][\A m \in Viewers :
       CheckFindings(m) /\ op'[m].can /\ op[m].read # <<>>
         => \E j \in op[m].trail..Len(audit) :
              ~BlockedAfter(op[m].scan, j)]_vars
=============================================================================
