--------------------------- MODULE LifecycleProofs --------------------------
(***************************************************************************)
(* Proofs about the life of an assessment: what its tables hold, how far   *)
(* its run is, and which rows a score has, whatever runs and managers do.  *)
(***************************************************************************)
EXTENDS LifecycleSafety, FiniteSetTheorems, SequenceTheorems, TLAPS

(***************************************************************************)
(* The constants.                                                          *)
(***************************************************************************)
LEMMA FourAreFinite ==
  ASSUME NEW a, NEW b, NEW c, NEW d
  PROVE  IsFiniteSet({a, b, c, d})
<1>1. IsFiniteSet({a} \cup {b}) /\ IsFiniteSet({c} \cup {d})
  BY FS_Singleton, FS_Union
<1>2. IsFiniteSet(({a} \cup {b}) \cup ({c} \cup {d}))
  BY <1>1, FS_Union
<1>3. ({a} \cup {b}) \cup ({c} \cup {d}) = {a, b, c, d}
  OBVIOUS
<1> QED BY <1>2, <1>3

LEMMA DomainsAreFinite == IsFiniteSet(Domains)
<1> DEFINE A == {"core_banking", "payments", "credit_lending", "investments_trading"}
           B == {"onboarding_identity_access", "transaction_processing_reporting",
                 "fraud_controls", "privacy_data_protection"}
           C == {"application_security", "infrastructure_api_security",
                 "database_controls_sod", "change_management"}
           D == {"monitoring_observability", "business_continuity_dr",
                 "model_ai_governance", "human_approval_auditability"}
<1>1. IsFiniteSet(A) /\ IsFiniteSet(B) /\ IsFiniteSet(C) /\ IsFiniteSet(D)
  BY FourAreFinite
<1>2. BankingDomain = (A \cup B) \cup (C \cup D)
  BY DEF BankingDomain
<1> HIDE DEF A, B, C, D
<1>3. IsFiniteSet(A \cup B) /\ IsFiniteSet(C \cup D)
  BY <1>1, FS_Union
<1>4. IsFiniteSet(BankingDomain)
  BY <1>2, <1>3, FS_Union
<1> QED BY <1>4, DomainsAssumption, FS_Subset

LEMMA CatalogIsFinite == IsFiniteSet(CONTROL_CATALOG)
<1> DEFINE A == {Control("CTRL-SECRET-001", "SECRET-", AnyDomain),
                 Control("CTRL-PII-001", "PII-", AnyDomain),
                 Control("CTRL-LOG-001", "LOG-", AnyDomain),
                 Control("CTRL-AUDIT-001", "AUDIT-", "human_approval_auditability")}
           B == {Control("CTRL-PERM-001", "PERM-", "application_security"),
                 Control("CTRL-SQL-001", "SQL-", "database_controls_sod"),
                 Control("CTRL-CFG-001", "CFG-", "infrastructure_api_security"),
                 Control("CTRL-SKIP-001", "SKIP-", AnyDomain)}
<1>1. IsFiniteSet(A) /\ IsFiniteSet(B)
  BY FourAreFinite
<1>2. CONTROL_CATALOG = A \cup B
  BY DEF CONTROL_CATALOG
<1> HIDE DEF A, B
<1> QED BY <1>1, <1>2, FS_Union

\* No two controls of the catalog are for the same rules, and none is for
\* those of no scanner.
LEMMA ControlsHaveTheirRules ==
  /\ \A c1, c2 \in CONTROL_CATALOG : c1.prefix = c2.prefix => c1 = c2
  /\ \A c \in CONTROL_CATALOG : ControlForRule(c.prefix) = c
  /\ \A p \in Prefixes : /\ ControlForRule(p) \in CONTROL_CATALOG
                         /\ ControlForRule(p).prefix = p
                         /\ ControlForRule(p).id \in CatalogControls
<1>1. \A c1, c2 \in CONTROL_CATALOG : c1.prefix = c2.prefix => c1 = c2
  BY DEF CONTROL_CATALOG, Control
<1>2. \A c \in CONTROL_CATALOG : ControlForRule(c.prefix) = c
  BY <1>1 DEF ControlForRule
<1>3. ASSUME NEW p \in Prefixes
      PROVE  /\ ControlForRule(p) \in CONTROL_CATALOG
             /\ ControlForRule(p).prefix = p
             /\ ControlForRule(p).id \in CatalogControls
  <2>1. PICK c \in CONTROL_CATALOG : c.prefix = p
    BY DEF Prefixes
  <2> QED BY <1>2, <2>1 DEF CatalogControls
<1> QED BY <1>1, <1>2, <1>3

\* There is a control that is for every domain.
LEMMA SomeControlForDomain ==
  ASSUME NEW d
  PROVE  ControlsForDomain(d) # {}
<1>1. Control("CTRL-SECRET-001", "SECRET-", AnyDomain) \in ControlsForDomain(d)
  BY DEF ControlsForDomain, AppliesToDomain, CONTROL_CATALOG, Control
<1> QED BY <1>1

LEMMA FindingTypes ==
  ASSUME NEW f \in ScanFindings
  PROVE  f \in Finding /\ f.rule \in Prefixes /\ f.domains \subseteq Domains
<1>1. PICK o \in Outcomes : f \in o.found
  BY DEF ScanFindings
<1>2. o.found \subseteq Finding
  BY TablesAssumption
<1> QED BY <1>1, <1>2 DEF Finding

LEMMA OutcomeTypes ==
  ASSUME NEW o \in Outcomes
  PROVE  /\ o.found \subseteq ScanFindings /\ IsFiniteSet(o.found)
         /\ o.mapped \subseteq Domains
BY TablesAssumption DEF ScanFindings

(***************************************************************************)
(* The operators of the pipeline.                                          *)
(***************************************************************************)
LEMMA ScoresOfAllDomains ==
  ASSUME NEW fs, NEW mapped
  PROVE  /\ ScoreAllDomains(fs, mapped) \in [Domains -> Categories]
         /\ \A d \in Domains :
              ScoreAllDomains(fs, mapped)[d] = "INSUFFICIENT_EVIDENCE"
                <=> d \notin mapped
<1>1. ASSUME NEW d \in Domains
      PROVE  /\ DecisionCategory(InDomain(fs, d), d \in mapped) \in Categories
             /\ DecisionCategory(InDomain(fs, d), d \in mapped)
                  = "INSUFFICIENT_EVIDENCE" <=> d \notin mapped
  BY DEF DecisionCategory, CategoryOf, Categories
<1> QED BY <1>1 DEF ScoreAllDomains

LEMMA WithControlTypes ==
  ASSUME NEW fs \in SUBSET ScanFindings
  PROVE  /\ WithControl(fs) \subseteq [finding : ScanFindings, control : CatalogControls]
         /\ {row.finding : row \in WithControl(fs)} = fs
<1>1. \A f \in fs : ControlForRule(f.rule).id \in CatalogControls
  BY FindingTypes, ControlsHaveTheirRules
<1>2. ASSUME NEW row \in WithControl(fs)
      PROVE  row \in [finding : ScanFindings, control : CatalogControls]
  <2>1. PICK f \in fs : row = [finding |-> f, control |-> ControlForRule(f.rule).id]
    BY DEF WithControl
  <2> QED BY <1>1, <2>1
<1>3. ASSUME NEW f \in fs
      PROVE  f \in {row.finding : row \in WithControl(fs)}
  <2> DEFINE row == [finding |-> f, control |-> ControlForRule(f.rule).id]
  <2>1. row \in WithControl(fs) /\ row.finding = f
    BY DEF WithControl
  <2> QED BY <2>1
<1>4. \A row \in WithControl(fs) : row.finding \in fs
  BY DEF WithControl
<1> QED BY <1>2, <1>3, <1>4

\* As many rows as findings.
LEMMA WithControlCount ==
  ASSUME NEW fs, IsFiniteSet(fs)
  PROVE  Cardinality(WithControl(fs)) = Cardinality(fs)
<1> DEFINE Row(f) == [finding |-> f, control |-> ControlForRule(f.rule).id]
           rowOf == [f \in fs |-> Row(f)]
<1>1. rowOf \in Bijection(fs, WithControl(fs))
  BY DEF WithControl, Bijection, Injection, Surjection, IsInjective
<1> QED BY <1>1, FS_Bijection DEF ExistsBijection

EvaluationRow ==
  [domain : Domains, control : CatalogControls,
   status : {"INSUFFICIENT_EVIDENCE", "GAP", "SATISFIED"},
   findings : SUBSET ScanFindings]

LEMMA EvaluationTypes ==
  ASSUME NEW fs \in SUBSET ScanFindings, NEW mapped
  PROVE  EvaluateAllDomains(fs, mapped) \subseteq EvaluationRow
<1>1. ASSUME NEW d \in Domains
      PROVE  EvaluateDomain(InDomain(fs, d), d, d \in mapped) \subseteq EvaluationRow
  BY DEF EvaluateDomain, EvaluationRow, InDomain, ControlsForDomain, CatalogControls
<1> QED BY <1>1 DEF EvaluateAllDomains

(***************************************************************************)
(* The inductive invariant.                                                *)
(***************************************************************************)
ControlRow == [finding : ScanFindings, control : CatalogControls]

Reviews == UNION {[fs -> Review] : fs \in SUBSET ScanFindings}

TablesTyped ==
  /\ scans \subseteq Scans
  /\ mappings \in [Scans -> SUBSET Domains]
  /\ findings \in [Scans -> Reviews]
  /\ scores \subseteq ScoreRow
  /\ evidence \in [Scans -> SUBSET ControlRow]
  /\ recommendations \in [Scans -> SUBSET ControlRow]
  /\ evaluations \in [Scans -> SUBSET EvaluationRow]
  /\ catalog \in BOOLEAN
  /\ clock \in Nat /\ clock > NoScore
  /\ audit \in Seq({audit[i] : i \in DOMAIN audit})

\* Rows are of scans that are stored, and so are the rows of the trail.
RowsOfScans ==
  /\ \A row \in scores : row.scan \in scans
  /\ \A i \in DOMAIN audit : audit[i].scan \in scans
  /\ IsFiniteSet(scores)
  /\ \A s \in Scans : IsFiniteSet(Findings(s))

RunsTyped ==
  /\ run \in [Scans -> Run]
  /\ \A r \in Scans : IsFiniteSet(run[r].found)

\* What a session is about is in the tables.
SessionGrounded(m) ==
  /\ op[m].step \in {"review_chosen", "review_read"} =>
       /\ op[m].scan \in scans
       /\ op[m].finding \in Findings(op[m].scan)
       /\ Valid(op[m].decision)
  /\ op[m].step \in {"override_chosen", "override_flushed"} =>
       op[m].original \in scores
  /\ op[m].step = "check_started" => op[m].scan \in scans

SessionsTyped ==
  /\ op \in [People -> Op]
  /\ \A m \in People : SessionGrounded(m)

RequestTyped(request) ==
  /\ request.scan \in scans
  /\ request.setting \in AgentSettings
  /\ request.action = "summarize_domain" => request.about \in Domains

ContextTyped(context) ==
  context \in [scores : SUBSET scores, findings : SUBSET ScanFindings,
               truncated : BOOLEAN]

\* What a page tells of is in the tables.
PageGrounded(p) ==
  /\ ask[p].step \in {"waiting", "score_read", "asked", "shown"}
  /\ ask[p].step # "waiting" => RequestTyped(ask[p].request)
  /\ ask[p].step = "score_read" =>
       /\ ask[p].score \in scores
       /\ ask[p].request.action = "summarize_domain"
  /\ ask[p].step \in {"asked", "shown"} => ContextTyped(ask[p].context)

PagesTyped ==
  /\ ask \in [Askers -> {ask[p] : p \in Askers}]
  /\ \A p \in Askers : PageGrounded(p)

(***************************************************************************)
(* How far an assessment is, by its tables.                                *)
(***************************************************************************)
RowsOf(r) == {row \in scores : row.scan = r}

Unsaved(r) == r \notin scans /\ evaluations[r] = {}

Stored(r) == r \in scans /\ RowsOf(r) = {} /\ evaluations[r] = {}

\* The engine has given each domain one score.
HasScores(r) ==
  /\ r \in scans
  /\ \A d \in Domains : \E row \in EngineRows(r) : row.domain = d
  /\ \A a, b \in EngineRows(r) : a.domain = b.domain => a = b
  /\ \A row \in EngineRows(r) :
       row.category = ScoreAllDomains(Findings(r), mappings[r])[row.domain]
  /\ evidence[r] = WithControl(Findings(r))
  /\ recommendations[r] = WithControl(Findings(r))

Scored(r) == HasScores(r) /\ evaluations[r] = {}

Evaluated(r) ==
  HasScores(r) /\ evaluations[r] = EvaluateAllDomains(Findings(r), mappings[r])

\* The tables are as far as the run is, and stay whole where it ended.
ProgressOf(r) ==
  /\ run[r].phase \in {"idle", "scanned"} => Unsaved(r)
  /\ run[r].phase \in {"saved", "save_reported", "scoring"} => Stored(r)
  /\ run[r].phase \in {"scored", "scores_reported"} => Scored(r)
  /\ run[r].phase \in {"evaluated", "evaluations_reported", "completed",
                       "done"} => Evaluated(r)
  /\ Unsaved(r) \/ Stored(r) \/ Scored(r) \/ Evaluated(r)
  /\ r \in scans => Findings(r) = run[r].found

Progress == \A r \in Scans : ProgressOf(r)

Counts(s) ==
  [findings |-> Cardinality(Findings(s)),
   scores |-> Cardinality(EngineRows(s)),
   evaluations |-> Cardinality(evaluations[s]),
   recommendations |-> Cardinality(recommendations[s])]

CompletionOf(r) ==
  \A i \in Trail("ASSESSMENT_COMPLETED", r) :
    /\ run[r].phase \in {"completed", "done", "stopped"}
    /\ Evaluated(r)
    /\ audit[i].about = Counts(r)

Completion == \A r \in Scans : CompletionOf(r)

(***************************************************************************)
(* The rows of a score: stamped once, each override after what it is of,   *)
(* and one of them the last.                                               *)
(***************************************************************************)
ScoresOrdered ==
  /\ \A row \in scores : row.overrideOf < row.at /\ row.at < clock
  /\ \A a, b \in scores :
       a.scan = b.scan /\ a.domain = b.domain /\ a.at = b.at => a = b
  /\ \A s \in Scans : \A d \in ScoredDomains(s) :
       \E top \in ScoresOf(s, d) : \A row \in ScoresOf(s, d) : row.at <= top.at
  /\ \A row \in scores : row.overrideOf # NoScore =>
       \E original \in ScoresOf(row.scan, row.domain) :
         original.at = row.overrideOf

\* A row that is inserted and not committed has a time of its own.
OverridesOrdered ==
  /\ \A m \in People : Step(m, "override_flushed") =>
       /\ op[m].row.scan = op[m].original.scan
       /\ op[m].row.domain = op[m].original.domain
       /\ op[m].row.overrideOf = op[m].original.at
       /\ op[m].original.at < op[m].row.at
       /\ op[m].row.at < clock
       /\ \A row \in scores : row.at # op[m].row.at
  /\ \A m, n \in People :
       /\ m # n /\ Step(m, "override_flushed") /\ Step(n, "override_flushed")
       => op[m].row.at # op[n].row.at

LifecycleInv ==
  /\ TablesTyped
  /\ RowsOfScans
  /\ RunsTyped
  /\ SessionsTyped
  /\ PagesTyped
  /\ Progress
  /\ Completion
  /\ ScoresOrdered
  /\ OverridesOrdered

(***************************************************************************)
(* What a step does to the tables.                                         *)
(***************************************************************************)
\* A row is added to the trail, and no other.
LEMMA TrailIsAppended ==
  ASSUME TablesTyped, NEW e, Record(e)
  PROVE  /\ Len(audit) \in Nat /\ DOMAIN audit = 1 .. Len(audit)
         /\ Len(audit') = Len(audit) + 1
         /\ DOMAIN audit' = 1 .. (Len(audit) + 1)
         /\ DOMAIN audit \subseteq DOMAIN audit'
         /\ \A i \in DOMAIN audit : audit'[i] = audit[i]
         /\ audit'[Len(audit) + 1] = e
         /\ audit' \in Seq({audit'[i] : i \in DOMAIN audit'})
<1> DEFINE S == {audit[i] : i \in DOMAIN audit} \cup {e}
<1>1. audit \in Seq(S) /\ e \in S
  <2>1. audit \in Seq({audit[i] : i \in DOMAIN audit})
    BY DEF TablesTyped
  <2> QED BY <2>1, SeqMonotonic
<1> HIDE DEF S
<1>2. /\ Append(audit, e) \in Seq(S)
      /\ Len(Append(audit, e)) = Len(audit) + 1
      /\ \A i \in 1 .. Len(audit) : Append(audit, e)[i] = audit[i]
      /\ Append(audit, e)[Len(audit) + 1] = e
  BY <1>1, AppendProperties
<1>3. Len(audit) \in Nat /\ DOMAIN audit = 1 .. Len(audit)
  BY <1>1, LenProperties
<1>4. DOMAIN audit' = 1 .. Len(audit')
  BY <1>2, LenProperties DEF Record
<1>5. audit' \in Seq({audit'[i] : i \in DOMAIN audit'})
  BY <1>2, <1>4, LenProperties, IsASeq DEF Record
<1>6. DOMAIN audit \subseteq DOMAIN audit'
  BY <1>2, <1>3, <1>4 DEF Record
<1> QED BY <1>2, <1>3, <1>4, <1>5, <1>6 DEF Record

\* A row added to the trail changes the positions of its own kind alone.
LEMMA TrailOfKind ==
  ASSUME TablesTyped, NEW e, Record(e), NEW type, NEW s
  PROVE  /\ e.type = type /\ e.scan = s =>
              Trail(type, s)' = Trail(type, s) \cup {Len(audit) + 1}
         /\ e.type # type \/ e.scan # s =>
              Trail(type, s)' = Trail(type, s)
<1> DEFINE K == Len(audit) + 1
<1>1. /\ Len(audit) \in Nat /\ DOMAIN audit = 1 .. Len(audit)
      /\ DOMAIN audit' = 1 .. K
      /\ \A i \in DOMAIN audit : audit'[i] = audit[i]
      /\ audit'[K] = e
  BY TrailIsAppended
<1>2. DOMAIN audit' = DOMAIN audit \cup {K}
  BY <1>1
<1>3. Trail(type, s)' =
        {i \in DOMAIN audit' : audit'[i].type = type /\ audit'[i].scan = s}
  BY DEF Trail
<1> HIDE DEF K
<1> QED BY <1>1, <1>2, <1>3 DEF Trail, K

TrailGrows(e) ==
  /\ Record(e)
  /\ UNCHANGED <<scans, mappings, findings, scores, evidence,
                 recommendations, evaluations, catalog, clock>>

OtherTypes ==
  {"SCAN_PERSISTED", "SCORING_COMPLETED", "CONTROL_EVALUATION_COMPLETED",
   "ASSESSMENT_REQUESTED", "AGENT_ACTION"}

\* A run that has stored its scan, and no other, is in a phase of these.
LEMMA StoredPhases ==
  ASSUME LifecycleInv, NEW r \in Scans
  PROVE  /\ run[r].phase \in {"idle", "scanned"} => r \notin scans
         /\ run[r].phase \in Phases \ {"idle", "scanned", "failed", "stopped"}
              => r \in scans
BY DEF LifecycleInv, Progress, ProgressOf, Unsaved, Stored, Scored, Evaluated, HasScores, Phases

\* The steps that change the tables: those of a run, which are the rows it
\* inserts and the report of it, the commit of a review, the two of an
\* override, and the row of an answer.
LEMMA TableCases ==
  ASSUME LifecycleInv, [Next]_vars
  PROVE  \/ UNCHANGED tables
         \/ \E r \in Scans : Save(r) /\ UNCHANGED <<op, ask>>
         \/ \E r \in Scans : ScoreAndGenerate(r) /\ UNCHANGED <<op, ask>>
         \/ \E r \in Scans : Evaluate(r) /\ UNCHANGED <<op, ask>>
         \/ \E r \in Scans : Complete(r) /\ UNCHANGED <<op, ask>>
         \/ \E e : TrailGrows(e) /\ e.scan \in scans /\ e.type \in OtherTypes
                     /\ UNCHANGED op
         \/ \E m \in Managers : CommitReview(m) /\ UNCHANGED <<run, ask>>
         \/ \E m \in Managers : FlushOverride(m) /\ UNCHANGED <<run, ask>>
         \/ \E m \in Managers : CommitOverride(m) /\ UNCHANGED <<run, ask>>
<1>1. CASE UNCHANGED vars
  BY <1>1 DEF vars
<1>2. CASE \E r \in Scans : RunStep(r) /\ UNCHANGED <<op, ask>>
  <2>1. PICK r \in Scans : RunStep(r) /\ UNCHANGED <<op, ask>>
    BY <1>2
  <2>2. ASSUME NEW from \in Phases \ {"idle", "scanned", "failed", "stopped"},
               NEW type \in OtherTypes, NEW counts, NEW to,
               Report(r, from, type, counts, to)
        PROVE  \E e : TrailGrows(e) /\ e.scan \in scans /\ e.type \in OtherTypes
                        /\ UNCHANGED op
    <3>1. r \in scans
      BY <2>2, StoredPhases DEF Report, At
    <3> QED BY <2>1, <2>2, <3>1 DEF Report, TrailGrows, SystemEvent
  <2>3. CASE ReportSave(r)
    BY <2>2, <2>3 DEF ReportSave, Phases, OtherTypes
  <2>4. CASE ReportScores(r)
    BY <2>2, <2>4 DEF ReportScores, Phases, OtherTypes
  <2>5. CASE ReportEvaluations(r)
    BY <2>2, <2>5 DEF ReportEvaluations, Phases, OtherTypes
  <2>6. CASE Attribute(r)
    <3>1. r \in scans
      BY <2>6, StoredPhases DEF Attribute, At, Phases
    <3> QED BY <2>1, <2>6, <3>1 DEF Attribute, TrailGrows, OtherTypes
  <2>7. CASE Scan(r) \/ ScanFails(r) \/ ReadCatalog(r) \/ ScoreFails(r) \/ Stop(r)
    BY <2>7 DEF Scan, ScanFails, ReadCatalog, ScoreFails, Stop
  <2> QED BY <2>1, <2>3, <2>4, <2>5, <2>6, <2>7 DEF RunStep
<1>3. CASE \E m \in Managers : ManagerStep(m) /\ UNCHANGED <<run, ask>>
  BY <1>3 DEF ManagerStep, ChooseReview, ReadFinding, ChooseOverride, RollBack
<1>4. CASE \E v \in Viewers : ViewerStep(v) /\ UNCHANGED <<run, ask>>
  BY <1>4 DEF ViewerStep, CheckScores, CheckFindings, Leave
<1>5. CASE \E p \in Askers : AskerStep(p) /\ UNCHANGED <<run, op>>
  <2>1. PICK p \in Askers : AskerStep(p) /\ UNCHANGED <<run, op>>
    BY <1>5
  <2>2. CASE RecordAnswer(p)
    <3> DEFINE e == AgentEvent(p, Answer(ask[p].request))
    <3>1. ask[p].request.scan \in scans
      BY <2>2 DEF RecordAnswer, AskAt, LifecycleInv, PagesTyped, PageGrounded, RequestTyped
    <3>2. e.scan \in scans /\ e.type \in OtherTypes
      BY <3>1 DEF AgentEvent, OtherTypes
    <3>3. TrailGrows(e)
      BY <2>2 DEF RecordAnswer, TrailGrows
    <3> QED BY <2>1, <3>2, <3>3
  <2> QED BY <2>1, <2>2 DEF AskerStep, ExplainFinding, SummarizeDomain,
                            ReadDomainFindings, AnswerQuestion, ExecutiveSummary, AskFails
<1> QED BY <1>1, <1>2, <1>3, <1>4, <1>5 DEF Next

\* The review that a manager commits changes one finding of one scan.

\* The review that a manager commits changes one finding of one scan.
LEMMA ReviewIsCommitted ==
  ASSUME LifecycleInv, NEW m \in Managers, CommitReview(m)
  PROVE  /\ op[m].scan \in scans /\ op[m].scan \in Scans
         /\ op[m].finding \in Findings(op[m].scan)
         /\ op[m].read \in Review /\ op[m].decision \in Decisions
         /\ findings' \in [Scans -> Reviews]
         /\ \A s \in Scans : Findings(s)' = Findings(s)
         /\ \A s \in Scans : \A f \in Findings(s) :
              findings'[s][f] =
                IF s = op[m].scan /\ f = op[m].finding
                THEN [status |-> Column(op[m].read.status, op[m].decision.status,
                                        findings[s][f].status),
                      reviewer |-> Column(op[m].read.reviewer, m,
                                          findings[s][f].reviewer)]
                ELSE findings[s][f]
<1> DEFINE s0 == op[m].scan
           f0 == op[m].finding
           new == [status |-> Column(op[m].read.status, op[m].decision.status,
                                     findings[s0][f0].status),
                   reviewer |-> Column(op[m].read.reviewer, m,
                                       findings[s0][f0].reviewer)]
<1>1. m \in People /\ op[m] \in Op /\ op[m].step = "review_read"
  BY DEF CommitReview, Step, People, LifecycleInv, SessionsTyped, SessionGrounded
<1>2. op[m] \in [step : {"review_read"}, scan : Scans, finding : ScanFindings,
                 decision : Decisions, read : Review]
  BY <1>1 DEF Op, Reviewing, Overriding, Checking, Idle
<1>3. op[m].read \in Review /\ op[m].decision \in Decisions /\ s0 \in Scans
  BY <1>2
<1>4. s0 \in scans /\ f0 \in Findings(s0)
  BY <1>1 DEF LifecycleInv, SessionsTyped, SessionGrounded
<1>5. PICK fs \in SUBSET ScanFindings : findings[s0] \in [fs -> Review]
  <2>1. findings[s0] \in Reviews
    BY <1>3 DEF LifecycleInv, TablesTyped
  <2> QED BY <2>1 DEF Reviews
<1>6. findings[s0][f0] \in Review /\ Findings(s0) = fs
  BY <1>4, <1>5 DEF Findings
<1>7. findings' = [findings EXCEPT ![s0] = [@ EXCEPT ![f0] = new]]
  <2> DEFINE half == [findings EXCEPT ![s0][f0].status =
                        Column(op[m].read.status, op[m].decision.status, @)]
  <2>1. findings' = [half EXCEPT ![s0][f0].reviewer = Column(op[m].read.reviewer, m, @)]
    BY ZenonT(60) DEF CommitReview
  <2>2. half[s0][f0].reviewer = findings[s0][f0].reviewer
    BY ZenonT(60), <1>3, <1>4, <1>5, <1>6 DEF LifecycleInv, TablesTyped, Review
  <2>3. [half[s0][f0] EXCEPT !.reviewer = Column(op[m].read.reviewer, m, @)] = new
    <3>1. PICK old : old = findings[s0][f0]
      OBVIOUS
    <3>2. half[s0][f0] = [old EXCEPT !.status =
                            Column(op[m].read.status, op[m].decision.status, @)]
      BY <1>3, <1>4, <1>5, <1>6, <3>1 DEF LifecycleInv, TablesTyped
    <3>3. old \in [status : ReviewOutcomes \cup {"PENDING"},
                     reviewer : Managers \cup {"nobody"}]
      BY <1>6, <3>1 DEF Review
    <3> HIDE DEF half
    <3>4. new = [status |-> Column(op[m].read.status, op[m].decision.status, old.status),
                 reviewer |-> Column(op[m].read.reviewer, m, old.reviewer)]
      BY <3>1
    <3>5. PICK r : r = half[s0][f0]
      OBVIOUS
    <3>6. /\ r.reviewer = old.reviewer
          /\ r = [status |-> Column(op[m].read.status, op[m].decision.status, old.status),
                  reviewer |-> old.reviewer]
      BY <3>2, <3>3, <3>5
    <3>7. [r EXCEPT !.reviewer = Column(op[m].read.reviewer, m, @)] = new
      BY <3>4, <3>6
    <3> QED BY <3>5, <3>7
  <2>4. findings' = [half EXCEPT ![s0] = [half[s0] EXCEPT ![f0] = new]]
    BY <1>3, <1>4, <1>5, <1>6, <2>1, <2>3 DEF LifecycleInv, TablesTyped
  <2> QED BY <1>3, <1>4, <1>5, <1>6, <2>4 DEF LifecycleInv, TablesTyped
<1>8. new \in Review
  BY <1>3, <1>6, GovernanceAssumption DEF Review, Column
<1> HIDE DEF new
<1>9. [findings[s0] EXCEPT ![f0] = new] \in [fs -> Review]
  BY <1>5, <1>8
<1>10. findings' \in [Scans -> Reviews]
  BY <1>3, <1>7, <1>9 DEF LifecycleInv, TablesTyped, Reviews
<1>11. \A s \in Scans : Findings(s)' = Findings(s)
  BY <1>3, <1>5, <1>7, <1>9 DEF LifecycleInv, TablesTyped, Findings
<1>12. ASSUME NEW s \in Scans, NEW f \in Findings(s)
       PROVE  findings'[s][f] = IF s = s0 /\ f = f0 THEN new ELSE findings[s][f]
  BY <1>3, <1>4, <1>7 DEF LifecycleInv, TablesTyped, Findings
<1> QED BY <1>3, <1>4, <1>10, <1>11, <1>12 DEF new

LEMMA SessionParts ==
  ASSUME LifecycleInv, NEW m \in People
  PROVE  /\ op[m].step \in {"review_chosen", "review_read"} =>
              /\ op[m].scan \in Scans /\ op[m].finding \in ScanFindings
              /\ op[m].decision \in Decisions
         /\ Step(m, "review_read") => op[m].read \in Review
         /\ Step(m, "override_chosen") =>
              op[m].original \in ScoreRow /\ op[m].category \in Verdicts
         /\ Step(m, "override_flushed") =>
              op[m].original \in ScoreRow /\ op[m].row \in ScoreRow
         /\ Step(m, "check_started") =>
              op[m].scan \in Scans /\ op[m].trail \in Nat
<1>1. op[m] \in Op
  BY DEF LifecycleInv, SessionsTyped, SessionGrounded
<1>2. CASE op[m] = Idle
  BY <1>2 DEF Idle, Step
<1>3. CASE op[m] \in Reviewing
  BY <1>3 DEF Reviewing, Step
<1>4. CASE op[m] \in Overriding
  BY <1>4 DEF Overriding, Step
<1>5. CASE op[m] \in Checking
  BY <1>5 DEF Checking, Step
<1> QED BY <1>1, <1>2, <1>3, <1>4, <1>5 DEF Op

LEMMA ReviewsHaveFindings ==
  ASSUME TablesTyped, NEW s \in Scans
  PROVE  /\ Findings(s) \in SUBSET ScanFindings
         /\ findings[s] \in [Findings(s) -> Review]
<1>1. findings[s] \in Reviews
  BY DEF TablesTyped
<1>2. PICK fs \in SUBSET ScanFindings : findings[s] \in [fs -> Review]
  BY <1>1 DEF Reviews
<1> QED BY <1>2 DEF Findings

LEMMA NewRowsTyped ==
  ASSUME LifecycleInv, NEW r \in Scans, ScoreAndGenerate(r)
  PROVE  \A row \in scores' \ scores :
           /\ row \in ScoreRow /\ row.scan = r /\ row.at = clock
           /\ row.overrideOf = NoScore
           /\ row.category = ScoreAllDomains(Findings(r), mappings[r])[row.domain]
<1>1. ASSUME NEW row \in scores' \ scores
      PROVE  \E d \in Domains :
               row = [scan |-> r, domain |-> d,
                      category |-> ScoreAllDomains(Findings(r), mappings[r])[d],
                      at |-> clock, overrideOf |-> NoScore]
  BY DEF ScoreAndGenerate, ScoredFrom
<1>2. \A d \in Domains : ScoreAllDomains(Findings(r), mappings[r])[d] \in Categories
  BY ScoresOfAllDomains
<1> QED BY <1>1, <1>2 DEF LifecycleInv, TablesTyped, ScoreRow, NoScore

\* Scans, their findings, rows of scores, and rows of the trail stay; the
\* clock is never set back.
LEMMA NothingIsForgotten ==
  ASSUME LifecycleInv, [Next]_vars
  PROVE  /\ scans \subseteq scans'
         /\ \A s \in scans : Findings(s)' = Findings(s) /\ mappings'[s] = mappings[s]
         /\ scores \subseteq scores'
         /\ DOMAIN audit \subseteq DOMAIN audit'
         /\ \A i \in DOMAIN audit : audit'[i] = audit[i]
         /\ Len(audit) \in Nat /\ Len(audit') \in Nat /\ Len(audit) <= Len(audit')
         /\ clock' \in Nat /\ clock <= clock'
<1> USE DEF LifecycleInv
<1>0. ASSUME NEW e, Record(e)
      PROVE  /\ DOMAIN audit \subseteq DOMAIN audit'
             /\ \A i \in DOMAIN audit : audit'[i] = audit[i]
             /\ Len(audit') \in Nat /\ Len(audit) <= Len(audit')
  <2>1. TablesTyped
    OBVIOUS
  <2>2. /\ Len(audit) \in Nat /\ Len(audit') = Len(audit) + 1
        /\ DOMAIN audit \subseteq DOMAIN audit'
        /\ \A i \in DOMAIN audit : audit'[i] = audit[i]
    BY <1>0, <2>1, TrailIsAppended
  <2> QED BY <2>2
<1>1. /\ Len(audit) \in Nat /\ clock \in Nat /\ clock + 1 \in Nat
      /\ DOMAIN audit = 1 .. Len(audit) /\ scans \subseteq Scans
  BY LenProperties DEF TablesTyped
<1>2. CASE UNCHANGED tables
  BY <1>1, <1>2 DEF tables, Findings
<1>3. CASE \E r \in Scans : Save(r)
  <2>1. PICK r \in Scans : Save(r)
    BY <1>3
  <2>2. r \notin scans
    BY <2>1, StoredPhases DEF Save, At
  <2> QED BY <1>1, <2>1, <2>2 DEF Save, Findings, TablesTyped
<1>4. CASE \E r \in Scans : ScoreAndGenerate(r) \/ Evaluate(r)
  BY <1>1, <1>4 DEF ScoreAndGenerate, Evaluate, Findings
<1>5. CASE (\E r \in Scans : Complete(r)) \/ (\E e : TrailGrows(e))
  <2>1. PICK e : TrailGrows(e)
    BY <1>5 DEF Complete, Report, TrailGrows
  <2> QED BY <1>0, <1>1, <2>1 DEF TrailGrows, Findings
<1>6. CASE \E m \in Managers : CommitReview(m)
  <2>1. PICK m \in Managers : CommitReview(m)
    BY <1>6
  <2>2. \A s \in Scans : Findings(s)' = Findings(s)
    BY <2>1, ReviewIsCommitted
  <2>3. Record(ReviewEvent(m)) /\ UNCHANGED <<scans, mappings, scores, clock>>
    BY <2>1 DEF CommitReview
  <2> QED BY <1>0, <1>1, <2>2, <2>3
<1>7. CASE \E m \in Managers : FlushOverride(m)
  BY <1>1, <1>7 DEF FlushOverride, Findings
<1>8. CASE \E m \in Managers : CommitOverride(m)
  <2>1. PICK m \in Managers : CommitOverride(m)
    BY <1>8
  <2>2. Record(OverrideEvent(m)) /\ UNCHANGED <<scans, mappings, findings, clock>>
          /\ scores \subseteq scores'
    BY <2>1 DEF CommitOverride
  <2> QED BY <1>0, <1>1, <2>2 DEF Findings
<1> QED BY <1>2, <1>3, <1>4, <1>5, <1>6, <1>7, <1>8, TableCases

(***************************************************************************)
(* The tables keep their types.                                            *)
(***************************************************************************)
LEMMA TablesTypedStep ==
  ASSUME LifecycleInv, [Next]_vars
  PROVE  TablesTyped'
<1>0. TablesTyped
  BY DEF LifecycleInv
<1>1. CASE UNCHANGED tables
  BY <1>0, <1>1 DEF tables, TablesTyped
<1>2. CASE \E r \in Scans : Save(r)
  <2>1. PICK r \in Scans : Save(r)
    BY <1>2
  <2>2. run[r].found \in SUBSET ScanFindings /\ run[r].mapped \in SUBSET Domains
    BY DEF LifecycleInv, RunsTyped, Run
  <2>3. [f \in run[r].found |-> Unreviewed] \in Reviews
    BY <2>2 DEF Reviews, Review, Unreviewed
  <2>4. findings' \in [Scans -> Reviews]
    BY <1>0, <2>1, <2>3 DEF TablesTyped, Save
  <2>5. mappings' \in [Scans -> SUBSET Domains] /\ scans' \subseteq Scans
    BY <1>0, <2>1, <2>2 DEF TablesTyped, Save
  <2> QED BY <1>0, <2>1, <2>4, <2>5 DEF TablesTyped, Save
<1>3. CASE \E r \in Scans : ScoreAndGenerate(r)
  <2>1. PICK r \in Scans : ScoreAndGenerate(r)
    BY <1>3
  <2>2. scores' \subseteq ScoreRow
    BY <1>0, <2>1, NewRowsTyped DEF TablesTyped
  <2>3. WithControl(Findings(r)) \in SUBSET ControlRow
    BY <1>0, WithControlTypes, ReviewsHaveFindings DEF ControlRow
  <2>4. /\ evidence' \in [Scans -> SUBSET ControlRow]
        /\ recommendations' \in [Scans -> SUBSET ControlRow]
    BY <1>0, <2>1, <2>3 DEF TablesTyped, ScoreAndGenerate
  <2>5. clock' \in Nat /\ clock' > NoScore
    BY <1>0, <2>1 DEF TablesTyped, ScoreAndGenerate, NoScore
  <2> QED BY <1>0, <2>1, <2>2, <2>4, <2>5 DEF TablesTyped, ScoreAndGenerate
<1>4. CASE \E r \in Scans : Evaluate(r)
  <2>1. PICK r \in Scans : Evaluate(r)
    BY <1>4
  <2>2. EvaluateAllDomains(Findings(r), mappings[r]) \in SUBSET EvaluationRow
    BY <1>0, EvaluationTypes, ReviewsHaveFindings
  <2>3. evaluations' \in [Scans -> SUBSET EvaluationRow]
    BY <1>0, <2>1, <2>2 DEF TablesTyped, Evaluate, ScoredFrom
  <2> QED BY <1>0, <2>1, <2>3 DEF TablesTyped, Evaluate
<1>5. CASE (\E r \in Scans : Complete(r)) \/ (\E e : TrailGrows(e))
  <2>1. PICK e : TrailGrows(e)
    BY <1>5 DEF Complete, Report, TrailGrows
  <2>2. audit' \in Seq({audit'[i] : i \in DOMAIN audit'})
    BY <1>0, <2>1, TrailIsAppended DEF TrailGrows
  <2> QED BY <1>0, <2>1, <2>2 DEF TablesTyped, TrailGrows
<1>6. CASE \E m \in Managers : CommitReview(m)
  <2>1. PICK m \in Managers : CommitReview(m)
    BY <1>6
  <2>2. audit' \in Seq({audit'[i] : i \in DOMAIN audit'})
    BY <1>0, <2>1, TrailIsAppended DEF CommitReview
  <2>3. findings' \in [Scans -> Reviews]
    BY <2>1, ReviewIsCommitted
  <2> QED BY <1>0, <2>1, <2>2, <2>3 DEF TablesTyped, CommitReview
<1>7. CASE \E m \in Managers : FlushOverride(m)
  BY <1>0, <1>7 DEF TablesTyped, FlushOverride, NoScore
<1>8. CASE \E m \in Managers : CommitOverride(m)
  <2>1. PICK m \in Managers : CommitOverride(m)
    BY <1>8
  <2>2. audit' \in Seq({audit'[i] : i \in DOMAIN audit'})
    BY <1>0, <2>1, TrailIsAppended DEF CommitOverride
  <2>3. op[m].row \in ScoreRow
    BY <2>1, SessionParts DEF CommitOverride, People
  <2> QED BY <1>0, <2>1, <2>2, <2>3 DEF TablesTyped, CommitOverride
<1> QED BY <1>1, <1>2, <1>3, <1>4, <1>5, <1>6, <1>7, <1>8, TableCases

LEMMA RowsOfScansStep ==
  ASSUME LifecycleInv, [Next]_vars
  PROVE  RowsOfScans'
<1>0. TablesTyped /\ RowsOfScans
  BY DEF LifecycleInv
<1>01. ASSUME NEW e, Record(e), e.scan \in scans, scans' = scans
       PROVE  \A i \in DOMAIN audit' : audit'[i].scan \in scans'
  <2>1. /\ DOMAIN audit = 1 .. Len(audit) /\ Len(audit) \in Nat
        /\ DOMAIN audit' = 1 .. (Len(audit) + 1)
        /\ \A i \in DOMAIN audit : audit'[i] = audit[i]
        /\ audit'[Len(audit) + 1] = e
    BY <1>0, <1>01, TrailIsAppended
  <2>2. \A i \in DOMAIN audit' : i \in DOMAIN audit \/ i = Len(audit) + 1
    BY <2>1
  <2> QED BY <1>0, <1>01, <2>1, <2>2 DEF RowsOfScans
<1>1. CASE UNCHANGED tables
  BY <1>0, <1>1 DEF tables, RowsOfScans, Findings
<1>2. CASE \E r \in Scans : Save(r)
  <2>1. PICK r \in Scans : Save(r)
    BY <1>2
  <2>2. IsFiniteSet(run[r].found)
    BY DEF LifecycleInv, RunsTyped
  <2>3. Findings(r)' = run[r].found /\ \A s \in Scans \ {r} : Findings(s)' = Findings(s)
    BY <1>0, <2>1 DEF Save, TablesTyped, Findings
  <2>4. \A s \in Scans : IsFiniteSet(Findings(s))'
    BY <1>0, <2>2, <2>3 DEF RowsOfScans
  <2> QED BY <1>0, <2>1, <2>4 DEF Save, RowsOfScans
<1>3. CASE \E r \in Scans : ScoreAndGenerate(r)
  <2>1. PICK r \in Scans : ScoreAndGenerate(r)
    BY <1>3
  <2>2. r \in scans
    BY <2>1, StoredPhases DEF ScoreAndGenerate, At, Phases
  <2> DEFINE RowOf(d) == [scan |-> r, domain |-> d,
               category |-> ScoreAllDomains(ScoredFrom(r), mappings[r])[d],
               at |-> clock, overrideOf |-> NoScore]
             rowOf == [d \in Domains |-> RowOf(d)]
  <2>3. scores' = scores \cup {RowOf(d) : d \in Domains}
    BY <2>1 DEF ScoreAndGenerate
  <2>4. \A d \in Domains : RowOf(d).scan = r
    OBVIOUS
  <2> HIDE DEF RowOf
  <2>5. rowOf \in Surjection(Domains, {RowOf(d) : d \in Domains})
    BY DEF Surjection
  <2>6. IsFiniteSet(scores')
    BY <1>0, <2>3, <2>5, DomainsAreFinite, FS_Surjection, FS_Union DEF RowsOfScans
  <2>7. \A row \in scores' : row.scan \in scans
    BY <1>0, <2>2, <2>3, <2>4 DEF RowsOfScans
  <2> QED BY <1>0, <2>1, <2>6, <2>7 DEF ScoreAndGenerate, RowsOfScans, Findings
<1>4. CASE \E r \in Scans : Evaluate(r)
  BY <1>0, <1>4 DEF Evaluate, RowsOfScans, Findings
<1>5. CASE (\E r \in Scans : Complete(r))
            \/ (\E e : TrailGrows(e) /\ e.scan \in scans)
  <2>1. PICK e : TrailGrows(e) /\ e.scan \in scans
    <3>1. ASSUME NEW r \in Scans, Complete(r)
          PROVE  \E e : TrailGrows(e) /\ e.scan \in scans
      <4> DEFINE e == SystemEvent("ASSESSMENT_COMPLETED", r,
                        [findings |-> Cardinality(Findings(r)),
                         scores |-> Cardinality(Domains),
                         evaluations |-> Cardinality(evaluations[r]),
                         recommendations |-> Cardinality(run[r].found)])
      <4>1. r \in scans
        BY <3>1, StoredPhases DEF Complete, Report, At, Phases
      <4>2. TrailGrows(e) /\ e.scan = r
        BY <3>1 DEF Complete, Report, TrailGrows, SystemEvent
      <4> QED BY <4>1, <4>2
    <3> QED BY <1>5, <3>1
  <2> QED BY <1>0, <1>01, <2>1 DEF TrailGrows, RowsOfScans, Findings
<1>6. CASE \E m \in Managers : CommitReview(m)
  <2>1. PICK m \in Managers : CommitReview(m)
    BY <1>6
  <2>2. op[m].scan \in scans /\ \A s \in Scans : Findings(s)' = Findings(s)
    BY <2>1, ReviewIsCommitted
  <2>3. ReviewEvent(m).scan = op[m].scan
    BY DEF ReviewEvent
  <2> QED BY <1>0, <1>01, <2>1, <2>2, <2>3 DEF CommitReview, RowsOfScans
<1>7. CASE \E m \in Managers : FlushOverride(m)
  BY <1>0, <1>7 DEF FlushOverride, RowsOfScans, Findings
<1>8. CASE \E m \in Managers : CommitOverride(m)
  <2>1. PICK m \in Managers : CommitOverride(m)
    BY <1>8
  <2>2. op[m].row.scan \in scans
    BY <1>0, <2>1 DEF CommitOverride, Step, People, LifecycleInv, SessionsTyped, SessionGrounded,
                      RowsOfScans, OverridesOrdered
  <2>3. OverrideEvent(m).scan = op[m].row.scan
    BY DEF OverrideEvent
  <2>4. IsFiniteSet(scores')
    BY <1>0, <2>1, FS_AddElement DEF CommitOverride, RowsOfScans
  <2> QED BY <1>0, <1>01, <2>1, <2>2, <2>3, <2>4 DEF CommitOverride, RowsOfScans, Findings
<1> QED BY <1>1, <1>2, <1>3, <1>4, <1>5, <1>6, <1>7, <1>8, TableCases

(***************************************************************************)
(* Runs, sessions and pages keep their types.                              *)
(***************************************************************************)
\* Both rules for the score in force choose the last row: no row that is
\* later overrides it.
LEMMA ScoreInForce ==
  ASSUME TablesTyped, ScoresOrdered, NEW s \in Scans, NEW d \in ScoredDomains(s)
  PROVE  \E top \in ScoresOf(s, d) :
           /\ \A row \in ScoresOf(s, d) : row.at <= top.at
           /\ LatestScore(s, d) = top
           /\ EffectiveScore(s, d) = top
<1> DEFINE rows == ScoresOf(s, d)
           standing == {row \in rows : row.at \notin Superseded(rows)}
<1>1. PICK top \in rows : \A row \in rows : row.at <= top.at
  BY DEF ScoresOrdered
<1>2. \A row \in rows : row \in scores /\ row.at \in Nat /\ row.overrideOf \in Nat
                        /\ row.overrideOf < row.at
  BY DEF TablesTyped, ScoresOrdered, ScoreRow, ScoresOf
<1>3. \A a, b \in rows : a.at = b.at => a = b
  BY DEF ScoresOrdered, ScoresOf
<1>4. ASSUME NEW set, top \in set, set \subseteq rows
      PROVE  Latest(set) = top
  <2>1. \A row \in set : row.at <= top.at
    BY <1>1, <1>4
  <2>2. ASSUME NEW row \in set, \A other \in set : other.at <= row.at
        PROVE  row = top
    <3>1. row.at <= top.at /\ top.at <= row.at /\ row \in rows
      BY <1>1, <1>4, <2>2
    <3> QED BY <1>2, <1>3, <3>1
  <2> QED BY <1>4, <2>1, <2>2 DEF Latest
<1>5. top.at \notin Superseded(rows)
  <2>1. ASSUME NEW row \in rows, row.overrideOf = top.at PROVE FALSE
    BY <1>1, <1>2, <2>1
  <2> QED BY <2>1 DEF Superseded
<1> QED BY <1>1, <1>4, <1>5 DEF LatestScore, EffectiveScore

LEMMA RunsTypedStep ==
  ASSUME LifecycleInv, [Next]_vars
  PROVE  RunsTyped'
<1>0. RunsTyped /\ TablesTyped
  BY DEF LifecycleInv
<1>1. ASSUME NEW r \in Scans, NEW phase \in Phases, Goto(r, phase)
      PROVE  RunsTyped'
  BY <1>0, <1>1 DEF RunsTyped, Goto, Run
<1>2. ASSUME NEW r \in Scans, RunStep(r)
      PROVE  RunsTyped'
  <2>1. CASE Scan(r)
    <3>1. PICK o \in Outcomes :
            run' = [run EXCEPT ![r] = [phase |-> "scanned", found |-> o.found,
                                       mapped |-> o.mapped, sawCatalog |-> FALSE]]
      BY <2>1 DEF Scan
    <3> QED BY <1>0, <3>1, OutcomeTypes DEF RunsTyped, Run, Phases
  <2>2. CASE ReadCatalog(r)
    <3>1. run' = [run EXCEPT ![r] = [@ EXCEPT !.phase = "scoring", !.sawCatalog = catalog]]
      BY <1>0, <2>2 DEF ReadCatalog, RunsTyped, Run
    <3>2. "scoring" \in Phases /\ catalog \in BOOLEAN
      BY <1>0 DEF Phases, TablesTyped
    <3> QED BY <1>0, <3>1, <3>2 DEF RunsTyped, Run
  <2> USE DEF Phases, Report
  <2>3. CASE ScanFails(r) \/ Save(r) \/ ReportSave(r) \/ ScoreAndGenerate(r)
    BY <1>1, <2>3 DEF ScanFails, Save, ReportSave, ScoreAndGenerate
  <2>4. CASE ScoreFails(r) \/ ReportScores(r) \/ Evaluate(r) \/ ReportEvaluations(r)
    BY <1>1, <2>4 DEF ScoreFails, ReportScores, Evaluate, ReportEvaluations
  <2>5. CASE Complete(r) \/ Attribute(r) \/ Stop(r)
    BY <1>1, <2>5 DEF Complete, Attribute, Stop
  <2> QED BY <1>2, <2>1, <2>2, <2>3, <2>4, <2>5 DEF RunStep
<1>3. CASE UNCHANGED run
  BY <1>0, <1>3 DEF RunsTyped
<1> QED BY <1>2, <1>3 DEF Next, vars

\* A session that does not move stays what it is, as nothing that it is
\* about is forgotten.
LEMMA SessionsStay ==
  ASSUME LifecycleInv, [Next]_vars, NEW m \in People, op'[m] = op[m]
  PROVE  SessionGrounded(m)'
<1>1. /\ scans \subseteq scans' /\ scores \subseteq scores'
      /\ \A s \in scans : Findings(s)' = Findings(s)
  BY NothingIsForgotten
<1> QED BY <1>1 DEF LifecycleInv, SessionsTyped, SessionGrounded, SessionGrounded

\* A manager moves to a state that is typed and is about what is there.
LEMMA SessionMoves ==
  ASSUME LifecycleInv, [Next]_vars, NEW m \in People, NEW next \in Op,
         Become(m, next),
         next.step \in {"review_chosen", "review_read"} =>
              /\ next.scan \in scans
              /\ next.finding \in Findings(next.scan)
              /\ Valid(next.decision),
         next.step \in {"override_chosen", "override_flushed"} =>
              next.original \in scores,
         next.step = "check_started" => next.scan \in scans
  PROVE  SessionsTyped'
<1>1. op \in [People -> Op]
  BY DEF LifecycleInv, SessionsTyped, SessionGrounded
<1>2. op'[m] = next /\ op' \in [People -> Op] /\ \A n \in People \ {m} : op'[n] = op[n]
  BY <1>1 DEF Become
<1>3. /\ scans \subseteq scans' /\ scores \subseteq scores'
      /\ \A s \in scans : Findings(s)' = Findings(s)
  BY NothingIsForgotten
<1>4. SessionGrounded(m)'
  BY <1>2, <1>3 DEF SessionGrounded
<1> QED BY <1>2, <1>4, SessionsStay DEF SessionsTyped

LEMMA IdleIsTyped == Idle \in Op /\ Idle.step = "idle"
BY DEF Op, Idle

LEMMA SessionsTypedStep ==
  ASSUME LifecycleInv, [Next]_vars
  PROVE  SessionsTyped'
<1>0. TablesTyped /\ SessionsTyped /\ ScoresOrdered /\ OverridesOrdered
  BY DEF LifecycleInv
<1>1. CASE UNCHANGED op
  BY <1>0, <1>1, SessionsStay DEF SessionsTyped
<1>2. ASSUME NEW m \in People, Become(m, Idle)
      PROVE  SessionsTyped'
  BY <1>2, SessionMoves, IdleIsTyped
<1>3. ASSUME NEW m \in Managers, ManagerStep(m)
      PROVE  SessionsTyped'
  <2>0. m \in People
    BY DEF People
  <2>1. CASE ChooseReview(m)
    <3>1. PICK s \in scans : \E f \in Pending(s), decision \in Decisions :
            /\ Valid(decision)
            /\ Become(m, [step |-> "review_chosen", scan |-> s, finding |-> f,
                          decision |-> decision])
      BY <2>1 DEF ChooseReview
    <3>a. PICK f \in Pending(s), decision \in Decisions :
            /\ Valid(decision)
            /\ Become(m, [step |-> "review_chosen", scan |-> s, finding |-> f,
                          decision |-> decision])
      BY <3>1
    <3> DEFINE next == [step |-> "review_chosen", scan |-> s, finding |-> f,
                        decision |-> decision]
    <3>2. s \in Scans /\ f \in Findings(s) /\ f \in ScanFindings
      BY <1>0, ReviewsHaveFindings DEF TablesTyped, Pending
    <3>3. next \in Op
      BY <3>2 DEF Op, Reviewing
    <3> QED BY <2>0, <3>a, <3>2, <3>3, SessionMoves
  <2>2. CASE ReadFinding(m)
    <3> DEFINE next == [step |-> "review_read", scan |-> op[m].scan,
                finding |-> op[m].finding, decision |-> op[m].decision,
                read |-> findings[op[m].scan][op[m].finding]]
    <3>1. /\ op[m].scan \in scans /\ op[m].finding \in Findings(op[m].scan)
          /\ op[m].scan \in Scans /\ op[m].finding \in ScanFindings
          /\ op[m].decision \in Decisions /\ Valid(op[m].decision)
      BY <1>0, <2>0, <2>2, SessionParts DEF ReadFinding, Step, SessionsTyped, SessionGrounded
    <3>2. findings[op[m].scan][op[m].finding] \in Review
      BY <1>0, <3>1, ReviewsHaveFindings
    <3>3. next \in Op
      BY <3>1, <3>2 DEF Op, Reviewing
    <3>4. Become(m, next)
      BY <2>2 DEF ReadFinding
    <3> QED BY <2>0, <3>1, <3>3, <3>4, SessionMoves
  <2>3. CASE ChooseOverride(m)
    <3>1. PICK s \in scans : \E d \in ScoredDomains(s), category \in Verdicts :
            Become(m, [step |-> "override_chosen", original |-> EffectiveScore(s, d),
                       category |-> category])
      BY <2>3 DEF ChooseOverride
    <3>a. PICK d \in ScoredDomains(s), category \in Verdicts :
            Become(m, [step |-> "override_chosen", original |-> EffectiveScore(s, d),
                       category |-> category])
      BY <3>1
    <3> DEFINE next == [step |-> "override_chosen", original |-> EffectiveScore(s, d),
                        category |-> category]
    <3>2. s \in Scans
      BY <1>0 DEF TablesTyped
    <3>3. EffectiveScore(s, d) \in scores /\ EffectiveScore(s, d) \in ScoreRow
      BY <1>0, <3>2, ScoreInForce DEF ScoresOf, TablesTyped
    <3>4. next \in Op
      BY <3>3 DEF Op, Overriding
    <3> QED BY <2>0, <3>a, <3>3, <3>4, SessionMoves
  <2>4. CASE FlushOverride(m)
    <3> DEFINE row == [op[m].original EXCEPT
                         !.category = op[m].category, !.at = clock,
                         !.overrideOf = op[m].original.at]
               next == [step |-> "override_flushed", original |-> op[m].original,
                        row |-> row]
    <3>1. op[m].original \in scores /\ op[m].original \in ScoreRow
          /\ op[m].category \in Categories
      BY <1>0, <2>0, <2>4, SessionParts, GovernanceAssumption
         DEF FlushOverride, Step, SessionsTyped, SessionGrounded
    <3>2. row \in ScoreRow
      BY <1>0, <3>1 DEF ScoreRow, TablesTyped
    <3>3. next \in Op
      BY <3>1, <3>2 DEF Op, Overriding
    <3>4. Become(m, next)
      BY <2>4 DEF FlushOverride
    <3> QED BY <2>0, <3>1, <3>3, <3>4, SessionMoves
  <2>5. CASE CommitReview(m) \/ CommitOverride(m) \/ RollBack(m)
    BY <1>2, <2>0, <2>5 DEF CommitReview, CommitOverride, RollBack
  <2> QED BY <1>3, <2>1, <2>2, <2>3, <2>4, <2>5 DEF ManagerStep
<1>4. ASSUME NEW v \in Viewers, ViewerStep(v)
      PROVE  SessionsTyped'
  <2>0. v \in People
    BY DEF People
  <2>1. CASE CheckScores(v)
    <3>1. PICK s \in scans :
            Become(v, [step |-> "check_started", scan |-> s,
                       read |-> LatestCategories(s), trail |-> Len(audit)])
      BY <2>1 DEF CheckScores
    <3> DEFINE next == [step |-> "check_started", scan |-> s,
                        read |-> LatestCategories(s), trail |-> Len(audit)]
    <3>2. s \in Scans /\ Len(audit) \in Nat
      BY <1>0, NothingIsForgotten DEF TablesTyped
    <3>3. \A d \in ScoredDomains(s) : LatestScore(s, d).category \in Categories
      BY <1>0, <3>2, ScoreInForce DEF ScoresOf, TablesTyped, ScoreRow
    <3>4. LatestCategories(s) \in [ScoredDomains(s) -> Categories]
      BY <3>3 DEF LatestCategories
    <3>5. ScoredDomains(s) \in SUBSET Domains
      BY DEF ScoredDomains
    <3>6. LatestCategories(s) \in UNION {[ds -> Categories] : ds \in SUBSET Domains}
      BY <3>4, <3>5
    <3>7. next \in Op
      BY <3>2, <3>6 DEF Op, Checking
    <3> QED BY <2>0, <3>1, <3>7, SessionMoves
  <2>2. CASE CheckFindings(v)
    <3> DEFINE next == [step |-> "check_answered",
                        can |-> CanFinalize(op[v].scan, op[v].read)]
    <3>1. next \in Op
      BY DEF Op, Checking, CanFinalize
    <3> QED BY <2>0, <2>2, <3>1, SessionMoves DEF CheckFindings
  <2>3. CASE Leave(v)
    BY <1>2, <2>0, <2>3 DEF Leave
  <2> QED BY <1>4, <2>1, <2>2, <2>3 DEF ViewerStep
<1> QED BY <1>1, <1>3, <1>4 DEF Next, vars

LEMMA PageTurns ==
  ASSUME PagesTyped, NEW p \in Askers, NEW next, Turn(p, next)
  PROVE  /\ ask' \in [Askers -> {ask'[q] : q \in Askers}]
         /\ ask'[p] = next
         /\ \A q \in Askers \ {p} : ask'[q] = ask[q]
<1>1. ask' = [q \in Askers |-> IF q = p THEN next ELSE ask[q]]
  BY DEF Turn, PagesTyped
<1> QED BY <1>1

\* A context is made of rows that the tables have.
LEMMA KeptIsAvailable ==
  ASSUME NEW available, NEW limit, NEW kept \in Kept(available, limit)
  PROVE  kept \subseteq available
BY DEF Kept

LEMMA PagesTypedStep ==
  ASSUME LifecycleInv, [Next]_vars
  PROVE  PagesTyped'
<1>0. PagesTyped /\ TablesTyped
  BY DEF LifecycleInv
<1>01. scans \subseteq scans' /\ scores \subseteq scores'
  BY NothingIsForgotten
<1>02. ASSUME NEW p \in Askers, ask'[p] = ask[p]
       PROVE  PageGrounded(p)'
  BY <1>0, <1>01, <1>02 DEF PagesTyped, PageGrounded, RequestTyped, ContextTyped
<1>1. CASE UNCHANGED ask
  BY <1>0, <1>02, <1>1 DEF PagesTyped
<1>2. ASSUME NEW p \in Askers, NEW next, Turn(p, next),
             next.step \in {"waiting", "score_read", "asked", "shown"},
             next.step # "waiting" => RequestTyped(next.request),
             next.step = "score_read" =>
               /\ next.score \in scores
               /\ next.request.action = "summarize_domain",
             next.step \in {"asked", "shown"} => ContextTyped(next.context)
      PROVE  PagesTyped'
  <2>1. /\ ask' \in [Askers -> {ask'[q] : q \in Askers}]
        /\ ask'[p] = next
        /\ \A q \in Askers \ {p} : ask'[q] = ask[q]
    BY <1>0, <1>2, PageTurns
  <2>2. PageGrounded(p)'
    BY <1>01, <1>2, <2>1 DEF PageGrounded, RequestTyped, ContextTyped
  <2> QED BY <1>02, <2>1, <2>2 DEF PagesTyped
<1>3. ASSUME NEW p \in Askers, NEW request, NEW context, RequestTyped(request),
             ContextTyped(context), Turn(p, Asked(request, context))
      PROVE  PagesTyped'
  BY <1>2, <1>3 DEF Asked
<1>4. ASSUME NEW p \in Askers, AskerStep(p)
      PROVE  PagesTyped'
  <2>1. CASE ExplainFinding(p)
    <3>1. PICK s \in scans, setting \in AgentSettings : \E f \in Findings(s) :
            Turn(p, Asked(Request(s, setting, "explain_finding", f),
                          Context({}, {f}, FALSE)))
      BY <2>1 DEF ExplainFinding
    <3>2. PICK f \in Findings(s) :
            Turn(p, Asked(Request(s, setting, "explain_finding", f),
                          Context({}, {f}, FALSE)))
      BY <3>1
    <3>3. f \in ScanFindings
      BY <1>0, ReviewsHaveFindings DEF TablesTyped
    <3>4. RequestTyped(Request(s, setting, "explain_finding", f))
      BY DEF RequestTyped, Request
    <3>5. ContextTyped(Context({}, {f}, FALSE))
      BY <3>3 DEF ContextTyped, Context
    <3> QED BY <1>3, <3>2, <3>4, <3>5
  <2>2. CASE SummarizeDomain(p)
    <3>1. PICK s \in scans, setting \in AgentSettings, d \in Domains :
            \E row \in ScoresOf(s, d) :
              Turn(p, [step |-> "score_read", score |-> row,
                       request |-> Request(s, setting, "summarize_domain", d)])
      BY <2>2 DEF SummarizeDomain
    <3>2. PICK row \in ScoresOf(s, d) :
            Turn(p, [step |-> "score_read", score |-> row,
                     request |-> Request(s, setting, "summarize_domain", d)])
      BY <3>1
    <3> DEFINE next == [step |-> "score_read", score |-> row,
                        request |-> Request(s, setting, "summarize_domain", d)]
    <3>3. RequestTyped(next.request) /\ next.request.action = "summarize_domain"
      BY DEF RequestTyped, Request
    <3>4. next.score \in scores
      BY DEF ScoresOf
    <3> HIDE DEF next
    <3>5. next.step = "score_read"
      BY DEF next
    <3> QED BY <1>2, <3>2, <3>3, <3>4, <3>5 DEF next
  <2>3. CASE ReadDomainFindings(p)
    <3> DEFINE request == ask[p].request
               available == InDomain(Findings(request.scan), request.about)
               limit == request.setting.maxItems
    <3>1. /\ ask[p].score \in scores /\ RequestTyped(request)
      BY <1>0, <2>3 DEF ReadDomainFindings, AskAt, PagesTyped, PageGrounded
    <3>2. PICK kept \in Kept(available, limit) :
            Turn(p, Asked(request, Context({ask[p].score}, kept,
                                           TruncatedByCount(available, limit))))
      BY <2>3 DEF ReadDomainFindings
    <3>3. kept \subseteq ScanFindings
      BY <1>0, <3>1, KeptIsAvailable, ReviewsHaveFindings
         DEF InDomain, RequestTyped, TablesTyped
    <3>4. ContextTyped(Context({ask[p].score}, kept, TruncatedByCount(available, limit)))
      BY <3>1, <3>3 DEF ContextTyped, Context, TruncatedByCount
    <3> QED BY <1>3, <3>1, <3>2, <3>4
  <2>4. CASE AnswerQuestion(p)
    <3>1. PICK s \in scans, setting \in AgentSettings :
            \E kept \in Kept(Findings(s), setting.maxItems) :
              Turn(p, Asked(Request(s, setting, "answer_question", "a safe question"),
                            Context({}, kept,
                                    TruncatedByCount(Findings(s), setting.maxItems))))
      BY <2>4 DEF AnswerQuestion
    <3>2. PICK kept \in Kept(Findings(s), setting.maxItems) :
            Turn(p, Asked(Request(s, setting, "answer_question", "a safe question"),
                          Context({}, kept,
                                  TruncatedByCount(Findings(s), setting.maxItems))))
      BY <3>1
    <3>3. kept \subseteq ScanFindings
      BY <1>0, KeptIsAvailable, ReviewsHaveFindings DEF TablesTyped
    <3>4. RequestTyped(Request(s, setting, "answer_question", "a safe question"))
      BY DEF RequestTyped, Request
    <3>5. ContextTyped(Context({}, kept, TruncatedByCount(Findings(s), setting.maxItems)))
      BY <3>3 DEF ContextTyped, Context, TruncatedByCount
    <3> QED BY <1>3, <3>2, <3>4, <3>5
  <2>5. CASE ExecutiveSummary(p)
    <3>1. PICK s \in scans, setting \in AgentSettings :
            \E kept \in Kept({row \in scores : row.scan = s}, setting.maxItems) :
              Turn(p, Asked(Request(s, setting, "executive_summary", "every domain"),
                            Context(kept, {},
                                    TruncatedByCount({row \in scores : row.scan = s},
                                                     setting.maxItems))))
      BY <2>5 DEF ExecutiveSummary
    <3>2. PICK kept \in Kept({row \in scores : row.scan = s}, setting.maxItems) :
            Turn(p, Asked(Request(s, setting, "executive_summary", "every domain"),
                          Context(kept, {},
                                  TruncatedByCount({row \in scores : row.scan = s},
                                                   setting.maxItems))))
      BY <3>1
    <3>3. kept \subseteq scores
      BY KeptIsAvailable
    <3>4. RequestTyped(Request(s, setting, "executive_summary", "every domain"))
      BY DEF RequestTyped, Request
    <3>5. ContextTyped(Context(kept, {}, TruncatedByCount({row \in scores : row.scan = s},
                                                          setting.maxItems)))
      BY <3>3 DEF ContextTyped, Context, TruncatedByCount
    <3> QED BY <1>3, <3>2, <3>4, <3>5
  <2>6. CASE RecordAnswer(p)
    <3> DEFINE next == [step |-> "shown", request |-> ask[p].request,
                        context |-> ask[p].context,
                        response |-> Answer(ask[p].request)]
    <3>1. RequestTyped(next.request) /\ ContextTyped(next.context)
      BY <1>0, <2>6 DEF RecordAnswer, AskAt, PagesTyped, PageGrounded
    <3>2. Turn(p, next)
      BY <2>6 DEF RecordAnswer
    <3>3. next.step = "shown"
      OBVIOUS
    <3> HIDE DEF next
    <3> QED BY <1>2, <3>1, <3>2, <3>3
  <2>7. CASE AskFails(p)
    <3>1. Turn(p, Waiting) /\ Waiting.step = "waiting"
      BY <2>7 DEF AskFails, Waiting
    <3> QED BY <1>2, <3>1
  <2> QED BY <1>4, <2>1, <2>2, <2>3, <2>4, <2>5, <2>6, <2>7 DEF AskerStep
<1> QED BY <1>1, <1>4 DEF Next, vars

(***************************************************************************)
(* The tables stay as far as the run is.                                   *)
(***************************************************************************)
\* What the engine wrote for a scan stays as it is.
Untouched(r) ==
  /\ r \in scans' <=> r \in scans
  /\ Findings(r)' = Findings(r) /\ mappings'[r] = mappings[r]
  /\ EngineRows(r)' = EngineRows(r)
  /\ RowsOf(r) = {} => RowsOf(r)' = {}
  /\ evidence'[r] = evidence[r] /\ recommendations'[r] = recommendations[r]
  /\ evaluations'[r] = evaluations[r]

LEMMA UntouchedStays ==
  ASSUME NEW r, Untouched(r)
  PROVE  /\ Unsaved(r) => Unsaved(r)'
         /\ Stored(r) => Stored(r)'
         /\ HasScores(r) => HasScores(r)'
         /\ Scored(r) => Scored(r)'
         /\ Evaluated(r) => Evaluated(r)'
         /\ Counts(r)' = Counts(r)
BY DEF Untouched, Unsaved, Stored, HasScores, Scored, Evaluated, Counts

\* Only the steps of its own run touch it: a review changes no finding's
\* columns but those of the review, an override adds a row that is not of
\* the engine to those of a score that is there.
LEMMA OnlyItsRunTouches ==
  ASSUME LifecycleInv, [Next]_vars, NEW r \in Scans,
         ~Save(r), ~ScoreAndGenerate(r), ~Evaluate(r)
  PROVE  Untouched(r)
<1>0. TablesTyped
  BY DEF LifecycleInv
<1> USE DEF Untouched, Findings, EngineRows, RowsOf
<1>1. CASE UNCHANGED tables
  BY <1>1 DEF tables
<1>2. CASE \E q \in Scans : Save(q)
  BY <1>0, <1>2 DEF Save, TablesTyped
<1>3. CASE \E q \in Scans : ScoreAndGenerate(q)
  <2>1. PICK q \in Scans \ {r} : ScoreAndGenerate(q)
    BY <1>3
  <2>2. \A row \in scores' : row.scan = r => row \in scores
    BY <2>1, NewRowsTyped
  <2>3. scores \subseteq scores'
    BY <2>1 DEF ScoreAndGenerate
  <2>4. EngineRows(r)' = EngineRows(r) /\ RowsOf(r)' = RowsOf(r)
    BY <2>2, <2>3
  <2> QED BY <1>0, <2>1, <2>4 DEF ScoreAndGenerate, TablesTyped
<1>4. CASE \E q \in Scans : Evaluate(q)
  BY <1>0, <1>4 DEF Evaluate, TablesTyped
<1>5. CASE (\E q \in Scans : Complete(q)) \/ (\E e : TrailGrows(e))
  BY <1>5 DEF Complete, Report, TrailGrows
<1>6. CASE \E m \in Managers : CommitReview(m)
  <2>1. PICK m \in Managers : CommitReview(m)
    BY <1>6
  <2>2. Findings(r)' = Findings(r)
    BY <2>1, ReviewIsCommitted
  <2> QED BY <2>1, <2>2 DEF CommitReview
<1>7. CASE \E m \in Managers : FlushOverride(m)
  BY <1>7 DEF FlushOverride
<1>8. CASE \E m \in Managers : CommitOverride(m)
  <2>1. PICK m \in Managers : CommitOverride(m)
    BY <1>8
  <2> DEFINE row == op[m].row
  <2>2. /\ scores' = scores \cup {row}
        /\ UNCHANGED <<scans, mappings, findings, evidence, recommendations, evaluations>>
    BY <2>1 DEF CommitOverride
  <2>3. /\ op[m].original \in scores /\ op[m].original.scan = row.scan
        /\ row.overrideOf = op[m].original.at
    BY <2>1 DEF CommitOverride, Step, People, LifecycleInv, SessionsTyped,
                SessionGrounded, OverridesOrdered
  <2>4. row.overrideOf # NoScore
    BY <1>0, <2>3 DEF LifecycleInv, ScoresOrdered, TablesTyped, ScoreRow, NoScore
  <2> HIDE DEF row
  <2> QED BY <2>2, <2>3, <2>4
<1> QED BY <1>1, <1>2, <1>3, <1>4, <1>5, <1>6, <1>7, <1>8, TableCases

LEMMA StoredOnSave ==
  ASSUME LifecycleInv, [Next]_vars, NEW r \in Scans, Save(r)
  PROVE  ProgressOf(r)'
<1>0. TablesTyped /\ RunsTyped /\ RowsOfScans
  BY DEF LifecycleInv
<1>1. Unsaved(r)
  BY DEF LifecycleInv, Progress, ProgressOf, Save, At
<1>2. RowsOf(r)' = {} /\ evaluations'[r] = {} /\ r \in scans'
  BY <1>0, <1>1 DEF Unsaved, RowsOf, RowsOfScans, Save
<1>3. Findings(r)' = run[r].found
  BY <1>0 DEF Save, Findings, TablesTyped
<1>4. run'[r].phase = "saved" /\ run'[r].found = run[r].found
  BY <1>0 DEF Save, Goto, RunsTyped, Run
<1> QED BY <1>2, <1>3, <1>4 DEF ProgressOf, Stored

LEMMA ScoredOnScore ==
  ASSUME LifecycleInv, [Next]_vars, NEW r \in Scans, ScoreAndGenerate(r)
  PROVE  ProgressOf(r)'
<1>0. TablesTyped /\ RunsTyped /\ ProgressOf(r)
  BY DEF LifecycleInv, Progress
<1>1. Stored(r)
  BY <1>0 DEF ProgressOf, ScoreAndGenerate, At
<1>2. Findings(r)' = Findings(r) /\ mappings' = mappings /\ evaluations' = evaluations
        /\ scans' = scans
  BY DEF ScoreAndGenerate, Findings
<1>3. evidence'[r] = WithControl(Findings(r)) /\ recommendations'[r] = WithControl(Findings(r))
  BY <1>0 DEF ScoreAndGenerate, TablesTyped
<1>4. \A row \in EngineRows(r)' :
        /\ row \in ScoreRow /\ row.at = clock /\ row.overrideOf = NoScore /\ row.scan = r
        /\ row.category = ScoreAllDomains(Findings(r), mappings[r])[row.domain]
  BY <1>1, NewRowsTyped DEF EngineRows, Stored, RowsOf
<1>5. \A d \in Domains : \E row \in EngineRows(r)' : row.domain = d
  <2>1. ASSUME NEW d \in Domains
        PROVE  \E row \in EngineRows(r)' : row.domain = d
    <3> DEFINE new == [scan |-> r, domain |-> d,
                       category |-> ScoreAllDomains(ScoredFrom(r), mappings[r])[d],
                       at |-> clock, overrideOf |-> NoScore]
    <3>1. new \in scores'
      BY DEF ScoreAndGenerate
    <3>2. new.scan = r /\ new.overrideOf = NoScore /\ new.domain = d
      OBVIOUS
    <3> HIDE DEF new
    <3> QED BY <3>1, <3>2 DEF EngineRows
  <2> QED BY <2>1
<1>6. \A a, b \in EngineRows(r)' : a.domain = b.domain => a = b
  BY <1>4 DEF ScoreRow
<1>7. HasScores(r)'
  BY <1>1, <1>2, <1>3, <1>4, <1>5, <1>6 DEF HasScores, Stored
<1>8. Scored(r)'
  BY <1>1, <1>2, <1>7 DEF Scored, Stored
<1>9. run'[r].phase = "scored" /\ run'[r].found = run[r].found
  BY <1>0 DEF ScoreAndGenerate, Goto, RunsTyped, Run
<1> QED BY <1>0, <1>1, <1>2, <1>8, <1>9 DEF ProgressOf, Stored

LEMMA EvaluatedOnEvaluate ==
  ASSUME LifecycleInv, [Next]_vars, NEW r \in Scans, Evaluate(r)
  PROVE  ProgressOf(r)'
<1>0. TablesTyped /\ RunsTyped /\ ProgressOf(r)
  BY DEF LifecycleInv, Progress
<1>1. Scored(r)
  BY <1>0 DEF ProgressOf, Evaluate, At
<1>2. HasScores(r)'
  BY <1>1 DEF HasScores, Scored, Evaluate, Findings, EngineRows
<1>3. evaluations'[r] = EvaluateAllDomains(Findings(r), mappings[r])
  BY <1>0 DEF Evaluate, TablesTyped, ScoredFrom
<1>4. Evaluated(r)' /\ Findings(r)' = Findings(r)
  BY <1>2, <1>3 DEF Evaluated, Evaluate, Findings
<1>5. run'[r].phase = "evaluated" /\ run'[r].found = run[r].found
  BY <1>0 DEF Evaluate, Goto, RunsTyped, Run
<1> QED BY <1>0, <1>1, <1>4, <1>5 DEF ProgressOf, Scored, HasScores

\* The steps of a run that change none of the tables but the trail.
LEMMA PhaseMoves ==
  ASSUME LifecycleInv, NEW r \in Scans, RunStep(r),
         ~Save(r), ~ScoreAndGenerate(r), ~Evaluate(r)
  PROVE  /\ run[r].phase \in {"idle", "scanned"} =>
              run'[r].phase \in {"scanned", "failed", "stopped"}
         /\ run[r].phase \in {"saved", "save_reported", "scoring"} =>
              run'[r].phase \in {"save_reported", "scoring", "failed", "stopped"}
         /\ run[r].phase \in {"scored", "scores_reported"} =>
              run'[r].phase \in {"scores_reported", "stopped"}
         /\ run[r].phase \in {"evaluated", "evaluations_reported"} =>
              run'[r].phase \in {"evaluations_reported", "completed", "stopped"}
         /\ run[r].phase \in {"completed", "done"} =>
              run'[r].phase \in {"done", "stopped"}
         /\ run[r].phase \notin {"failed", "stopped"}
         /\ run[r].phase # "idle" => run'[r].found = run[r].found
<1>0. run \in [Scans -> Run] /\ run[r].phase \in Phases
  BY DEF LifecycleInv, RunsTyped, Run
<1>1. CASE Scan(r) \/ ScanFails(r)
  BY <1>0, <1>1 DEF Scan, ScanFails, Goto, At, Run
<1>2. CASE ReadCatalog(r)
  BY <1>0, <1>2 DEF ReadCatalog, At, Run
<1>3. CASE ReportSave(r) \/ ReportScores(r) \/ ReportEvaluations(r) \/ Complete(r)
  BY <1>0, <1>3 DEF ReportSave, ReportScores, ReportEvaluations, Complete, Report,
                    Goto, At, Run
<1>4. CASE ScoreFails(r) \/ Attribute(r)
  BY <1>0, <1>4 DEF ScoreFails, Attribute, Goto, At, Run
<1>5. CASE Stop(r)
  BY <1>0, <1>5 DEF Stop, Goto, Ended, Phases, Run
<1> QED BY <1>1, <1>2, <1>3, <1>4, <1>5 DEF RunStep

\* A run moves by its own steps.
LEMMA RunOfOther ==
  ASSUME LifecycleInv, [Next]_vars, NEW r \in Scans
  PROVE  run'[r] = run[r] \/ RunStep(r)
<1>1. ASSUME NEW q \in Scans \ {r}, RunStep(q)
      PROVE  run'[r] = run[r]
  BY <1>1 DEF RunStep, Scan, ScanFails, Save, ReportSave, ReadCatalog,
       ScoreAndGenerate, ScoreFails, ReportScores, Evaluate, ReportEvaluations,
       Complete, Attribute, Stop, Report, Goto, LifecycleInv, RunsTyped
<1> QED BY <1>1 DEF Next, vars

LEMMA ProgressStep ==
  ASSUME LifecycleInv, [Next]_vars
  PROVE  Progress'
<1>1. ASSUME NEW r \in Scans
      PROVE  ProgressOf(r)'
  <2>0. ProgressOf(r) /\ RunsTyped
    BY DEF LifecycleInv, Progress
  <2>1. CASE Save(r) \/ ScoreAndGenerate(r) \/ Evaluate(r)
    BY <2>1, StoredOnSave, ScoredOnScore, EvaluatedOnEvaluate
  <2>2. CASE ~Save(r) /\ ~ScoreAndGenerate(r) /\ ~Evaluate(r)
    <3>1. Untouched(r)
      BY <2>2, OnlyItsRunTouches
    <3>2. /\ Unsaved(r) => Unsaved(r)'
          /\ Stored(r) => Stored(r)'
          /\ Scored(r) => Scored(r)'
          /\ Evaluated(r) => Evaluated(r)'
          /\ r \in scans' <=> r \in scans
          /\ Findings(r)' = Findings(r)
      BY <3>1, UntouchedStays DEF Untouched
    <3>3. CASE run'[r] = run[r]
      BY <2>0, <3>2, <3>3 DEF ProgressOf
    <3>4. CASE RunStep(r)
      <4>1. run[r].phase \in Phases
        BY <2>0 DEF RunsTyped, Run
      <4>2. r \in scans => run[r].phase # "idle"
        BY StoredPhases
      <4> QED BY <2>0, <2>2, <3>2, <3>4, <4>1, <4>2, PhaseMoves DEF ProgressOf, Phases
    <3>5. run'[r] = run[r] \/ RunStep(r)
      BY RunOfOther
    <3> QED BY <3>3, <3>4, <3>5
  <2> QED BY <2>1, <2>2
<1> QED BY <1>1 DEF Progress

(***************************************************************************)
(* What is completed was whole.                                            *)
(***************************************************************************)
\* Which steps the kinds of rows of the trail that properties tell of are of.
LEMMA TrailCases ==
  ASSUME LifecycleInv, [Next]_vars, NEW s
  PROVE  /\ \/ s \in Scans /\ Complete(s)
            \/ Trail("ASSESSMENT_COMPLETED", s)' = Trail("ASSESSMENT_COMPLETED", s)
         /\ \/ \E m \in Managers : CommitReview(m) /\ op[m].scan = s
            \/ Trail("FINDING_REVIEWED", s)' = Trail("FINDING_REVIEWED", s)
         /\ \/ \E m \in Managers : CommitOverride(m) /\ op[m].row.scan = s
            \/ Trail("SCORE_OVERRIDDEN", s)' = Trail("SCORE_OVERRIDDEN", s)
<1>0. TablesTyped
  BY DEF LifecycleInv
<1>1. ASSUME NEW e, Record(e), NEW type, e.type # type \/ e.scan # s
      PROVE  Trail(type, s)' = Trail(type, s)
  BY <1>0, <1>1, TrailOfKind
<1>2. CASE UNCHANGED audit
  BY <1>2 DEF Trail
<1>3. CASE \E r \in Scans : Complete(r)
  <2>1. PICK r \in Scans : Complete(r)
    BY <1>3
  <2>2. PICK e : Record(e) /\ e.type = "ASSESSMENT_COMPLETED" /\ e.scan = r
    BY <2>1 DEF Complete, Report, SystemEvent
  <2> QED BY <1>1, <2>1, <2>2
<1>4. CASE \E e : TrailGrows(e) /\ e.type \in OtherTypes
  <2>1. PICK e : Record(e) /\ e.type \in OtherTypes
    BY <1>4 DEF TrailGrows
  <2> QED BY <1>1, <2>1 DEF OtherTypes
<1>5. CASE \E m \in Managers : CommitReview(m)
  <2>1. PICK m \in Managers : CommitReview(m)
    BY <1>5
  <2>2. /\ Record(ReviewEvent(m)) /\ ReviewEvent(m).type = "FINDING_REVIEWED"
        /\ ReviewEvent(m).scan = op[m].scan
    BY <2>1 DEF CommitReview, ReviewEvent
  <2> QED BY <1>1, <2>1, <2>2
<1>6. CASE \E m \in Managers : CommitOverride(m)
  <2>1. PICK m \in Managers : CommitOverride(m)
    BY <1>6
  <2>2. /\ Record(OverrideEvent(m)) /\ OverrideEvent(m).type = "SCORE_OVERRIDDEN"
        /\ OverrideEvent(m).scan = op[m].row.scan
    BY <2>1 DEF CommitOverride, OverrideEvent
  <2> QED BY <1>1, <2>1, <2>2
<1>7. CASE \/ \E r \in Scans : Save(r) \/ ScoreAndGenerate(r) \/ Evaluate(r)
           \/ \E m \in Managers : FlushOverride(m)
           \/ UNCHANGED tables
  BY <1>2, <1>7 DEF Save, ScoreAndGenerate, Evaluate, FlushOverride, tables
<1> QED BY <1>3, <1>4, <1>5, <1>6, <1>7, TableCases

LEMMA OneRowForEachDomain ==
  ASSUME TablesTyped, NEW r \in Scans, HasScores(r)
  PROVE  Cardinality(EngineRows(r)) = Cardinality(Domains)
<1> DEFINE domainOf == [row \in EngineRows(r) |-> row.domain]
<1>1. \A row \in EngineRows(r) : row.domain \in Domains
  BY DEF EngineRows, TablesTyped, ScoreRow
<1>2. domainOf \in Injection(EngineRows(r), Domains)
  BY <1>1 DEF HasScores, Injection, IsInjective
<1>3. domainOf \in Surjection(EngineRows(r), Domains)
  BY <1>1 DEF HasScores, Surjection
<1> QED BY <1>2, <1>3, DomainsAreFinite, FS_Injection

LEMMA CompletionStep ==
  ASSUME LifecycleInv, [Next]_vars
  PROVE  Completion'
<1>1. ASSUME NEW r \in Scans
      PROVE  CompletionOf(r)'
  <2>0. TablesTyped /\ RunsTyped /\ RowsOfScans /\ ProgressOf(r) /\ CompletionOf(r)
    BY DEF LifecycleInv, Progress, Completion
  <2>1. CASE Complete(r)
    <3> DEFINE counts == [findings |-> Cardinality(Findings(r)),
                          scores |-> Cardinality(Domains),
                          evaluations |-> Cardinality(evaluations[r]),
                          recommendations |-> Cardinality(run[r].found)]
    <3>1. /\ Evaluated(r) /\ Findings(r) = run[r].found
          /\ run[r].phase = "evaluations_reported"
      BY <2>0, <2>1 DEF Complete, Report, At, ProgressOf, Evaluated, HasScores
    <3>2. Trail("ASSESSMENT_COMPLETED", r) = {}
      BY <2>0, <3>1 DEF CompletionOf
    <3>3. Record(SystemEvent("ASSESSMENT_COMPLETED", r, counts))
      BY <2>1 DEF Complete, Report
    <3>4. /\ Trail("ASSESSMENT_COMPLETED", r)' = {Len(audit) + 1}
          /\ audit'[Len(audit) + 1].about = counts
      <4> DEFINE e == SystemEvent("ASSESSMENT_COMPLETED", r, counts)
      <4>1. e.type = "ASSESSMENT_COMPLETED" /\ e.scan = r /\ e.about = counts
        BY DEF SystemEvent
      <4>2. Trail("ASSESSMENT_COMPLETED", r)'
              = Trail("ASSESSMENT_COMPLETED", r) \cup {Len(audit) + 1}
        BY <2>0, <3>3, <4>1, TrailOfKind
      <4>3. audit'[Len(audit) + 1] = e
        BY <2>0, <3>3, TrailIsAppended
      <4> HIDE DEF e, counts
      <4> QED BY <3>2, <4>1, <4>2, <4>3
    <3>5. Cardinality(EngineRows(r)) = Cardinality(Domains)
      BY <2>0, <3>1, OneRowForEachDomain DEF Evaluated
    <3>6. IsFiniteSet(Findings(r)) /\ recommendations[r] = WithControl(Findings(r))
      BY <2>0, <3>1 DEF RowsOfScans, Evaluated, HasScores
    <3>7. Cardinality(recommendations[r]) = Cardinality(run[r].found)
      BY <3>1, <3>6, WithControlCount
    <3>8. counts = Counts(r)
      BY <3>5, <3>7 DEF Counts
    <3>9. ~Save(r) /\ ~ScoreAndGenerate(r) /\ ~Evaluate(r)
      BY <3>1 DEF Save, ScoreAndGenerate, Evaluate, At
    <3>10. Evaluated(r)' /\ Counts(r)' = Counts(r)
      BY <3>1, <3>9, OnlyItsRunTouches, UntouchedStays
    <3>11. run'[r].phase = "completed"
      BY <2>0, <2>1 DEF Complete, Report, Goto, RunsTyped, Run
    <3> HIDE DEF counts
    <3> QED BY <3>4, <3>8, <3>10, <3>11 DEF CompletionOf
  <2>2. CASE ~Complete(r)
    <3>1. Trail("ASSESSMENT_COMPLETED", r)' = Trail("ASSESSMENT_COMPLETED", r)
      BY <2>2, TrailCases
    <3>2. ASSUME NEW i \in Trail("ASSESSMENT_COMPLETED", r)
          PROVE  /\ run'[r].phase \in {"completed", "done", "stopped"}
                 /\ Evaluated(r)'
                 /\ audit'[i].about = Counts(r)'
      <4>1. /\ run[r].phase \in {"completed", "done", "stopped"}
            /\ Evaluated(r) /\ audit[i].about = Counts(r)
        BY <2>0, <3>2 DEF CompletionOf
      <4>2. ~Save(r) /\ ~ScoreAndGenerate(r) /\ ~Evaluate(r)
        BY <4>1 DEF Save, ScoreAndGenerate, Evaluate, At
      <4>3. Evaluated(r)' /\ Counts(r)' = Counts(r)
        BY <4>1, <4>2, OnlyItsRunTouches, UntouchedStays
      <4>4. audit'[i] = audit[i]
        BY <3>2, NothingIsForgotten DEF Trail
      <4>5. run'[r] = run[r] \/ RunStep(r)
        BY RunOfOther
      <4>6. run'[r].phase \in {"completed", "done", "stopped"}
        BY <4>1, <4>2, <4>5, PhaseMoves
      <4> QED BY <4>1, <4>3, <4>4, <4>6
    <3> QED BY <3>1, <3>2 DEF CompletionOf
  <2> QED BY <2>1, <2>2
<1> QED BY <1>1 DEF Completion

(***************************************************************************)
(* The rows of a score stay in order.                                      *)
(***************************************************************************)
LEMMA OverrideIsCommitted ==
  ASSUME LifecycleInv, NEW m \in Managers, CommitOverride(m)
  PROVE  /\ scores' = scores \cup {op[m].row} /\ op[m].row \notin scores
         /\ op[m].original \in scores
         /\ op[m].row \in ScoreRow /\ op[m].original \in ScoreRow
         /\ op[m].row.scan = op[m].original.scan /\ op[m].row.scan \in scans
         /\ op[m].row.domain = op[m].original.domain
         /\ op[m].row.overrideOf = op[m].original.at
         /\ op[m].row.overrideOf # NoScore
         /\ op[m].row.overrideOf < op[m].row.at /\ op[m].row.at < clock
         /\ \A row \in scores : row.at # op[m].row.at
         /\ clock \in Nat /\ clock' = clock
<1>1. m \in People /\ Step(m, "override_flushed") /\ op[m].step = "override_flushed"
  BY DEF People, CommitOverride, Step
<1>2. /\ op[m].original \in scores /\ op[m].row \in ScoreRow
      /\ op[m].original \in ScoreRow
  BY <1>1, SessionParts DEF LifecycleInv, SessionsTyped, SessionGrounded
<1>3. /\ op[m].row.scan = op[m].original.scan
      /\ op[m].row.domain = op[m].original.domain
      /\ op[m].row.overrideOf = op[m].original.at
      /\ op[m].original.at < op[m].row.at
      /\ op[m].row.at < clock
      /\ \A row \in scores : row.at # op[m].row.at
  BY <1>1 DEF LifecycleInv, OverridesOrdered
<1>4. op[m].original.scan \in scans
  BY <1>2 DEF LifecycleInv, RowsOfScans
<1>5. op[m].original.at # NoScore
  BY <1>2 DEF LifecycleInv, ScoresOrdered, ScoreRow, NoScore
<1> QED BY <1>2, <1>3, <1>4, <1>5 DEF CommitOverride, LifecycleInv, TablesTyped

\* The engine scores what has no score.
LEMMA EngineScoresFirst ==
  ASSUME LifecycleInv, NEW r \in Scans, ScoreAndGenerate(r)
  PROVE  RowsOf(r) = {}
BY DEF LifecycleInv, Progress, ProgressOf, ScoreAndGenerate, At, Stored

LEMMA ScoresOrderedStep ==
  ASSUME LifecycleInv, [Next]_vars
  PROVE  ScoresOrdered'
<1>0. TablesTyped /\ ScoresOrdered
  BY DEF LifecycleInv
<1>00. /\ clock' \in Nat /\ clock \in Nat /\ clock <= clock'
       /\ \A row \in scores : row.at \in Nat /\ row.overrideOf \in Nat
                              /\ row.scan \in Scans /\ row.domain \in Domains
  BY <1>0, NothingIsForgotten DEF TablesTyped, ScoreRow
<1>1. CASE scores' = scores
  <2>1. \A row \in scores : row.overrideOf < row.at /\ row.at < clock'
    BY <1>0, <1>00 DEF ScoresOrdered
  <2> QED BY <1>0, <1>1, <2>1 DEF ScoresOrdered, ScoredDomains, ScoresOf
<1>2. CASE \E r \in Scans : ScoreAndGenerate(r)
  <2>1. PICK r \in Scans : ScoreAndGenerate(r)
    BY <1>2
  <2>2. /\ \A row \in scores : row.scan # r
        /\ scores \subseteq scores' /\ clock' = clock + 1
        /\ \A row \in scores' : row.scan # r => row \in scores
        /\ \A row \in scores' : row.scan = r =>
             /\ row \in ScoreRow /\ row.at = clock /\ row.overrideOf = NoScore
             /\ row.category = ScoreAllDomains(Findings(r), mappings[r])[row.domain]
    <3>1. scores \subseteq scores' /\ clock' = clock + 1
      BY <2>1 DEF ScoreAndGenerate
    <3>2. \A row \in scores : row.scan # r
      BY <2>1, EngineScoresFirst DEF RowsOf
    <3>3. \A row \in scores' \ scores :
            /\ row \in ScoreRow /\ row.scan = r /\ row.at = clock
            /\ row.overrideOf = NoScore
            /\ row.category = ScoreAllDomains(Findings(r), mappings[r])[row.domain]
      BY <2>1, NewRowsTyped
    <3> QED BY <3>1, <3>2, <3>3
  <2>3. \A row \in scores' : row.overrideOf < row.at /\ row.at < clock'
    BY SMTT(30), <1>0, <1>00, <2>2 DEF ScoresOrdered, NoScore, TablesTyped
  <2>4. ASSUME NEW a \in scores', NEW b \in scores', a.scan = b.scan,
               a.domain = b.domain, a.at = b.at
        PROVE  a = b
    <3>1. CASE a.scan = r
      <4>1. /\ a \in ScoreRow /\ b \in ScoreRow /\ a.category = b.category
            /\ a.overrideOf = b.overrideOf
        BY <2>2, <2>4, <3>1
      <4> QED BY <2>4, <4>1 DEF ScoreRow
    <3>2. CASE a.scan # r
      BY <1>0, <2>2, <2>4, <3>2 DEF ScoresOrdered
    <3> QED BY <3>1, <3>2
  <2>5. ASSUME NEW s \in Scans, NEW d \in ScoredDomains(s)'
        PROVE  \E top \in ScoresOf(s, d)' : \A row \in ScoresOf(s, d)' : row.at <= top.at
    <3>1. CASE s = r
      <4>1. PICK top \in ScoresOf(s, d)' : TRUE
        BY <2>5 DEF ScoredDomains
      <4>2. \A row \in ScoresOf(s, d)' : row.at = clock
        BY <2>2, <3>1 DEF ScoresOf
      <4> QED BY <1>00, <4>1, <4>2
    <3>2. CASE s # r
      <4>1. ScoresOf(s, d)' = ScoresOf(s, d)
        BY <2>2, <3>2 DEF ScoresOf
      <4>2. d \in ScoredDomains(s)
        BY <2>5, <4>1 DEF ScoredDomains
      <4> QED BY <1>0, <4>1, <4>2 DEF ScoresOrdered
    <3> QED BY <3>1, <3>2
  <2>6. ASSUME NEW row \in scores', row.overrideOf # NoScore
        PROVE  \E original \in ScoresOf(row.scan, row.domain)' :
                 original.at = row.overrideOf
    BY <1>0, <2>2, <2>6 DEF ScoresOrdered, ScoresOf
  <2> QED BY <2>3, <2>4, <2>5, <2>6 DEF ScoresOrdered
<1>3. CASE \E m \in Managers : CommitOverride(m)
  <2>1. PICK m \in Managers : CommitOverride(m)
    BY <1>3
  <2> DEFINE new == op[m].row
             old == op[m].original
  <2>2. /\ scores' = scores \cup {new} /\ old \in scores
        /\ new.scan = old.scan /\ new.domain = old.domain
        /\ new.overrideOf = old.at /\ new.overrideOf < new.at /\ new.at < clock'
        /\ \A row \in scores : row.at # new.at
        /\ new.at \in Nat
    BY <2>1, OverrideIsCommitted DEF ScoreRow
  <2> HIDE DEF new, old
  <2>3. \A row \in scores' : row.overrideOf < row.at /\ row.at < clock'
    BY <1>0, <1>00, <2>2 DEF ScoresOrdered
  <2>4. \A a, b \in scores' :
          a.scan = b.scan /\ a.domain = b.domain /\ a.at = b.at => a = b
    BY <1>0, <2>2 DEF ScoresOrdered
  <2>5. ASSUME NEW s \in Scans, NEW d \in ScoredDomains(s)'
        PROVE  \E top \in ScoresOf(s, d)' : \A row \in ScoresOf(s, d)' : row.at <= top.at
    <3>1. d \in ScoredDomains(s)
      BY <2>2, <2>5 DEF ScoredDomains, ScoresOf
    <3>2. PICK top \in ScoresOf(s, d) : \A row \in ScoresOf(s, d) : row.at <= top.at
      BY <1>0, <3>1 DEF ScoresOrdered
    <3>3. top \in ScoresOf(s, d)' /\ top.at \in Nat
      BY <1>00, <2>2, <3>2 DEF ScoresOf
    <3>4. \A row \in ScoresOf(s, d)' : row \in ScoresOf(s, d) \/ row = new
      BY <2>2 DEF ScoresOf
    <3>5. CASE new \in ScoresOf(s, d)' /\ new.at > top.at
      <4>1. \A row \in ScoresOf(s, d) : row.at \in Nat /\ row.at <= new.at
        BY <1>00, <2>2, <3>2, <3>3, <3>5 DEF ScoresOf
      <4> QED BY <2>2, <3>4, <3>5, <4>1
    <3>6. CASE ~(new \in ScoresOf(s, d)' /\ new.at > top.at)
      BY <2>2, <3>2, <3>3, <3>4, <3>6
    <3> QED BY <3>5, <3>6
  <2>6. \A row \in scores' : row.overrideOf # NoScore =>
          \E original \in ScoresOf(row.scan, row.domain)' :
            original.at = row.overrideOf
    BY <1>0, <2>2 DEF ScoresOrdered, ScoresOf
  <2> QED BY <2>3, <2>4, <2>5, <2>6 DEF ScoresOrdered
<1>4. \/ scores' = scores
      \/ \E r \in Scans : ScoreAndGenerate(r)
      \/ \E m \in Managers : CommitOverride(m)
  BY TableCases DEF tables, Save, Evaluate, Complete, Report, TrailGrows,
                    CommitReview, FlushOverride
<1> QED BY <1>1, <1>2, <1>3, <1>4

\* How a session comes to be where it reads or has inserted a row.
LEMMA SessionCameTo ==
  ASSUME LifecycleInv, [Next]_vars, NEW n \in People
  PROVE  /\ Step(n, "review_read")' =>
              op'[n] = op[n] \/ (n \in Managers /\ ReadFinding(n))
         /\ Step(n, "override_flushed")' =>
              op'[n] = op[n] \/ (n \in Managers /\ FlushOverride(n))
         /\ Step(n, "check_started")' =>
              op'[n] = op[n] \/ (n \in Viewers /\ CheckScores(n))
<1>1. ASSUME NEW m \in People, NEW next, Become(m, next)
      PROVE  op'[m] = next /\ (n # m => op'[n] = op[n])
  BY <1>1 DEF Become, LifecycleInv, SessionsTyped
<1>2. ASSUME NEW m \in Managers, ManagerStep(m)
      PROVE  \/ op'[n] = op[n]
             \/ n = m /\ ReadFinding(m)
             \/ n = m /\ FlushOverride(m)
             \/ n = m /\ op'[n].step \in {"idle", "review_chosen", "override_chosen"}
  <2>0. m \in People
    BY DEF People
  <2>1. CASE ChooseReview(m)
    <3>1. PICK next : Become(m, next) /\ next.step = "review_chosen"
      BY <2>1 DEF ChooseReview
    <3> QED BY <1>1, <2>0, <3>1
  <2>2. CASE ReadFinding(m)
    <3>1. PICK next : Become(m, next)
      BY <2>2 DEF ReadFinding
    <3> QED BY <1>1, <2>0, <2>2, <3>1
  <2>3. CASE ChooseOverride(m)
    <3>1. PICK next : Become(m, next) /\ next.step = "override_chosen"
      BY <2>3 DEF ChooseOverride
    <3> QED BY <1>1, <2>0, <3>1
  <2>4. CASE FlushOverride(m)
    <3>1. PICK next : Become(m, next)
      BY <2>4 DEF FlushOverride
    <3> QED BY <1>1, <2>0, <2>4, <3>1
  <2>5. CASE CommitReview(m) \/ CommitOverride(m) \/ RollBack(m)
    BY <1>1, <2>0, <2>5, IdleIsTyped DEF CommitReview, CommitOverride, RollBack
  <2> QED BY <1>2, <2>1, <2>2, <2>3, <2>4, <2>5 DEF ManagerStep
<1>3. ASSUME NEW v \in Viewers, ViewerStep(v)
      PROVE  \/ op'[n] = op[n]
             \/ n = v /\ CheckScores(v)
             \/ n = v /\ op'[n].step \in {"idle", "check_answered"}
  <2>0. v \in People
    BY DEF People
  <2>1. CASE CheckScores(v)
    <3>1. PICK next : Become(v, next)
      BY <2>1 DEF CheckScores
    <3> QED BY <1>1, <2>0, <2>1, <3>1
  <2>2. CASE CheckFindings(v)
    <3>1. PICK next : Become(v, next) /\ next.step = "check_answered"
      BY <2>2 DEF CheckFindings
    <3> QED BY <1>1, <2>0, <3>1
  <2>3. CASE Leave(v)
    BY <1>1, <2>0, <2>3, IdleIsTyped DEF Leave
  <2> QED BY <1>3, <2>1, <2>2, <2>3 DEF ViewerStep
<1>4. \/ op'[n] = op[n]
      \/ n \in Managers /\ (ReadFinding(n) \/ FlushOverride(n))
      \/ n \in Viewers /\ CheckScores(n)
      \/ op'[n].step \in {"idle", "review_chosen", "override_chosen", "check_answered"}
  BY <1>2, <1>3 DEF Next, vars
<1>5. n \in Managers /\ ReadFinding(n) => op'[n].step = "review_read"
  <2>1. ASSUME ReadFinding(n)
        PROVE  \E next : Become(n, next) /\ next.step = "review_read"
    BY <2>1 DEF ReadFinding
  <2> QED BY <1>1, <2>1
<1>6. n \in Managers /\ FlushOverride(n) => op'[n].step = "override_flushed"
  <2>1. ASSUME FlushOverride(n)
        PROVE  \E next : Become(n, next) /\ next.step = "override_flushed"
    BY <2>1 DEF FlushOverride
  <2> QED BY <1>1, <2>1
<1>7. n \in Viewers /\ CheckScores(n) => op'[n].step = "check_started"
  <2>1. ASSUME CheckScores(n)
        PROVE  \E next : Become(n, next) /\ next.step = "check_started"
    BY <2>1 DEF CheckScores
  <2> QED BY <1>1, <2>1
<1> QED BY <1>4, <1>5, <1>6, <1>7 DEF Step

\* Between its insert and its commit a row stays as it was stamped.
LEMMA OverridesOrderedStep ==
  ASSUME LifecycleInv, [Next]_vars
  PROVE  OverridesOrdered'
<1>0. TablesTyped /\ OverridesOrdered /\ SessionsTyped
  BY DEF LifecycleInv
<1>00. /\ clock' \in Nat /\ clock \in Nat /\ clock <= clock'
  BY <1>0, NothingIsForgotten DEF TablesTyped
<1>01. \A m \in People : Step(m, "override_flushed") =>
         op[m].row.at \in Nat /\ op[m].original.at \in Nat
  BY SessionParts DEF LifecycleInv, ScoreRow
\* No session has come to this point, and no row has the time of one there.
<1>1. ASSUME \A m \in People : Step(m, "override_flushed")' =>
               op'[m] = op[m] /\ Step(m, "override_flushed"),
             \A m \in People : Step(m, "override_flushed")' =>
               \A row \in scores' \ scores : row.at # op[m].row.at
      PROVE  OverridesOrdered'
  <2>1. \A m \in People : Step(m, "override_flushed")' =>
          /\ op'[m] = op[m] /\ Step(m, "override_flushed")
          /\ op[m].row.at < clock'
          /\ \A row \in scores' : row.at # op[m].row.at
    BY <1>0, <1>00, <1>01, <1>1 DEF OverridesOrdered
  <2> QED BY <1>0, <2>1 DEF OverridesOrdered
<1>2. CASE \E m \in Managers : FlushOverride(m)
  <2>1. PICK m \in Managers : FlushOverride(m)
    BY <1>2
  <2> DEFINE old == op[m].original
             new == [old EXCEPT !.category = op[m].category, !.at = clock,
                                !.overrideOf = old.at]
  <2>2. m \in People /\ old \in scores /\ old \in ScoreRow
    BY <1>0, <2>1, SessionParts DEF People, FlushOverride, Step, SessionsTyped,
                                    SessionGrounded
  <2>3. /\ op'[m] = [step |-> "override_flushed", original |-> old, row |-> new]
        /\ \A n \in People \ {m} : op'[n] = op[n]
        /\ scores' = scores /\ clock' = clock + 1
    BY <1>0, <2>1, <2>2 DEF FlushOverride, Become, SessionsTyped
  <2>4. /\ new.scan = old.scan /\ new.domain = old.domain
        /\ new.overrideOf = old.at /\ new.at = clock
    BY <2>2 DEF ScoreRow
  <2>5. \A row \in scores : row.at < clock /\ row.at \in Nat
    BY <1>0 DEF LifecycleInv, ScoresOrdered, TablesTyped, ScoreRow
  <2> HIDE DEF new, old
  <2>6. /\ op'[m].original = old /\ op'[m].row = new
    BY <2>3
  <2>7. ASSUME NEW n \in People, Step(n, "override_flushed")'
        PROVE  /\ op'[n].row.scan = op'[n].original.scan
               /\ op'[n].row.domain = op'[n].original.domain
               /\ op'[n].row.overrideOf = op'[n].original.at
               /\ op'[n].original.at < op'[n].row.at
               /\ op'[n].row.at < clock'
               /\ \A row \in scores' : row.at # op'[n].row.at
               /\ n # m => Step(n, "override_flushed") /\ op'[n].row.at < clock
                           /\ op'[n].row.at \in Nat
    <3>1. CASE n = m
      BY <1>00, <2>2, <2>3, <2>4, <2>5, <2>6, <3>1
    <3>2. CASE n # m
      <4>1. Step(n, "override_flushed") /\ op'[n] = op[n]
        BY <2>3, <2>7, <3>2 DEF Step
      <4> QED BY <1>0, <1>00, <1>01, <2>3, <4>1 DEF OverridesOrdered
    <3> QED BY <3>1, <3>2
  <2>8. ASSUME NEW a \in People, NEW b \in People, a # b,
               Step(a, "override_flushed")', Step(b, "override_flushed")'
        PROVE  op'[a].row.at # op'[b].row.at
    <3>1. CASE a # m /\ b # m
      BY <1>0, <2>3, <2>7, <2>8, <3>1 DEF OverridesOrdered
    <3>2. CASE a = m
      BY <1>00, <2>4, <2>6, <2>7, <2>8, <3>2
    <3>3. CASE b = m
      BY <1>00, <2>4, <2>6, <2>7, <2>8, <3>3
    <3> QED BY <3>1, <3>2, <3>3
  <2> QED BY <2>7, <2>8 DEF OverridesOrdered
<1>3. CASE \E m \in Managers : CommitOverride(m)
  <2>1. PICK m \in Managers : CommitOverride(m)
    BY <1>3
  <2>2. /\ scores' = scores \cup {op[m].row}
        /\ Step(m, "override_flushed") /\ m \in People
    BY <2>1 DEF CommitOverride, People
  <2>3. op'[m] = Idle /\ \A n \in People \ {m} : op'[n] = op[n]
    BY <1>0, <2>1, <2>2 DEF CommitOverride, Become, SessionsTyped
  <2>4. \A n \in People : Step(n, "override_flushed")' =>
          n # m /\ op'[n] = op[n] /\ Step(n, "override_flushed")
    BY <2>3 DEF Step, Idle
  <2>5. \A n \in People : Step(n, "override_flushed")' =>
          \A row \in scores' \ scores : row.at # op[n].row.at
    BY <1>0, <2>2, <2>4 DEF OverridesOrdered
  <2> QED BY <1>1, <2>4, <2>5
<1>4. CASE \E r \in Scans : ScoreAndGenerate(r) /\ UNCHANGED op
  <2>1. PICK r \in Scans : ScoreAndGenerate(r) /\ UNCHANGED op
    BY <1>4
  <2>2. \A row \in scores' \ scores : row.at = clock
    BY <2>1, NewRowsTyped
  <2>3. \A n \in People : Step(n, "override_flushed") => op[n].row.at < clock
    BY <1>0 DEF OverridesOrdered
  <2>4. \A n \in People : Step(n, "override_flushed")' => Step(n, "override_flushed")
    BY <2>1 DEF Step
  <2> QED BY <1>00, <1>01, <1>1, <2>1, <2>2, <2>3, <2>4
<1>5. CASE ~(\E m \in Managers : FlushOverride(m) \/ CommitOverride(m))
           /\ ~(\E r \in Scans : ScoreAndGenerate(r) /\ UNCHANGED op)
  <2>1. scores' = scores
    BY <1>5, TableCases DEF tables, Save, Evaluate, Complete, Report, TrailGrows,
                            CommitReview
  <2>2. ASSUME NEW n \in People, Step(n, "override_flushed")'
        PROVE  op'[n] = op[n]
    BY <1>5, <2>2, SessionCameTo
  <2>3. \A n \in People : Step(n, "override_flushed")' =>
          op'[n] = op[n] /\ Step(n, "override_flushed")
    BY <2>2 DEF Step
  <2> QED BY <1>1, <2>1, <2>3
<1> QED BY <1>2, <1>3, <1>4, <1>5

(***************************************************************************)
(* The theorems.                                                           *)
(***************************************************************************)
LEMMA LifecycleInvInit == Init => LifecycleInv
<1> SUFFICES ASSUME Init PROVE LifecycleInv
  OBVIOUS
<1> USE DEF Init, PipelineInit, GovernanceInit, AssistantInit
<1>1. TablesTyped
  <2>1. <<>> \in Reviews
    <3>1. <<>> \in [{} -> Review]
      OBVIOUS
    <3> QED BY <3>1 DEF Reviews
  <2>2. audit \in Seq({audit[i] : i \in DOMAIN audit})
    <3> DEFINE S == {audit[i] : i \in DOMAIN audit}
    <3>1. audit = <<>>
      OBVIOUS
    <3> HIDE DEF S
    <3>2. audit \in Seq(S)
      BY <3>1, EmptySeq
    <3> QED BY <3>2 DEF S
  <2>3. /\ scans \subseteq Scans /\ mappings \in [Scans -> SUBSET Domains]
        /\ scores \subseteq ScoreRow
        /\ evidence \in [Scans -> SUBSET ControlRow]
        /\ recommendations \in [Scans -> SUBSET ControlRow]
        /\ evaluations \in [Scans -> SUBSET EvaluationRow]
        /\ clock \in Nat /\ clock > NoScore
    BY DEF NoScore
  <2>4. findings \in [Scans -> Reviews]
    BY <2>1
  <2>5. catalog \in BOOLEAN
    BY Zenon
  <2> HIDE DEF Init, PipelineInit
  <2> QED BY <2>2, <2>3, <2>4, <2>5 DEF TablesTyped
<1>2. RowsOfScans
  BY FS_EmptySet DEF RowsOfScans, Findings
<1>3. RunsTyped
  BY FS_EmptySet DEF RunsTyped, NewRun, Run, Phases
<1>4. SessionsTyped
  BY IdleIsTyped DEF SessionsTyped, SessionGrounded
<1>5. PagesTyped
  BY DEF PagesTyped, PageGrounded, Waiting
<1>6. Progress
  BY DEF Progress, ProgressOf, NewRun, Unsaved
<1>7. Completion
  BY DEF Completion, CompletionOf, Trail
<1>8. ScoresOrdered
  BY DEF ScoresOrdered, ScoredDomains, ScoresOf
<1>9. OverridesOrdered
  BY IdleIsTyped DEF OverridesOrdered, Step
<1> QED BY <1>1, <1>2, <1>3, <1>4, <1>5, <1>6, <1>7, <1>8, <1>9 DEF LifecycleInv

\* Whatever runs, managers and askers do, the tables keep their shape, each
\* scan is as far as its run is, and the rows of a score are in order.
THEOREM LifecycleInvariant == Spec => []LifecycleInv
<1>1. LifecycleInv /\ [Next]_vars => LifecycleInv'
  BY TablesTypedStep, RowsOfScansStep, RunsTypedStep, SessionsTypedStep,
     PagesTypedStep, ProgressStep, CompletionStep, ScoresOrderedStep,
     OverridesOrderedStep DEF LifecycleInv
<1> QED BY LifecycleInvInit, <1>1, PTL DEF Spec

\* The tables, the runs and the sessions have their types at all times.
THEOREM TypeCorrect == Spec => []TypeOK
<1>1. LifecycleInv => TypeOK
  <2> SUFFICES ASSUME LifecycleInv PROVE TypeOK
    OBVIOUS
  <2>0. TablesTyped /\ RunsTyped /\ SessionsTyped /\ PagesTyped
    BY DEF LifecycleInv
  <2>1. \A s \in Scans : /\ Findings(s) \subseteq ScanFindings
                        /\ findings[s] \in [Findings(s) -> Review]
    BY <2>0, ReviewsHaveFindings
  <2>2. \A row \in UNION {evidence[s] \cup recommendations[s] : s \in Scans} :
          row \in [finding : ScanFindings, control : CatalogControls]
    BY <2>0 DEF TablesTyped, ControlRow
  <2>3. \A row \in UNION {evaluations[s] : s \in Scans} : row.findings \subseteq ScanFindings
    BY <2>0 DEF TablesTyped, EvaluationRow
  <2>4. \A p \in Askers : AskAt(p, "shown") =>
          ask[p].context \in [scores : SUBSET ScoreRow, findings : SUBSET ScanFindings,
                              truncated : BOOLEAN]
    BY <2>0 DEF AskAt, PagesTyped, PageGrounded, ContextTyped, TablesTyped
  <2> QED BY <2>0, <2>1, <2>2, <2>3, <2>4 DEF TypeOK, TablesTyped, RunsTyped, SessionsTyped
<1> QED BY LifecycleInvariant, <1>1, PTL

\* The two rules for the score in force, that of the finalization check and
\* that of the pages, always choose the same row.
THEOREM ReadersAlwaysAgree == Spec => []ReadersAgree
<1>1. LifecycleInv => ReadersAgree
  BY ScoreInForce DEF ReadersAgree, LifecycleInv
<1> QED BY LifecycleInvariant, <1>1, PTL

\* The findings that the gaps of a domain name are those that a control of
\* the domain is for.
LEMMA GapsOfEvaluation ==
  ASSUME LifecycleInv, NEW s \in Scans, Evaluated(s), NEW d \in mappings[s]
  PROVE  GapFindings(s, d) =
           {f \in InDomain(Findings(s), d) : AppliesToDomain(ControlForRule(f.rule), d)}
<1> DEFINE fs == InDomain(Findings(s), d)
           Matched(c) == {f \in fs : f.rule = c.prefix}
<1>0. d \in Domains /\ \A f \in fs : f.rule \in Prefixes
  BY ReviewsHaveFindings, FindingTypes DEF LifecycleInv, TablesTyped, InDomain
<1>1. \A e : e \in evaluations[s] /\ e.domain = d <=>
               \E c \in ControlsForDomain(d) :
                 e = [domain |-> d, control |-> c.id,
                      status |-> IF Matched(c) # {} THEN "GAP" ELSE "SATISFIED",
                      findings |-> Matched(c)]
  <2>1. EvaluateDomain(fs, d, d \in mappings[s]) =
          {[domain |-> d, control |-> c.id,
            status |-> IF Matched(c) # {} THEN "GAP" ELSE "SATISFIED",
            findings |-> Matched(c)] : c \in ControlsForDomain(d)}
    BY DEF EvaluateDomain
  <2>2. \A e \in EvaluateDomain(fs, d, d \in mappings[s]) : e.domain = d
    BY <2>1
  <2>3. \A d1 \in Domains : \A e \in EvaluateDomain(InDomain(Findings(s), d1), d1,
                                                   d1 \in mappings[s]) : e.domain = d1
    BY DEF EvaluateDomain
  <2>4. \A e : e \in evaluations[s] /\ e.domain = d
                 <=> e \in EvaluateDomain(fs, d, d \in mappings[s])
    BY <1>0, <2>2, <2>3 DEF Evaluated, EvaluateAllDomains
  <2> HIDE DEF fs
  <2> QED BY <2>1, <2>4
<1>2. ASSUME NEW f \in GapFindings(s, d)
      PROVE  f \in fs /\ AppliesToDomain(ControlForRule(f.rule), d)
  <2>1. PICK e : e \in evaluations[s] /\ e.domain = d /\ f \in e.findings
    BY DEF GapFindings
  <2>2. PICK c \in ControlsForDomain(d) : f \in Matched(c)
    BY <1>1, <2>1
  <2> QED BY <2>2, ControlsHaveTheirRules DEF ControlsForDomain
<1>3. ASSUME NEW f \in fs, AppliesToDomain(ControlForRule(f.rule), d)
      PROVE  f \in GapFindings(s, d)
  <2> DEFINE c == ControlForRule(f.rule)
             e == [domain |-> d, control |-> c.id,
                   status |-> IF Matched(c) # {} THEN "GAP" ELSE "SATISFIED",
                   findings |-> Matched(c)]
  <2>1. c \in ControlsForDomain(d) /\ f \in Matched(c)
    BY <1>0, <1>3, ControlsHaveTheirRules DEF ControlsForDomain
  <2>2. e \in evaluations[s] /\ e.domain = d /\ e.status = "GAP" /\ f \in e.findings
    BY <1>1, <2>1
  <2> HIDE DEF e
  <2> QED BY <2>2 DEF GapFindings
<1> QED BY <1>2, <1>3

\* A completed assessment is whole, and was reported with its own counts.
THEOREM CompletedIsAlwaysWhole == Spec => []CompletedIsWhole
<1>1. LifecycleInv => CompletedIsWhole
  <2> SUFFICES ASSUME LifecycleInv, NEW s \in Scans,
                      NEW i \in Trail("ASSESSMENT_COMPLETED", s)
               PROVE  /\ {row.domain : row \in EngineRows(s)} = Domains
                      /\ \A row \in EngineRows(s) :
                           row.category = ScoreAllDomains(Findings(s), mappings[s])[row.domain]
                      /\ {row.finding : row \in evidence[s]} = Findings(s)
                      /\ {row.finding : row \in recommendations[s]} = Findings(s)
                      /\ \A d \in mappings[s] :
                           GapFindings(s, d) =
                             {f \in InDomain(Findings(s), d) :
                                AppliesToDomain(ControlForRule(f.rule), d)}
                      /\ audit[i].about = Counts(s)
    BY DEF CompletedIsWhole, Counts
  <2>1. Evaluated(s) /\ HasScores(s) /\ audit[i].about = Counts(s)
    BY DEF LifecycleInv, Completion, CompletionOf, Evaluated
  <2>2. {row.domain : row \in EngineRows(s)} = Domains
    <3>1. \A row \in EngineRows(s) : row.domain \in Domains
      BY DEF EngineRows, LifecycleInv, TablesTyped, ScoreRow
    <3> QED BY <2>1, <3>1 DEF HasScores
  <2>3. \A row \in EngineRows(s) :
          row.category = ScoreAllDomains(Findings(s), mappings[s])[row.domain]
    BY <2>1 DEF HasScores
  <2>4. Findings(s) \in SUBSET ScanFindings
    BY ReviewsHaveFindings DEF LifecycleInv
  <2>5. /\ {row.finding : row \in evidence[s]} = Findings(s)
        /\ {row.finding : row \in recommendations[s]} = Findings(s)
    BY <2>1, <2>4, WithControlTypes DEF HasScores
  <2> QED BY <2>1, <2>2, <2>3, <2>5, GapsOfEvaluation
<1> QED BY LifecycleInvariant, <1>1, PTL

\* Scores and control evaluations agree on which domains some scanned file
\* maps to: the others, and no others, are short of evidence in both.
THEOREM CoverageAlwaysAgrees == Spec => []CoverageAgrees
<1>1. LifecycleInv => CoverageAgrees
  <2> SUFFICES ASSUME LifecycleInv, NEW s \in Scans, evaluations[s] # {},
                      NEW row \in EngineRows(s)
               PROVE  LET Statuses == {e.status : e \in {x \in evaluations[s] :
                                                          x.domain = row.domain}}
                      IN IF row.domain \in mappings[s]
                         THEN /\ row.category # "INSUFFICIENT_EVIDENCE"
                              /\ "INSUFFICIENT_EVIDENCE" \notin Statuses
                         ELSE /\ row.category = "INSUFFICIENT_EVIDENCE"
                              /\ Statuses = {"INSUFFICIENT_EVIDENCE"}
    BY DEF CoverageAgrees
  <2> DEFINE d == row.domain
             fs(d1) == InDomain(Findings(s), d1)
             Statuses == {e.status : e \in {x \in evaluations[s] : x.domain = d}}
  <2>1. Evaluated(s) /\ HasScores(s)
    BY DEF LifecycleInv, Progress, ProgressOf, Unsaved, Stored, Scored, Evaluated
  <2>2. d \in Domains /\ row.category = ScoreAllDomains(Findings(s), mappings[s])[d]
    BY <2>1 DEF HasScores, EngineRows, LifecycleInv, TablesTyped, ScoreRow
  <2>3. row.category = "INSUFFICIENT_EVIDENCE" <=> d \notin mappings[s]
    BY <2>2, ScoresOfAllDomains
  <2>4. ASSUME NEW d1 \in Domains, NEW e \in EvaluateDomain(fs(d1), d1, d1 \in mappings[s])
        PROVE  /\ e.domain = d1
               /\ e.status = "INSUFFICIENT_EVIDENCE" <=> d1 \notin mappings[s]
    BY <2>4 DEF EvaluateDomain
  <2>5. \A e \in evaluations[s] : e.domain = d =>
          (e.status = "INSUFFICIENT_EVIDENCE" <=> d \notin mappings[s])
    BY <2>1, <2>4 DEF Evaluated, EvaluateAllDomains
  <2>6. \E e \in evaluations[s] : e.domain = d
    <3>1. PICK c \in ControlsForDomain(d) : TRUE
      BY SomeControlForDomain
    <3>2. EvaluateDomain(fs(d), d, d \in mappings[s]) # {}
      BY <3>1 DEF EvaluateDomain
    <3>3. PICK e \in EvaluateDomain(fs(d), d, d \in mappings[s]) : e.domain = d
      BY <2>2, <2>4, <3>2
    <3> QED BY <2>1, <2>2, <3>3 DEF Evaluated, EvaluateAllDomains
  <2> HIDE DEF d
  <2>7. CASE d \in mappings[s]
    BY <2>3, <2>5, <2>7 DEF d
  <2>8. CASE d \notin mappings[s]
    <3>1. Statuses = {"INSUFFICIENT_EVIDENCE"}
      BY <2>5, <2>6, <2>8
    <3> QED BY <2>3, <2>8, <3>1 DEF d
  <2> QED BY <2>7, <2>8
<1> QED BY LifecycleInvariant, <1>1, PTL
=============================================================================
