----------------------------- MODULE Lifecycle ------------------------------
(***************************************************************************)
(* The life of an assessment: the pipeline writes it stage by stage while  *)
(* managers already review, override and check what is committed, and the  *)
(* assistant tells of it.  They share the tables of the one database and   *)
(* nothing else.                                                           *)
(***************************************************************************)
EXTENDS Pipeline, Governance, Assistant

vars == <<tables, run, op, ask>>

Init == PipelineInit /\ GovernanceInit /\ AssistantInit

RunStep(r) ==
  \/ Scan(r)
  \/ ScanFails(r)
  \/ Save(r)
  \/ ReportSave(r)
  \/ ReadCatalog(r)
  \/ ScoreAndGenerate(r)
  \/ ScoreFails(r)
  \/ ReportScores(r)
  \/ Evaluate(r)
  \/ ReportEvaluations(r)
  \/ Complete(r)
  \/ Attribute(r)
  \/ Stop(r)

ManagerStep(m) ==
  \/ ChooseReview(m)
  \/ ReadFinding(m)
  \/ CommitReview(m)
  \/ ChooseOverride(m)
  \/ FlushOverride(m)
  \/ CommitOverride(m)
  \/ RollBack(m)

ViewerStep(v) ==
  \/ CheckScores(v)
  \/ CheckFindings(v)
  \/ Leave(v)

AskerStep(p) ==
  \/ ExplainFinding(p)
  \/ SummarizeDomain(p)
  \/ ReadDomainFindings(p)
  \/ AnswerQuestion(p)
  \/ ExecutiveSummary(p)
  \/ RecordAnswer(p)
  \/ AskFails(p)

Next ==
  \/ \E r \in Scans : RunStep(r) /\ UNCHANGED <<op, ask>>
  \/ \E m \in Managers : ManagerStep(m) /\ UNCHANGED <<run, ask>>
  \/ \E v \in Viewers : ViewerStep(v) /\ UNCHANGED <<run, ask>>
  \/ \E p \in Askers : AskerStep(p) /\ UNCHANGED <<run, op>>

Spec == Init /\ [][Next]_vars

\* A run that has begun is a thread of its own and goes on until it ends;
\* nobody has to begin one, and what managers do is theirs to decide.
Running(r) == ~At(r, "idle") /\ Advance(r) /\ UNCHANGED <<op, ask>>

FairSpec == Spec /\ \A r \in Scans : WF_vars(Running(r))

(***************************************************************************)
(* The discipline the code does not impose: no two managers have database  *)
(* transactions open on one finding, or on the score of one domain, at a   *)
(* time.  Their pages may be stale: what one has decided meanwhile another *)
(* still decides as the page showed it.                                    *)
(***************************************************************************)
Subject(m) ==
  IF op[m].step = "review_read"
  THEN {[scan |-> op[m].scan, finding |-> op[m].finding]}
  ELSE IF op[m].step = "override_flushed"
  THEN {[scan |-> op[m].original.scan, domain |-> op[m].original.domain]}
  ELSE {}

NoOverlap ==
  \A m, n \in Managers : m # n => Subject(m) \cap Subject(n) = {}

ExclusiveSpec == Init /\ [][Next /\ NoOverlap']_vars
=============================================================================
