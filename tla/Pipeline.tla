------------------------------ MODULE Pipeline ------------------------------
(***************************************************************************)
(* The assessment pipeline (assessment/engine.py, run_assessment).  A run  *)
(* scans its source in memory, and then commits the scan, the scores with  *)
(* their evidence and recommendations, and the control evaluations, each   *)
(* followed by an audit row that is a commit of its own.  Several runs may *)
(* be under way; the process of any of them may stop between two commits,  *)
(* and nothing resumes it.                                                 *)
(***************************************************************************)
EXTENDS AssessmentTables

VARIABLE run   \* where each run is, and what its thread holds in memory

Phases ==
  {"idle", "scanned", "saved", "save_reported", "scoring", "scored",
   "scores_reported", "evaluated", "evaluations_reported", "completed",
   "done", "failed", "stopped"}

Ended == {"done", "failed", "stopped"}

Run == [phase : Phases, found : SUBSET ScanFindings, mapped : SUBSET Domains,
        sawCatalog : BOOLEAN]

NewRun == [phase |-> "idle", found |-> {}, mapped |-> {}, sawCatalog |-> FALSE]

At(r, phase) == run[r].phase = phase

Goto(r, phase) == run' = [run EXCEPT ![r].phase = phase]

SystemEvent(type, r, counts) ==
  [type |-> type, scan |-> r, actor |-> "system", about |-> counts]

Scan(r) ==
  /\ At(r, "idle")
  /\ \E o \in Outcomes :
       run' = [run EXCEPT ![r] = [phase |-> "scanned", found |-> o.found,
                                  mapped |-> o.mapped, sawCatalog |-> FALSE]]
  /\ UNCHANGED tables

\* Ingestion or the scan as a whole fails: AssessmentError, nothing stored.
ScanFails(r) ==
  /\ At(r, "idle")
  /\ Goto(r, "failed")
  /\ UNCHANGED tables

\* ScanRepository.save.
Save(r) ==
  /\ At(r, "scanned")
  /\ scans' = scans \cup {r}
  /\ mappings' = [mappings EXCEPT ![r] = run[r].mapped]
  /\ findings' = [findings EXCEPT ![r] = [f \in run[r].found |-> Unreviewed]]
  /\ Goto(r, "saved")
  /\ UNCHANGED <<scores, evidence, recommendations, evaluations, catalog,
                 audit, clock>>

Report(r, from, type, counts, to) ==
  /\ At(r, from)
  /\ Record(SystemEvent(type, r, counts))
  /\ Goto(r, to)
  /\ UNCHANGED <<scans, mappings, findings, scores, evidence,
                 recommendations, evaluations, catalog, clock>>

ReportSave(r) ==
  Report(r, "saved", "SCAN_PERSISTED",
         [findings |-> Cardinality(run[r].found)], "save_reported")

\* upsert_catalog looks for each control before it adds it.
ReadCatalog(r) ==
  /\ At(r, "save_reported")
  /\ run' = [run EXCEPT ![r].phase = "scoring", ![r].sawCatalog = catalog]
  /\ UNCHANGED tables

\* Another run has added the controls since they were looked for: the insert
\* breaks the unique control_id and the transaction is lost.
CatalogConflict(r) == catalog /\ ~run[r].sawCatalog

\* Mutant of ScoredFrom: only the findings that are still to be reviewed.
ScoredFromPending(r) == Pending(r)

\* The findings that are scored and evaluated, whatever their review.
ScoredFrom(r) == Findings(r)

\* ScoringRepository.score_and_generate.
ScoreAndGenerate(r) ==
  LET category == ScoreAllDomains(ScoredFrom(r), mappings[r])  IN
  /\ At(r, "scoring") /\ ~CatalogConflict(r)
  /\ catalog' = TRUE
  /\ scores' = scores \cup
       {[scan |-> r, domain |-> d, category |-> category[d], at |-> clock,
         overrideOf |-> NoScore] : d \in Domains}
  /\ clock' = clock + 1
  /\ evidence' = [evidence EXCEPT ![r] = WithControl(Findings(r))]
  /\ recommendations' = [recommendations EXCEPT ![r] = WithControl(Findings(r))]
  /\ Goto(r, "scored")
  /\ UNCHANGED <<scans, mappings, findings, evaluations, audit>>

\* Mutant of ScoreFails: the insert is tried again, without another look.
ScoreIsRetried(r) ==
  /\ At(r, "scoring") /\ CatalogConflict(r)
  /\ Goto(r, "scoring")
  /\ UNCHANGED tables

ScoreFails(r) ==
  /\ At(r, "scoring") /\ CatalogConflict(r)
  /\ Goto(r, "failed")
  /\ UNCHANGED tables

ReportScores(r) ==
  Report(r, "scored", "SCORING_COMPLETED",
         [scores |-> Cardinality(Domains), evidence |-> Cardinality(run[r].found),
          recommendations |-> Cardinality(run[r].found)], "scores_reported")

\* ControlEvaluationRepository.evaluate_and_persist; the catalog is there.
Evaluate(r) ==
  /\ At(r, "scores_reported")
  /\ evaluations' = [evaluations EXCEPT
       ![r] = EvaluateAllDomains(ScoredFrom(r), mappings[r])]
  /\ Goto(r, "evaluated")
  /\ UNCHANGED <<scans, mappings, findings, scores, evidence,
                 recommendations, catalog, audit, clock>>

ReportEvaluations(r) ==
  Report(r, "evaluated", "CONTROL_EVALUATION_COMPLETED",
         [evaluations |-> Cardinality(evaluations[r])], "evaluations_reported")

\* Mutant of Complete: the assessment is completed before the evaluation.
CompleteOnceScored(r) ==
  Report(r, "scores_reported", "ASSESSMENT_COMPLETED",
         [findings |-> Cardinality(Findings(r)),
          scores |-> Cardinality(Domains),
          evaluations |-> Cardinality(evaluations[r]),
          recommendations |-> Cardinality(run[r].found)], "completed")

Complete(r) ==
  Report(r, "evaluations_reported", "ASSESSMENT_COMPLETED",
         [findings |-> Cardinality(Findings(r)),
          scores |-> Cardinality(Domains),
          evaluations |-> Cardinality(evaluations[r]),
          recommendations |-> Cardinality(run[r].found)], "completed")

\* SecuredAssessmentService.run_new_assessment names the user afterwards.
Attribute(r) ==
  /\ At(r, "completed")
  /\ Record([type |-> "ASSESSMENT_REQUESTED", scan |-> r,
             actor |-> "requester", about |-> <<>>])
  /\ Goto(r, "done")
  /\ UNCHANGED <<scans, mappings, findings, scores, evidence,
                 recommendations, evaluations, catalog, clock>>

\* The process stops, or an exception ends the run: what was committed stays.
Stop(r) ==
  /\ run[r].phase \notin Ended \cup {"idle"}
  /\ Goto(r, "stopped")
  /\ UNCHANGED tables

Advance(r) ==
  \/ Scan(r) \/ ScanFails(r) \/ Save(r) \/ ReportSave(r) \/ ReadCatalog(r)
  \/ ScoreAndGenerate(r) \/ ScoreFails(r) \/ ReportScores(r)
  \/ Evaluate(r) \/ ReportEvaluations(r) \/ Complete(r) \/ Attribute(r)

PipelineInit ==
  /\ scans = {}
  /\ mappings = [r \in Scans |-> {}]
  /\ findings = [r \in Scans |-> <<>>]
  /\ scores = {}
  /\ evidence = [r \in Scans |-> {}]
  /\ recommendations = [r \in Scans |-> {}]
  /\ evaluations = [r \in Scans |-> {}]
  /\ catalog = FALSE
  /\ audit = <<>>
  /\ clock = 1
  /\ run = [r \in Scans |-> NewRun]
=============================================================================
