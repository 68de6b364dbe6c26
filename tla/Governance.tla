----------------------------- MODULE Governance -----------------------------
(***************************************************************************)
(* Human review (governance/approval_workflow.py, GovernanceRepository in  *)
(* storage/db/repositories.py and the review queue page).  A manager       *)
(* reviews a finding, overrides the score of a domain, or has the          *)
(* finalization check made, which every viewer may.  Each is a database    *)
(* session of its own, whose reads and commit others' commits can fall     *)
(* between; op[m] is where the session of person m is and what it has      *)
(* read.  One person has one browser session, and does one thing at a      *)
(* time in it.                                                             *)
(***************************************************************************)
EXTENDS AssessmentTables

CONSTANTS
  Viewers,    \* who has the finalization check made
  Decisions,  \* what is submitted on a finding: an outcome, with a reason or not
  Verdicts,   \* the categories that scores are overridden to
  MaxClock    \* bound on the clock, and so on the number of overrides

ASSUME GovernanceAssumption ==
  /\ Decisions \subseteq [status : ReviewOutcomes, reasoned : BOOLEAN]
  /\ Verdicts \subseteq Categories
  /\ MaxClock \in Nat
  /\ {"system", "requester", "nobody"} \cap Viewers = {}

People == Managers \cup Viewers

VARIABLE op

Idle == [step |-> "idle"]

\* A decision on a finding: chosen on the page, then with the row as read.
Reviewing ==
  [step : {"review_chosen"}, scan : Scans, finding : ScanFindings,
   decision : Decisions]
  \cup
  [step : {"review_read"}, scan : Scans, finding : ScanFindings,
   decision : Decisions, read : Review]

\* A decision on a score: the row it overrides, then the row inserted.
Overriding ==
  [step : {"override_chosen"}, original : ScoreRow, category : Verdicts]
  \cup [step : {"override_flushed"}, original : ScoreRow, row : ScoreRow]

\* The finalization check: trail is the length of the audit trail when it
\* read the scores.
Checking ==
  [step : {"check_started"}, scan : Scans,
   read : UNION {[ds -> Categories] : ds \in SUBSET Domains}, trail : Nat]
  \cup
  [step : {"check_answered"}, can : BOOLEAN]

Op == {Idle} \cup Reviewing \cup Overriding \cup Checking

Step(m, step) == op[m].step = step

Become(m, next) == op' = [op EXCEPT ![m] = next]

(***************************************************************************)
(* Reviewing a finding.                                                    *)
(***************************************************************************)
\* Mutant of Valid: a rejection needs a reason, an override does not.
ValidRejection(decision) == decision.status = "REJECTED" => decision.reasoned

\* An override of a finding is refused without a reason.
Valid(decision) == decision.status = "OVERRIDDEN" => decision.reasoned

\* The page offers what is pending when its script runs; an outcome the
\* validation refuses changes nothing.
ChooseReview(m) ==
  /\ Step(m, "idle")
  /\ \E s \in scans : \E f \in Pending(s), decision \in Decisions :
       /\ Valid(decision)
       /\ Become(m, [step |-> "review_chosen", scan |-> s, finding |-> f,
                     decision |-> decision])
  /\ UNCHANGED tables

\* The session gets the row again, and does not ask whether it is pending.
ReadFinding(m) ==
  /\ Step(m, "review_chosen")
  /\ Become(m, [step |-> "review_read", scan |-> op[m].scan,
                finding |-> op[m].finding, decision |-> op[m].decision,
                read |-> findings[op[m].scan][op[m].finding]])
  /\ UNCHANGED tables

\* The UPDATE sets a column when the decision differs from what was read.
Column(read, new, current) == IF new = read THEN current ELSE new

ReviewEvent(m) ==
  [type |-> "FINDING_REVIEWED", scan |-> op[m].scan, actor |-> m,
   about |-> [finding |-> op[m].finding, decision |-> op[m].decision]]

\* The UPDATE locks the row until the commit, which is that of the audit row.
CommitReview(m) ==
  LET s == op[m].scan
      f == op[m].finding
      read == op[m].read
  IN /\ Step(m, "review_read")
     /\ findings' = [findings EXCEPT
          ![s][f].status = Column(read.status, op[m].decision.status, @),
          ![s][f].reviewer = Column(read.reviewer, m, @)]
     /\ Record(ReviewEvent(m))
     /\ Become(m, Idle)
     /\ UNCHANGED <<scans, mappings, scores, evidence, recommendations,
                    evaluations, catalog, clock>>

(***************************************************************************)
(* Overriding a score, always with a justification: the page and the       *)
(* validation refuse one without.                                          *)
(***************************************************************************)
ChooseOverride(m) ==
  /\ Step(m, "idle")
  /\ \E s \in scans : \E d \in ScoredDomains(s), category \in Verdicts :
       Become(m, [step |-> "override_chosen", original |-> EffectiveScore(s, d),
                  category |-> category])
  /\ UNCHANGED tables

\* The INSERT stamps the row; nobody sees it before the commit.
FlushOverride(m) ==
  /\ Step(m, "override_chosen") /\ clock < MaxClock
  /\ Become(m, [step |-> "override_flushed", original |-> op[m].original,
                row |-> [op[m].original EXCEPT
                           !.category = op[m].category, !.at = clock,
                           !.overrideOf = op[m].original.at]])
  /\ clock' = clock + 1
  /\ UNCHANGED <<scans, mappings, findings, scores, evidence,
                 recommendations, evaluations, catalog, audit>>

OverrideEvent(m) ==
  [type |-> "SCORE_OVERRIDDEN", scan |-> op[m].row.scan, actor |-> m,
   about |-> [domain |-> op[m].row.domain, original |-> op[m].original.at,
              new |-> op[m].row.at]]

\* Mutant of CommitOverride: the row is committed before its audit row is
\* recorded, and the session ends in between.
CommitOverrideUnrecorded(m) ==
  /\ Step(m, "override_flushed")
  /\ scores' = scores \cup {op[m].row}
  /\ Become(m, Idle)
  /\ UNCHANGED <<scans, mappings, findings, evidence, recommendations,
                 evaluations, catalog, audit, clock>>

CommitOverride(m) ==
  /\ Step(m, "override_flushed")
  /\ scores' = scores \cup {op[m].row}
  /\ Record(OverrideEvent(m))
  /\ Become(m, Idle)
  /\ UNCHANGED <<scans, mappings, findings, evidence, recommendations,
                 evaluations, catalog, clock>>

\* A session ends before its commit: an exception, or the process stops.
RollBack(m) ==
  /\ op[m].step \in {"review_chosen", "review_read", "override_chosen",
                     "override_flushed"}
  /\ Become(m, Idle)
  /\ UNCHANGED tables

(***************************************************************************)
(* The finalization check: two queries, each of what is committed then.    *)
(***************************************************************************)
\* Mutant of CheckScores: it reads the engine's rows, not the overrides.
CheckScoresOfEngine(m) ==
  /\ Step(m, "idle")
  /\ \E s \in scans :
       Become(m, [step |-> "check_started", scan |-> s,
                  read |-> [d \in ScoredDomains(s) |->
                    (CHOOSE row \in ScoresOf(s, d) :
                       row.overrideOf = NoScore).category],
                  trail |-> Len(audit)])
  /\ UNCHANGED tables

CheckScores(m) ==
  /\ Step(m, "idle")
  /\ \E s \in scans :
       Become(m, [step |-> "check_started", scan |-> s,
                  read |-> LatestCategories(s), trail |-> Len(audit)])
  /\ UNCHANGED tables

CheckFindings(m) ==
  /\ Step(m, "check_started")
  /\ Become(m, [step |-> "check_answered",
                can |-> CanFinalize(op[m].scan, op[m].read)])
  /\ UNCHANGED tables

Leave(m) ==
  /\ Step(m, "check_answered")
  /\ Become(m, Idle)
  /\ UNCHANGED tables

GovernanceInit == op = [m \in People |-> Idle]
=============================================================================
