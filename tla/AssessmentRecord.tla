-------------------------- MODULE AssessmentRecord --------------------------
(***************************************************************************)
(* What the assessment of a source promises to be, without sessions,       *)
(* rows or times: a record of findings that is stored once, is given a     *)
(* verdict for every domain at once, is evaluated and concluded, and whose *)
(* reviews and verdicts people decide.                                     *)
(***************************************************************************)
CONSTANTS Scans, Reportable, Domains, Managers, Decisions, Categories

VARIABLES
  stage,     \* how far the record of each scan is
  review,    \* the review of each of its findings
  verdict    \* the category in force for each domain

vars == <<stage, review, verdict>>

Init ==
  /\ stage = [s \in Scans |-> "absent"]
  /\ review = [s \in Scans |-> <<>>]
  /\ verdict = [s \in Scans |-> <<>>]

Store(s) ==
  /\ stage[s] = "absent"
  /\ stage' = [stage EXCEPT ![s] = "stored"]
  /\ \E fs \in SUBSET Reportable :
       review' = [review EXCEPT
         ![s] = [f \in fs |-> [status |-> "PENDING", reviewer |-> "nobody"]]]
  /\ UNCHANGED verdict

Judge(s) ==
  /\ stage[s] = "stored"
  /\ stage' = [stage EXCEPT ![s] = "judged"]
  /\ \E categories \in [Domains -> Categories] :
       verdict' = [verdict EXCEPT ![s] = categories]
  /\ UNCHANGED review

Evaluate(s) ==
  /\ stage[s] = "judged"
  /\ stage' = [stage EXCEPT ![s] = "evaluated"]
  /\ UNCHANGED <<review, verdict>>

Conclude(s) ==
  /\ stage[s] = "evaluated"
  /\ stage' = [stage EXCEPT ![s] = "concluded"]
  /\ UNCHANGED <<review, verdict>>

\* Once reviewed, a finding is never pending again.
Decide(s) ==
  /\ \E f \in DOMAIN review[s] :
       \E status \in Decisions, reviewer \in Managers :
         review' = [review EXCEPT
           ![s][f] = [status |-> status, reviewer |-> reviewer]]
  /\ UNCHANGED <<stage, verdict>>

\* A person's verdict takes the place of the one in force.
Overrule(s) ==
  /\ \E d \in DOMAIN verdict[s], category \in Categories :
       verdict' = [verdict EXCEPT ![s][d] = category]
  /\ UNCHANGED <<stage, review>>

Next ==
  \E s \in Scans :
    Store(s) \/ Judge(s) \/ Evaluate(s) \/ Conclude(s) \/ Decide(s)
      \/ Overrule(s)

Spec == Init /\ [][Next]_vars
=============================================================================
