---------------------- MODULE LifecycleDecisionsProofs ----------------------
(***************************************************************************)
(* Proofs about what managers decide: every review and every override is   *)
(* on the trail, and the finalization check goes by what was in force.     *)
(***************************************************************************)
EXTENDS LifecycleProofs

(***************************************************************************)
(* The inductive invariant.                                                *)
(***************************************************************************)
\* A finding names a reviewer as soon as it is decided, in the tables and in
\* what a session has read of it, and stays so.
ReviewsStay ==
  /\ \A s \in scans : \A f \in Findings(s) :
       findings[s][f].reviewer # "nobody" <=> findings[s][f].status # "PENDING"
  /\ \A m \in People : Step(m, "review_read") =>
       /\ op[m].read.reviewer # "nobody" => op[m].read.status # "PENDING"
       /\ op[m].read.status # "PENDING" =>
            findings[op[m].scan][op[m].finding].status # "PENDING"

RecordedAt(i, row) ==
  /\ audit[i].about.new = row.at
  /\ audit[i].about.original = row.overrideOf

OverrideHasRow(s, i) ==
  \E row \in ScoresOf(s, audit[i].about.domain) :
    row.overrideOf # NoScore /\ RecordedAt(i, row)

RowHasOverride(row) ==
  \E i \in OverridesOf(row.scan, row.domain) :
    /\ RecordedAt(i, row)
    /\ \A j \in OverridesOf(row.scan, row.domain) : RecordedAt(j, row) => j = i

\* The rows of overrides and their rows of the trail are one to one.
OverridesOnTrail ==
  /\ \A s \in scans : \A i \in Trail("SCORE_OVERRIDDEN", s) : OverrideHasRow(s, i)
  /\ \A row \in scores : row.overrideOf # NoScore => RowHasOverride(row)

\* A check has read the score in force of each scored domain, unless one was
\* overridden since; an assessment that it read no scores of may have them now.
CheckRead(s, read, position) ==
  /\ position <= Len(audit)
  /\ read # <<>> => read = LatestCategories(s) \/ OverriddenSince(s, position)

ChecksRead ==
  \A m \in People : Step(m, "check_started") =>
    \A s \in {op[m].scan}, position \in {op[m].trail} :
      CheckRead(s, op[m].read, position)

DecisionsInv ==
  /\ LifecycleInv
  /\ ReviewsStay
  /\ ReviewIsAccountedFor
  /\ OverridesOnTrail
  /\ ChecksRead

(***************************************************************************)
(* Reviews.                                                                *)
(***************************************************************************)
\* What is on the trail of a finding and of a score stays there, and more
\* comes only of a commit of their own.
LEMMA DecisionsStayOnTrail ==
  ASSUME LifecycleInv, [Next]_vars, NEW s, NEW x
  PROVE  /\ ~(\E m \in Managers : CommitReview(m) /\ op[m].scan = s /\ op[m].finding = x)
              => ReviewsOf(s, x)' = ReviewsOf(s, x)
         /\ ~(\E m \in Managers : CommitOverride(m) /\ op[m].row.scan = s
                                    /\ op[m].row.domain = x)
              => OverridesOf(s, x)' = OverridesOf(s, x)
         /\ \A i \in Trail("FINDING_REVIEWED", s) \cup Trail("SCORE_OVERRIDDEN", s) :
              audit'[i] = audit[i]
<1>0. TablesTyped
  BY DEF LifecycleInv
<1>1. /\ \A i \in DOMAIN audit : audit'[i] = audit[i]
      /\ DOMAIN audit = 1 .. Len(audit) /\ Len(audit) \in Nat
  BY <1>0, NothingIsForgotten, LenProperties DEF TablesTyped
<1>2. \A type : \A i \in Trail(type, s) : i \in DOMAIN audit /\ audit'[i] = audit[i]
  BY <1>1 DEF Trail
<1>3. ASSUME ~(\E m \in Managers : CommitReview(m) /\ op[m].scan = s /\ op[m].finding = x)
      PROVE  ReviewsOf(s, x)' = ReviewsOf(s, x)
  <2>1. CASE Trail("FINDING_REVIEWED", s)' = Trail("FINDING_REVIEWED", s)
    BY <1>2, <2>1 DEF ReviewsOf
  <2>2. CASE \E m \in Managers : CommitReview(m) /\ op[m].scan = s
    <3>1. PICK m \in Managers : CommitReview(m) /\ op[m].scan = s
      BY <2>2
    <3>2. Record(ReviewEvent(m)) /\ ReviewEvent(m).about.finding # x
      BY <1>3, <3>1 DEF CommitReview, ReviewEvent
    <3>3. /\ audit'[Len(audit) + 1] = ReviewEvent(m)
          /\ Trail("FINDING_REVIEWED", s)' \subseteq
               Trail("FINDING_REVIEWED", s) \cup {Len(audit) + 1}
          /\ Trail("FINDING_REVIEWED", s) \subseteq Trail("FINDING_REVIEWED", s)'
      BY <1>0, <3>2, TrailIsAppended, TrailOfKind
    <3> QED BY <1>2, <3>2, <3>3 DEF ReviewsOf
  <2> QED BY <2>1, <2>2, TrailCases
<1>4. ASSUME ~(\E m \in Managers : CommitOverride(m) /\ op[m].row.scan = s
                                    /\ op[m].row.domain = x)
      PROVE  OverridesOf(s, x)' = OverridesOf(s, x)
  <2>1. CASE Trail("SCORE_OVERRIDDEN", s)' = Trail("SCORE_OVERRIDDEN", s)
    BY <1>2, <2>1 DEF OverridesOf
  <2>2. CASE \E m \in Managers : CommitOverride(m) /\ op[m].row.scan = s
    <3>1. PICK m \in Managers : CommitOverride(m) /\ op[m].row.scan = s
      BY <2>2
    <3>2. Record(OverrideEvent(m)) /\ OverrideEvent(m).about.domain # x
      BY <1>4, <3>1 DEF CommitOverride, OverrideEvent
    <3>3. /\ audit'[Len(audit) + 1] = OverrideEvent(m)
          /\ Trail("SCORE_OVERRIDDEN", s)' \subseteq
               Trail("SCORE_OVERRIDDEN", s) \cup {Len(audit) + 1}
          /\ Trail("SCORE_OVERRIDDEN", s) \subseteq Trail("SCORE_OVERRIDDEN", s)'
      BY <1>0, <3>2, TrailIsAppended, TrailOfKind
    <3> QED BY <1>2, <3>2, <3>3 DEF OverridesOf
  <2> QED BY <2>1, <2>2, TrailCases
<1> QED BY <1>2, <1>3, <1>4

LEMMA ReviewIsRecorded ==
  ASSUME LifecycleInv, NEW m \in Managers, CommitReview(m),
         NEW s, NEW f, op[m].scan = s, op[m].finding = f
  PROVE  /\ ReviewsOf(s, f)' = ReviewsOf(s, f) \cup {Len(audit) + 1}
         /\ audit'[Len(audit) + 1] = ReviewEvent(m)
         /\ \A i \in ReviewsOf(s, f) : audit'[i] = audit[i] /\ i \in 1 .. Len(audit)
         /\ Len(audit) \in Nat
<1> DEFINE e == ReviewEvent(m)
           K == Len(audit) + 1
<1>0. TablesTyped
  BY DEF LifecycleInv
<1>1. Record(e) /\ e.type = "FINDING_REVIEWED" /\ e.scan = s /\ e.about.finding = f
  BY DEF CommitReview, ReviewEvent
<1>2. Trail("FINDING_REVIEWED", s)' = Trail("FINDING_REVIEWED", s) \cup {K}
  BY <1>0, <1>1, TrailOfKind
<1>3. /\ audit'[K] = e /\ DOMAIN audit = 1 .. Len(audit) /\ Len(audit) \in Nat
      /\ \A i \in DOMAIN audit : audit'[i] = audit[i]
  BY <1>0, <1>1, TrailIsAppended
<1> HIDE DEF e, K
<1>4. \A i \in Trail("FINDING_REVIEWED", s) : i \in DOMAIN audit /\ audit'[i] = audit[i]
  BY <1>3 DEF Trail
<1>5. ReviewsOf(s, f)' = ReviewsOf(s, f) \cup {K}
  BY <1>1, <1>2, <1>3, <1>4 DEF ReviewsOf
<1>6. \A i \in ReviewsOf(s, f) : audit'[i] = audit[i] /\ i \in 1 .. Len(audit)
  BY <1>3, <1>4 DEF ReviewsOf
<1> QED BY <1>3, <1>5, <1>6 DEF e, K

LEMMA OverrideIsRecorded ==
  ASSUME LifecycleInv, NEW m \in Managers, CommitOverride(m),
         NEW s, NEW d, op[m].row.scan = s, op[m].row.domain = d
  PROVE  /\ OverridesOf(s, d)' = OverridesOf(s, d) \cup {Len(audit) + 1}
         /\ audit'[Len(audit) + 1] = OverrideEvent(m)
         /\ \A i \in OverridesOf(s, d) : audit'[i] = audit[i] /\ i \in 1 .. Len(audit)
         /\ Trail("SCORE_OVERRIDDEN", s)'
              = Trail("SCORE_OVERRIDDEN", s) \cup {Len(audit) + 1}
         /\ Len(audit) \in Nat
<1> DEFINE e == OverrideEvent(m)
           K == Len(audit) + 1
<1>0. TablesTyped
  BY DEF LifecycleInv
<1>1. Record(e) /\ e.type = "SCORE_OVERRIDDEN" /\ e.scan = s /\ e.about.domain = d
  BY DEF CommitOverride, OverrideEvent
<1>2. Trail("SCORE_OVERRIDDEN", s)' = Trail("SCORE_OVERRIDDEN", s) \cup {K}
  BY <1>0, <1>1, TrailOfKind
<1>3. /\ audit'[K] = e /\ DOMAIN audit = 1 .. Len(audit) /\ Len(audit) \in Nat
      /\ \A i \in DOMAIN audit : audit'[i] = audit[i]
  BY <1>0, <1>1, TrailIsAppended
<1> HIDE DEF e, K
<1>4. \A i \in Trail("SCORE_OVERRIDDEN", s) : i \in DOMAIN audit /\ audit'[i] = audit[i]
  BY <1>3 DEF Trail
<1>5. OverridesOf(s, d)' = OverridesOf(s, d) \cup {K}
  BY <1>1, <1>2, <1>3, <1>4 DEF OverridesOf
<1>6. \A i \in OverridesOf(s, d) : audit'[i] = audit[i] /\ i \in 1 .. Len(audit)
  BY <1>3, <1>4 DEF OverridesOf
<1> QED BY <1>2, <1>3, <1>5, <1>6 DEF e, K

\* The row of a finding changes only by the commit of a review of it.
LEMMA ReviewsChangeByCommit ==
  ASSUME LifecycleInv, [Next]_vars, NEW s \in scans, NEW f \in Findings(s),
         ~(\E m \in Managers : CommitReview(m) /\ op[m].scan = s /\ op[m].finding = f)
  PROVE  findings'[s][f] = findings[s][f]
<1>0. TablesTyped /\ s \in Scans
  BY DEF LifecycleInv, TablesTyped
<1>1. CASE \E r \in Scans : Save(r)
  <2>1. PICK r \in Scans : Save(r)
    BY <1>1
  <2>2. r # s
    BY <2>1, StoredPhases DEF Save, At
  <2> QED BY <1>0, <2>1, <2>2 DEF Save, TablesTyped
<1>2. CASE \E m \in Managers : CommitReview(m)
  BY ZenonT(60), <1>0, <1>2, ReviewIsCommitted
<1>3. CASE UNCHANGED findings
  BY <1>3
<1> QED BY <1>1, <1>2, <1>3, TableCases
        DEF tables, ScoreAndGenerate, Evaluate, Complete, Report, TrailGrows,
            FlushOverride, CommitOverride

\* A finding that is stored in a step is unreviewed.
LEMMA NewFindingsAreUnreviewed ==
  ASSUME LifecycleInv, [Next]_vars, NEW s \in scans' \ scans
  PROVE  /\ \A f \in Findings(s)' : findings'[s][f] = Unreviewed
         /\ \A f : ReviewsOf(s, f)' = {}
<1>0. TablesTyped /\ RowsOfScans
  BY DEF LifecycleInv
<1>1. \E r \in Scans : Save(r) /\ UNCHANGED <<op, ask>>
  BY TableCases DEF tables, ScoreAndGenerate, Evaluate, Complete, Report, TrailGrows,
                    CommitReview, FlushOverride, CommitOverride
<1>2. PICK r \in Scans : Save(r) /\ UNCHANGED op
  BY <1>1
<1>3. s = r /\ audit' = audit
  BY <1>2 DEF Save
<1>4. findings'[s] = [f \in run[s].found |-> Unreviewed]
  BY <1>0, <1>2, <1>3 DEF Save, TablesTyped
<1>5. Trail("FINDING_REVIEWED", s)' = {}
  BY <1>0, <1>3 DEF Trail, RowsOfScans
<1> QED BY <1>4, <1>5 DEF Findings, ReviewsOf

\* Whoever commits a review decides the finding, also when what they submit
\* is what their session had read.
LEMMA CommitDecides ==
  ASSUME LifecycleInv, ReviewsStay, NEW m \in Managers, CommitReview(m),
         NEW s, NEW f, op[m].scan = s, op[m].finding = f
  PROVE  /\ s \in scans /\ f \in Findings(s)
         /\ findings[s][f] \in Review
         /\ op[m].decision.status \in ReviewOutcomes /\ Valid(op[m].decision)
         /\ findings'[s][f] =
              [status |-> Column(op[m].read.status, op[m].decision.status,
                                 findings[s][f].status),
               reviewer |-> Column(op[m].read.reviewer, m, findings[s][f].reviewer)]
         /\ op[m].decision.status = op[m].read.status \/ m = op[m].read.reviewer =>
              findings[s][f].status # "PENDING"
         /\ findings'[s][f].status # "PENDING"
<1>1. /\ s \in scans /\ s \in Scans /\ f \in Findings(s)
      /\ op[m].decision \in Decisions
      /\ findings'[s][f] =
           [status |-> Column(op[m].read.status, op[m].decision.status,
                              findings[s][f].status),
            reviewer |-> Column(op[m].read.reviewer, m, findings[s][f].reviewer)]
  BY ReviewIsCommitted
<1>2. m \in People /\ Step(m, "review_read") /\ op[m].step = "review_read"
  BY DEF CommitReview, Step, People
<1>3. Valid(op[m].decision)
  BY <1>2 DEF LifecycleInv, SessionsTyped, SessionGrounded
<1>4. op[m].decision.status \in ReviewOutcomes
  BY <1>1, GovernanceAssumption
<1>5. op[m].decision.status = op[m].read.status \/ m = op[m].read.reviewer =>
        findings[s][f].status # "PENDING"
  BY <1>2, <1>4, TablesAssumption DEF ReviewsStay, ReviewOutcomes
<1>6. findings[s][f] \in Review
  BY <1>1, ReviewsHaveFindings DEF LifecycleInv
<1> QED BY <1>1, <1>3, <1>4, <1>5, <1>6 DEF Column, ReviewOutcomes

LEMMA CommitShowsReview ==
  ASSUME LifecycleInv, ReviewsStay, NEW m \in Managers, CommitReview(m),
         NEW s, NEW f, op[m].scan = s, op[m].finding = f
  PROVE  /\ findings'[s][f].status \in ReviewOutcomes
         /\ findings'[s][f].reviewer \in Managers
<1>1. PICK old, new, decision : /\ old = findings[s][f] /\ new = findings'[s][f]
                                /\ decision = op[m].decision
  OBVIOUS
<1>2. /\ s \in scans /\ f \in Findings(s) /\ old \in Review
      /\ decision.status \in ReviewOutcomes
      /\ new = [status |-> Column(op[m].read.status, decision.status, old.status),
                reviewer |-> Column(op[m].read.reviewer, m, old.reviewer)]
      /\ decision.status = op[m].read.status \/ m = op[m].read.reviewer =>
           old.status # "PENDING"
  BY <1>1, CommitDecides
<1>3. m = op[m].read.reviewer => old.reviewer # "nobody"
  BY <1>1, <1>2 DEF ReviewsStay
<1>4. new.status \in ReviewOutcomes /\ new.reviewer \in Managers
  BY <1>2, <1>3 DEF Column, Review
<1> QED BY <1>1, <1>4

LEMMA DecidedStays ==
  ASSUME LifecycleInv, ReviewsStay, [Next]_vars, NEW s \in scans, NEW f \in Findings(s),
         findings[s][f].status # "PENDING"
  PROVE  findings'[s][f].status # "PENDING"
<1>1. CASE \E m \in Managers : CommitReview(m) /\ op[m].scan = s /\ op[m].finding = f
  BY ZenonT(60), <1>1, CommitDecides
<1> QED BY <1>1, ReviewsChangeByCommit

LEMMA ReviewsStayStep ==
  ASSUME LifecycleInv, ReviewsStay, [Next]_vars
  PROVE  ReviewsStay'
<1>1. ASSUME NEW s \in scans', NEW f \in Findings(s)'
      PROVE  findings'[s][f].reviewer # "nobody" <=> findings'[s][f].status # "PENDING"
  <2>1. CASE s \notin scans
    BY <1>1, <2>1, NewFindingsAreUnreviewed DEF Unreviewed
  <2>2. CASE s \in scans
    <3>1. f \in Findings(s)
      BY <2>2, NothingIsForgotten
    <3>2. CASE \E m \in Managers : CommitReview(m) /\ op[m].scan = s /\ op[m].finding = f
      <4>1. findings'[s][f].status \in ReviewOutcomes /\ findings'[s][f].reviewer \in Managers
        BY <3>2, CommitShowsReview
      <4> QED BY <4>1, TablesAssumption DEF ReviewOutcomes
    <3>3. CASE findings'[s][f] = findings[s][f]
      BY <1>1, <2>2, <3>1, <3>3 DEF ReviewsStay
    <3> QED BY <2>2, <3>1, <3>2, <3>3, ReviewsChangeByCommit
  <2> QED BY <2>1, <2>2
<1>2. ASSUME NEW m \in People, Step(m, "review_read")'
      PROVE  /\ op'[m].read.reviewer # "nobody" => op'[m].read.status # "PENDING"
             /\ op'[m].read.status # "PENDING" =>
                  findings'[op'[m].scan][op'[m].finding].status # "PENDING"
  <2>1. CASE op'[m] = op[m]
    <3>1. Step(m, "review_read") /\ op[m].step = "review_read"
      BY <1>2, <2>1 DEF Step
    <3>2. op[m].scan \in scans /\ op[m].finding \in Findings(op[m].scan)
      BY <3>1 DEF LifecycleInv, SessionsTyped, SessionGrounded
    <3> QED BY <2>1, <3>1, <3>2, DecidedStays DEF ReviewsStay
  <2>2. CASE m \in Managers /\ ReadFinding(m)
    <3>1. /\ op[m].scan \in scans /\ op[m].finding \in Findings(op[m].scan)
      BY <1>2, <2>2 DEF ReadFinding, Step, LifecycleInv, SessionsTyped, SessionGrounded
    <3>2. op'[m] = [step |-> "review_read", scan |-> op[m].scan,
                    finding |-> op[m].finding, decision |-> op[m].decision,
                    read |-> findings[op[m].scan][op[m].finding]]
      BY <1>2, <2>2 DEF ReadFinding, Become, LifecycleInv, SessionsTyped
    <3>3. findings' = findings
      BY <2>2 DEF ReadFinding, tables
    <3>4. PICK s, f, row, next : /\ s = op[m].scan /\ f = op[m].finding
                                 /\ row = findings[s][f] /\ next = op'[m]
      OBVIOUS
    <3>5. /\ next.scan = s /\ next.finding = f /\ next.read = row
          /\ findings'[s][f] = row
      BY <3>2, <3>3, <3>4
    <3>6. row.reviewer # "nobody" <=> row.status # "PENDING"
      BY <3>1, <3>4 DEF ReviewsStay
    <3>7. /\ next.read.reviewer # "nobody" => next.read.status # "PENDING"
          /\ next.read.status # "PENDING" =>
               findings'[next.scan][next.finding].status # "PENDING"
      BY <3>5, <3>6
    <3> QED BY <3>4, <3>7
  <2> QED BY <1>2, <2>1, <2>2, SessionCameTo
<1> QED BY <1>1, <1>2 DEF ReviewsStay

\* What a finding shows, and that it shows anything, is of the trail.
Accounted(s, f) ==
  LET review == findings[s][f]
      Recorded == {audit[i] : i \in ReviewsOf(s, f)}
  IN /\ (review.status = "PENDING") <=> (Recorded = {})
     /\ Recorded # {} =>
          /\ \E e \in Recorded : e.actor = review.reviewer
          /\ \E e \in Recorded : /\ e.about.decision.status = review.status
                                 /\ review.status = "OVERRIDDEN"
                                      => e.about.decision.reasoned

LEMMA ReviewIsAccountedForStep ==
  ASSUME LifecycleInv, ReviewsStay, ReviewIsAccountedFor, [Next]_vars
  PROVE  ReviewIsAccountedFor'
<1>0. \A s \in scans : \A f \in Findings(s) : Accounted(s, f)
  BY DEF ReviewIsAccountedFor, Accounted
<1>1. ASSUME NEW s \in scans', NEW f \in Findings(s)'
      PROVE  Accounted(s, f)'
  <2>1. CASE s \notin scans
    BY <1>1, <2>1, NewFindingsAreUnreviewed DEF Accounted, Unreviewed
  <2>2. CASE s \in scans
    <3>1. f \in Findings(s) /\ Accounted(s, f)
      BY <1>0, <2>2, NothingIsForgotten
    <3>2. CASE ~(\E m \in Managers : CommitReview(m) /\ op[m].scan = s
                                       /\ op[m].finding = f)
      <4>1. findings'[s][f] = findings[s][f]
        BY <2>2, <3>1, <3>2, ReviewsChangeByCommit
      <4>2. ReviewsOf(s, f)' = ReviewsOf(s, f)
            /\ \A i \in ReviewsOf(s, f) : audit'[i] = audit[i]
        BY <3>2, DecisionsStayOnTrail DEF ReviewsOf
      <4>3. {audit[i] : i \in ReviewsOf(s, f)}' = {audit[i] : i \in ReviewsOf(s, f)}
        BY <4>2
      <4> QED BY <3>1, <4>1, <4>3 DEF Accounted
    <3>3. CASE \E m \in Managers : CommitReview(m) /\ op[m].scan = s /\ op[m].finding = f
      <4>1. PICK m \in Managers : CommitReview(m) /\ op[m].scan = s /\ op[m].finding = f
        BY <3>3
      <4> DEFINE Recorded == {audit[i] : i \in ReviewsOf(s, f)}
                 e == ReviewEvent(m)
                 old == findings[s][f]
                 new == findings'[s][f]
                 decision == op[m].decision
      <4>2. /\ ReviewsOf(s, f)' = ReviewsOf(s, f) \cup {Len(audit) + 1}
            /\ audit'[Len(audit) + 1] = e
            /\ \A i \in ReviewsOf(s, f) : audit'[i] = audit[i]
        BY SMTT(30), <4>1, ReviewIsRecorded
      <4>3. {audit[i] : i \in ReviewsOf(s, f)}' = Recorded \cup {e}
        BY <4>2
      <4>4. /\ old \in Review /\ decision.status \in ReviewOutcomes /\ Valid(decision)
            /\ new = [status |-> Column(op[m].read.status, decision.status, old.status),
                      reviewer |-> Column(op[m].read.reviewer, m, old.reviewer)]
            /\ decision.status = op[m].read.status \/ m = op[m].read.reviewer =>
                 old.status # "PENDING"
            /\ new.status # "PENDING"
        BY <4>1, CommitDecides
      <4>5. e.actor = m /\ e.about.decision = decision
        BY DEF ReviewEvent
      <4>6. old.status # "PENDING" =>
              /\ \E x \in Recorded : x.actor = old.reviewer
              /\ \E x \in Recorded : /\ x.about.decision.status = old.status
                                     /\ old.status = "OVERRIDDEN"
                                          => x.about.decision.reasoned
        BY <3>1 DEF Accounted
      <4> HIDE DEF Recorded, e, old, decision
      <4>7. \E x \in Recorded \cup {e} : x.actor = new.reviewer
        BY <4>4, <4>5, <4>6 DEF Column
      <4>8. \E x \in Recorded \cup {e} : /\ x.about.decision.status = new.status
                                         /\ new.status = "OVERRIDDEN"
                                              => x.about.decision.reasoned
        BY <4>4, <4>5, <4>6 DEF Column, Valid
      <4> QED BY <4>3, <4>4, <4>7, <4>8 DEF Accounted
    <3> QED BY <3>2, <3>3
  <2> QED BY <2>1, <2>2
<1> QED BY <1>1 DEF ReviewIsAccountedFor, Accounted

(***************************************************************************)
(* Overrides.                                                              *)
(***************************************************************************)
\* An override that is recorded as it is committed keeps them one to one.
LEMMA OverridesOnTrailGrow ==
  ASSUME OverridesOnTrail, NEW new, NEW K, NEW e,
         scans' = scans, scores' = scores \cup {new}, new.overrideOf # NoScore,
         \A row \in scores : row.at # new.at,
         e.about.new = new.at, e.about.original = new.overrideOf,
         e.about.domain = new.domain, audit'[K] = e,
         \A s : Trail("SCORE_OVERRIDDEN", s)' =
                  Trail("SCORE_OVERRIDDEN", s) \cup (IF s = new.scan THEN {K} ELSE {}),
         \A s : \A i \in Trail("SCORE_OVERRIDDEN", s) :
           audit'[i] = audit[i] /\ s \in scans /\ i # K
  PROVE  OverridesOnTrail'
<1>1. ASSUME NEW s, NEW d
      PROVE  OverridesOf(s, d)' = OverridesOf(s, d) \cup
               (IF s = new.scan /\ d = new.domain THEN {K} ELSE {})
  BY DEF OverridesOf
<1>2. ASSUME NEW s \in scans', NEW i \in Trail("SCORE_OVERRIDDEN", s)'
      PROVE  OverrideHasRow(s, i)'
  <2>1. CASE i \in Trail("SCORE_OVERRIDDEN", s)
    <3>1. OverrideHasRow(s, i) /\ audit'[i] = audit[i]
      BY <2>1 DEF OverridesOnTrail
    <3> QED BY <3>1 DEF OverrideHasRow, ScoresOf, RecordedAt
  <2>2. CASE i = K /\ s = new.scan
    BY <2>2 DEF OverrideHasRow, ScoresOf, RecordedAt
  <2> QED BY <1>2, <2>1, <2>2
<1>3. ASSUME NEW row \in scores', row.overrideOf # NoScore
      PROVE  RowHasOverride(row)'
  <2>0. \A i \in OverridesOf(row.scan, row.domain) :
          /\ audit'[i] = audit[i] /\ i # K
          /\ \E old \in scores : RecordedAt(i, old)
    BY DEF OverridesOf, OverridesOnTrail, OverrideHasRow, ScoresOf
  <2>1. CASE row \in scores
    <3>1. PICK i \in OverridesOf(row.scan, row.domain) :
            /\ RecordedAt(i, row)
            /\ \A j \in OverridesOf(row.scan, row.domain) : RecordedAt(j, row) => j = i
      BY <1>3, <2>1 DEF OverridesOnTrail, RowHasOverride
    <3>2. \A j \in OverridesOf(row.scan, row.domain)' :
            j \in OverridesOf(row.scan, row.domain) \/ j = K
      BY <1>1
    <3>3. ~RecordedAt(K, row)'
      BY <2>1 DEF RecordedAt
    <3>4. i \in OverridesOf(row.scan, row.domain)'
      BY <1>1, <3>1
    <3> QED BY <2>0, <3>1, <3>2, <3>3, <3>4 DEF RowHasOverride, RecordedAt
  <2>2. CASE row = new
    <3>1. K \in OverridesOf(row.scan, row.domain)' /\ RecordedAt(K, row)'
      BY <1>1, <2>2 DEF RecordedAt
    <3>2. ASSUME NEW j \in OverridesOf(row.scan, row.domain)
          PROVE  ~RecordedAt(j, row)'
      <4>1. PICK old \in scores : RecordedAt(j, old)
        BY <2>0, <3>2
      <4> QED BY <2>0, <2>2, <3>2, <4>1 DEF RecordedAt
    <3>3. \A j \in OverridesOf(row.scan, row.domain)' :
            j \in OverridesOf(row.scan, row.domain) \/ j = K
      BY <1>1
    <3> QED BY <3>1, <3>2, <3>3 DEF RowHasOverride
  <2> QED BY <2>1, <2>2
<1> QED BY <1>2, <1>3 DEF OverridesOnTrail

LEMMA OneCommitAtATime ==
  ASSUME LifecycleInv, NEW m \in Managers, CommitOverride(m),
         NEW n \in Managers, CommitOverride(n)
  PROVE  n = m
<1>1. /\ op' = [op EXCEPT ![n] = Idle] /\ op' = [op EXCEPT ![m] = Idle]
      /\ op[n].step = "override_flushed" /\ op \in [People -> Op]
      /\ n \in People /\ m \in People
  BY DEF CommitOverride, Become, Step, People, LifecycleInv, SessionsTyped
<1> QED BY <1>1 DEF Idle

LEMMA OverridesOnTrailStep ==
  ASSUME LifecycleInv, OverridesOnTrail, [Next]_vars
  PROVE  OverridesOnTrail'
<1>0. /\ scores \subseteq scores' /\ scans \subseteq scans'
      /\ \A s : Trail("SCORE_OVERRIDDEN", s) # {} => s \in scans
      /\ \A s : \A i \in Trail("SCORE_OVERRIDDEN", s) :
           i \in DOMAIN audit /\ audit'[i] = audit[i]
  BY NothingIsForgotten DEF Trail, LifecycleInv, RowsOfScans
<1>1. CASE ~(\E m \in Managers : CommitOverride(m))
  <2>1. \A s : Trail("SCORE_OVERRIDDEN", s)' = Trail("SCORE_OVERRIDDEN", s)
    BY <1>1, TrailCases
  <2>2. \A s, d : OverridesOf(s, d)' = OverridesOf(s, d)
    BY <1>0, <2>1 DEF OverridesOf
  <2>3. \A row \in scores' : row.overrideOf # NoScore => row \in scores
    <3>1. CASE \E r \in Scans : ScoreAndGenerate(r)
      BY <3>1, NewRowsTyped
    <3>2. CASE scores' = scores
      BY <3>2
    <3> QED BY <1>1, <3>1, <3>2, TableCases
            DEF tables, Save, Evaluate, Complete, Report, TrailGrows, CommitReview,
                FlushOverride
  <2>4. ASSUME NEW s \in scans', NEW i \in Trail("SCORE_OVERRIDDEN", s)'
        PROVE  OverrideHasRow(s, i)'
    <3>1. i \in Trail("SCORE_OVERRIDDEN", s) /\ audit'[i] = audit[i] /\ s \in scans
      BY <1>0, <2>1, <2>4
    <3>2. OverrideHasRow(s, i)
      BY <3>1 DEF OverridesOnTrail
    <3> QED BY <1>0, <3>1, <3>2 DEF OverrideHasRow, ScoresOf, RecordedAt
  <2>5. ASSUME NEW row \in scores', row.overrideOf # NoScore
        PROVE  RowHasOverride(row)'
    <3>1. \A i \in OverridesOf(row.scan, row.domain) : audit'[i] = audit[i]
      BY <1>0 DEF OverridesOf
    <3>2. RowHasOverride(row)
      BY <2>3, <2>5 DEF OverridesOnTrail
    <3> QED BY <2>2, <3>1, <3>2 DEF RowHasOverride, RecordedAt
  <2> QED BY <2>4, <2>5 DEF OverridesOnTrail
<1>2. CASE \E m \in Managers : CommitOverride(m)
  <2>1. PICK m \in Managers : CommitOverride(m)
    BY <1>2
  <2>2. PICK new : new = op[m].row
    OBVIOUS
  <2>3. PICK e : e = OverrideEvent(m)
    OBVIOUS
  <2>4. PICK K : K = Len(audit) + 1
    OBVIOUS
  <2>5. /\ scores' = scores \cup {new} /\ new.overrideOf # NoScore
        /\ \A row \in scores : row.at # new.at
        /\ op[m].original.at = new.overrideOf
    BY <2>1, <2>2, OverrideIsCommitted
  <2>6. /\ e.about.new = new.at /\ e.about.original = new.overrideOf
        /\ e.about.domain = new.domain
    BY <2>2, <2>3, <2>5 DEF OverrideEvent
  <2>7. /\ audit'[K] = e
        /\ Trail("SCORE_OVERRIDDEN", new.scan)'
             = Trail("SCORE_OVERRIDDEN", new.scan) \cup {K}
    BY <2>1, <2>2, <2>3, <2>4, OverrideIsRecorded
  <2>8. ASSUME NEW s, s # new.scan
        PROVE  Trail("SCORE_OVERRIDDEN", s)' = Trail("SCORE_OVERRIDDEN", s)
    BY <2>1, <2>2, <2>8, TrailCases, OneCommitAtATime
  <2>9. \A i \in DOMAIN audit : i # K
    <3>1. DOMAIN audit = 1 .. Len(audit) /\ Len(audit) \in Nat
      BY LenProperties DEF LifecycleInv, TablesTyped
    <3> QED BY <2>4, <3>1
  <2>10. scans' = scans
    BY <2>1 DEF CommitOverride
  <2>11. \A s : Trail("SCORE_OVERRIDDEN", s)' =
                  Trail("SCORE_OVERRIDDEN", s) \cup (IF s = new.scan THEN {K} ELSE {})
    BY <2>7, <2>8
  <2>12. \A s : \A i \in Trail("SCORE_OVERRIDDEN", s) :
           audit'[i] = audit[i] /\ s \in scans /\ i # K
    BY <1>0, <2>9
  <2> QED BY <2>5, <2>6, <2>7, <2>10, <2>11, <2>12, OverridesOnTrailGrow
<1> QED BY <1>1, <1>2

(***************************************************************************)
(* The finalization check.                                                 *)
(***************************************************************************)
\* The score rows of a scan change as the engine scores it, once, and by an
\* override of one of them.
LEMMA ScoresChange ==
  ASSUME LifecycleInv, [Next]_vars, NEW s \in Scans
  PROVE  \/ \A d : ScoresOf(s, d)' = ScoresOf(s, d)
         \/ ScoreAndGenerate(s) /\ RowsOf(s) = {} /\ UNCHANGED <<op, ask>>
         \/ \E m \in Managers : CommitOverride(m) /\ op[m].row.scan = s
<1>1. CASE \E r \in Scans : ScoreAndGenerate(r) /\ UNCHANGED <<op, ask>>
  <2>1. PICK r \in Scans : ScoreAndGenerate(r) /\ UNCHANGED <<op, ask>>
    BY <1>1
  <2>2. CASE r = s
    BY <2>1, <2>2, EngineScoresFirst
  <2>3. CASE r # s
    BY <2>1, <2>3, NewRowsTyped, NothingIsForgotten DEF ScoresOf
  <2> QED BY <2>2, <2>3
<1>2. CASE \E m \in Managers : CommitOverride(m)
  <2>1. PICK m \in Managers : CommitOverride(m)
    BY <1>2
  <2>2. scores' = scores \cup {op[m].row}
    BY <2>1, OverrideIsCommitted
  <2>3. PICK new : new = op[m].row
    OBVIOUS
  <2>4. CASE new.scan # s
    BY <2>2, <2>3, <2>4 DEF ScoresOf
  <2> QED BY <2>1, <2>3, <2>4
<1>3. CASE scores' = scores
  BY <1>3 DEF ScoresOf
<1> QED BY <1>1, <1>2, <1>3, TableCases
        DEF tables, Save, Evaluate, Complete, Report, TrailGrows, CommitReview,
            FlushOverride

LEMMA CategoriesOf ==
  ASSUME NEW s, \A d : ScoresOf(s, d)' = ScoresOf(s, d)
  PROVE  LatestCategories(s)' = LatestCategories(s)
BY DEF LatestCategories, LatestScore, ScoredDomains

LEMMA NoCategories ==
  ASSUME NEW s, RowsOf(s) = {}
  PROVE  ScoredDomains(s) = {} /\ LatestCategories(s) = <<>>
<1>1. ScoredDomains(s) = {}
  BY DEF ScoredDomains, ScoresOf, RowsOf
<1> QED BY <1>1 DEF LatestCategories

LEMMA CheckReadStays ==
  ASSUME LifecycleInv, [Next]_vars, NEW s \in Scans, NEW read, NEW position \in Nat,
         CheckRead(s, read, position)
  PROVE  CheckRead(s, read, position)'
<1>0. /\ Len(audit) \in Nat /\ Len(audit') \in Nat /\ Len(audit) <= Len(audit')
      /\ position <= Len(audit)
  BY NothingIsForgotten DEF CheckRead
<1>1. ASSUME NEW m \in Managers, CommitOverride(m), op[m].row.scan = s
      PROVE  OverriddenSince(s, position)'
  <2>1. Len(audit) + 1 \in Trail("SCORE_OVERRIDDEN", s)'
    BY <1>1, OverrideIsRecorded
  <2>2. Len(audit) + 1 > position
    BY <1>0
  <2> QED BY <2>1, <2>2 DEF OverriddenSince
<1>2. CASE ~(\E m \in Managers : CommitOverride(m) /\ op[m].row.scan = s)
  <2>1. OverriddenSince(s, position) => OverriddenSince(s, position)'
    BY <1>2, TrailCases DEF OverriddenSince
  <2>2. CASE \A d : ScoresOf(s, d)' = ScoresOf(s, d)
    BY <1>0, <2>1, <2>2, CategoriesOf DEF CheckRead
  <2>3. CASE RowsOf(s) = {}
    BY <1>0, <2>1, <2>3, NoCategories DEF CheckRead
  <2> QED BY <1>2, <2>2, <2>3, ScoresChange
<1> QED BY <1>0, <1>1, <1>2 DEF CheckRead

LEMMA ChecksReadStep ==
  ASSUME LifecycleInv, ChecksRead, [Next]_vars
  PROVE  ChecksRead'
<1>1. SUFFICES ASSUME NEW m \in People, Step(m, "check_started")',
                      NEW s, s = op'[m].scan, NEW position, position = op'[m].trail,
                      NEW read, read = op'[m].read
      PROVE  CheckRead(s, read, position)'
  BY DEF ChecksRead, CheckRead
<1>2. CASE op'[m] = op[m]
  <2>1. /\ Step(m, "check_started") /\ op[m].step = "check_started"
    BY <1>1, <1>2 DEF Step
  <2>2. s \in Scans /\ position \in Nat
    BY <1>1, <1>2, <2>1, SessionParts
  <2>3. CheckRead(s, read, position)
    BY <1>1, <1>2, <2>1 DEF ChecksRead
  <2> QED BY <2>2, <2>3, CheckReadStays
<1>3. CASE m \in Viewers /\ CheckScores(m)
  <2>1. PICK scan \in scans :
          Become(m, [step |-> "check_started", scan |-> scan,
                     read |-> LatestCategories(scan), trail |-> Len(audit)])
    BY <1>3 DEF CheckScores
  <2>2. op'[m] = [step |-> "check_started", scan |-> scan,
                  read |-> LatestCategories(scan), trail |-> Len(audit)]
    BY <2>1 DEF Become, LifecycleInv, SessionsTyped
  <2>3. s = scan /\ read = LatestCategories(s) /\ position = Len(audit)
    BY <1>1, <2>2
  <2>4. UNCHANGED tables
    BY <1>3 DEF CheckScores
  <2>5. LatestCategories(s)' = LatestCategories(s)
    BY <2>4, CategoriesOf DEF tables, ScoresOf
  <2>6. Len(audit) \in Nat /\ audit' = audit
    BY <2>4, NothingIsForgotten DEF tables
  <2> QED BY <2>3, <2>5, <2>6 DEF CheckRead
<1> QED BY <1>1, <1>2, <1>3, SessionCameTo

(***************************************************************************)
(* Theorems.                                                               *)
(***************************************************************************)
LEMMA DecisionsInvInit == Init => DecisionsInv
<1> SUFFICES ASSUME Init PROVE DecisionsInv
  OBVIOUS
<1>1. LifecycleInv
  BY LifecycleInvInit
<1>2. /\ scans = {} /\ scores = {}
      /\ \A m \in People : op[m].step = "idle"
  BY IdleIsTyped DEF Init, PipelineInit, GovernanceInit
<1> QED BY <1>1, <1>2
        DEF DecisionsInv, ReviewsStay, ReviewIsAccountedFor, OverridesOnTrail,
            ChecksRead, Step

LEMMA DecisionsInvStep ==
  ASSUME DecisionsInv, [Next]_vars
  PROVE  DecisionsInv'
<1>1. LifecycleInv'
  BY TablesTypedStep, RowsOfScansStep, RunsTypedStep, SessionsTypedStep,
     PagesTypedStep, ProgressStep, CompletionStep, ScoresOrderedStep,
     OverridesOrderedStep DEF LifecycleInv, DecisionsInv
<1> QED BY <1>1, ReviewsStayStep, ReviewIsAccountedForStep, OverridesOnTrailStep,
           ChecksReadStep DEF DecisionsInv

\* At all times a finding that names a reviewer is decided, the trail has
\* what the reviews and the override rows show, and what a check has read is
\* in force unless an override has come since.
THEOREM DecisionsInvariant == Spec => []DecisionsInv
<1>1. DecisionsInv /\ [Next]_vars => DecisionsInv'
  BY DecisionsInvStep
<1> QED BY DecisionsInvInit, <1>1, PTL DEF Spec

\* A finding is pending exactly while no review of it is on the trail, and
\* what it shows is of reviews on the trail, however reviews overlap.
THEOREM ReviewIsAlwaysAccountedFor == Spec => []ReviewIsAccountedFor
<1>1. DecisionsInv => ReviewIsAccountedFor
  BY DEF DecisionsInv
<1> QED BY DecisionsInvariant, <1>1, PTL

\* Each override row is on the trail once and overrides an earlier row of
\* the same domain, however overrides overlap with each other and with runs.
THEOREM VerdictIsAlwaysAccountedFor == Spec => []VerdictIsAccountedFor
<1>1. ASSUME DecisionsInv PROVE VerdictIsAccountedFor
  <2> SUFFICES ASSUME NEW row \in scores, row.overrideOf # NoScore
      PROVE /\ Cardinality({i \in OverridesOf(row.scan, row.domain) :
                              /\ audit[i].about.new = row.at
                              /\ audit[i].about.original = row.overrideOf}) = 1
            /\ \E original \in ScoresOf(row.scan, row.domain) :
                 original.at = row.overrideOf /\ original.at < row.at
    BY DEF VerdictIsAccountedFor
  <2> DEFINE Positions == {i \in OverridesOf(row.scan, row.domain) :
                             /\ audit[i].about.new = row.at
                             /\ audit[i].about.original = row.overrideOf}
  <2>1. RowHasOverride(row)
    BY <1>1 DEF DecisionsInv, OverridesOnTrail
  <2>2. PICK i : Positions = {i}
    BY <2>1 DEF RowHasOverride, RecordedAt
  <2>3. Cardinality(Positions) = 1
    BY <2>2, FS_Singleton
  <2>4. \E original \in ScoresOf(row.scan, row.domain) : original.at = row.overrideOf
    BY <1>1 DEF DecisionsInv, LifecycleInv, ScoresOrdered
  <2>5. row.overrideOf < row.at
    BY <1>1 DEF DecisionsInv, LifecycleInv, ScoresOrdered
  <2> QED BY <2>3, <2>4, <2>5
<1> QED BY DecisionsInvariant, <1>1, PTL

\* No check says of a scored assessment that it can be finalized while a
\* domain at risk has a pending finding, unless a score was overridden after
\* the check had read the scores.
THEOREM SignOffIsAlwaysRight == Spec => SignOffIsRight
<1>1. DecisionsInv /\ [Next]_vars =>
        [\A m \in Viewers :
           CheckFindings(m) /\ op'[m].can /\ op[m].read # <<>>
             => \/ CanFinalize(op[m].scan, LatestCategories(op[m].scan))
                \/ OverriddenSince(op[m].scan, op[m].trail)]_vars
  <2> SUFFICES ASSUME DecisionsInv, NEW m \in Viewers, CheckFindings(m), op'[m].can,
                      op[m].read # <<>>
      PROVE  \/ CanFinalize(op[m].scan, LatestCategories(op[m].scan))
             \/ OverriddenSince(op[m].scan, op[m].trail)
    OBVIOUS
  <2>1. m \in People /\ Step(m, "check_started")
    BY DEF People, CheckFindings
  <2>2. CheckRead(op[m].scan, op[m].read, op[m].trail)
    BY <2>1 DEF DecisionsInv, ChecksRead
  <2>3. op'[m] = [step |-> "check_answered", can |-> CanFinalize(op[m].scan, op[m].read)]
    BY <2>1 DEF CheckFindings, Become, DecisionsInv, LifecycleInv, SessionsTyped
  <2>4. CanFinalize(op[m].scan, op[m].read)
    BY <2>3
  <2> QED BY <2>2, <2>4 DEF CheckRead
<1> QED BY DecisionsInvariant, <1>1, PTL DEF Spec, SignOffIsRight

(***************************************************************************)
(* Decisions on one subject whose transactions do not overlap.             *)
(***************************************************************************)
\* A session that has read a finding has what the finding still shows.
ReadsCurrent ==
  \A m \in Managers : Step(m, "review_read") =>
    \A s \in {op[m].scan}, f \in {op[m].finding} : op[m].read = findings[s][f]

LastReview(s, f, i) ==
  /\ i \in ReviewsOf(s, f) /\ \A j \in ReviewsOf(s, f) : j <= i
  /\ findings[s][f] = [status |-> audit[i].about.decision.status,
                       reviewer |-> audit[i].actor]

ReviewInForce ==
  \A s \in scans : \A f \in Findings(s) :
    ReviewsOf(s, f) # {} => \E i \in ReviewsOf(s, f) : LastReview(s, f, i)

\* A row that is inserted and not committed is later than those that are.
FlushedIsLatest ==
  \A m \in Managers : Step(m, "override_flushed") =>
    \A s \in {op[m].row.scan}, d \in {op[m].row.domain} :
      \A row \in ScoresOf(s, d) : row.at < op[m].row.at

LastOverride(s, d, i) ==
  /\ i \in OverridesOf(s, d) /\ \A j \in OverridesOf(s, d) : j <= i
  /\ \A row \in ScoresOf(s, d) : row.at <= audit[i].about.new

OverrideInForce ==
  \A s \in scans : \A d \in Domains :
    OverridesOf(s, d) # {} => \E i \in OverridesOf(s, d) : LastOverride(s, d, i)

ExclusiveInv ==
  /\ DecisionsInv
  /\ NoOverlap
  /\ ReadsCurrent
  /\ ReviewInForce
  /\ FlushedIsLatest
  /\ OverrideInForce

\* Who has read a finding commits alone; nobody else has the finding then.
LEMMA NoOtherReview ==
  ASSUME LifecycleInv, NoOverlap, NEW m \in Managers, Step(m, "review_read"),
         NEW n \in Managers, CommitReview(n),
         op[n].scan = op[m].scan, op[n].finding = op[m].finding
  PROVE  n = m
<1>1. op[n].step = "review_read" /\ op[m].step = "review_read"
  BY DEF CommitReview, Step
<1>2. Subject(n) = Subject(m) /\ Subject(m) # {}
  BY <1>1 DEF Subject
<1> QED BY <1>2 DEF NoOverlap

LEMMA ReadsCurrentStep ==
  ASSUME LifecycleInv, NoOverlap, ReadsCurrent, [Next]_vars
  PROVE  ReadsCurrent'
<1>1. SUFFICES ASSUME NEW m \in Managers, Step(m, "review_read")',
                      NEW s, s = op'[m].scan, NEW f, f = op'[m].finding,
                      NEW read, read = op'[m].read
      PROVE  read = findings'[s][f]
  BY DEF ReadsCurrent
<1>2. m \in People
  BY DEF People
<1>3. CASE op'[m] = op[m]
  <2>1. Step(m, "review_read") /\ op[m].step = "review_read"
    BY <1>1, <1>3 DEF Step
  <2>2. s \in scans /\ f \in Findings(s)
    BY <1>1, <1>2, <1>3, <2>1 DEF LifecycleInv, SessionsTyped, SessionGrounded
  <2>3. read = findings[s][f]
    BY <1>1, <1>3, <2>1 DEF ReadsCurrent
  <2>4. ~(\E n \in Managers : CommitReview(n) /\ op[n].scan = s /\ op[n].finding = f)
    <3>1. ASSUME CommitReview(m) PROVE FALSE
      <4>1. op'[m] = Idle
        BY <1>2, <3>1 DEF CommitReview, Become, LifecycleInv, SessionsTyped
      <4> QED BY <1>3, <2>1, <4>1 DEF Idle
    <3> QED BY <1>1, <1>3, <2>1, <3>1, NoOtherReview
  <2> QED BY <2>2, <2>3, <2>4, ReviewsChangeByCommit
<1>4. CASE ReadFinding(m)
  <2>1. op'[m] = [step |-> "review_read", scan |-> op[m].scan,
                  finding |-> op[m].finding, decision |-> op[m].decision,
                  read |-> findings[op[m].scan][op[m].finding]]
    BY <1>2, <1>4 DEF ReadFinding, Become, LifecycleInv, SessionsTyped
  <2>2. findings' = findings
    BY <1>4 DEF ReadFinding, tables
  <2> QED BY <1>1, <2>1, <2>2
<1> QED BY <1>1, <1>2, <1>3, <1>4, SessionCameTo

LEMMA ReviewInForceStep ==
  ASSUME LifecycleInv, ReadsCurrent, ReviewInForce, [Next]_vars
  PROVE  ReviewInForce'
<1>1. SUFFICES ASSUME NEW s \in scans', NEW f \in Findings(s)', ReviewsOf(s, f)' # {}
      PROVE  \E i : LastReview(s, f, i)'
  BY DEF ReviewInForce, LastReview
<1>2. CASE s \notin scans
  BY <1>1, <1>2, NewFindingsAreUnreviewed
<1>3. CASE s \in scans
  <2>1. f \in Findings(s)
    BY <1>3, NothingIsForgotten
  <2>2. CASE ~(\E m \in Managers : CommitReview(m) /\ op[m].scan = s /\ op[m].finding = f)
    <3>1. /\ findings'[s][f] = findings[s][f]
          /\ ReviewsOf(s, f)' = ReviewsOf(s, f)
      BY <1>3, <2>1, <2>2, ReviewsChangeByCommit, DecisionsStayOnTrail
    <3>2. \A i \in ReviewsOf(s, f) : audit'[i] = audit[i]
      BY DecisionsStayOnTrail DEF ReviewsOf
    <3>3. PICK i \in ReviewsOf(s, f) : LastReview(s, f, i)
      BY <1>1, <1>3, <2>1, <3>1 DEF ReviewInForce
    <3> QED BY <3>1, <3>2, <3>3 DEF LastReview
  <2>3. CASE \E m \in Managers : CommitReview(m) /\ op[m].scan = s /\ op[m].finding = f
    <3>1. PICK m \in Managers : CommitReview(m) /\ op[m].scan = s /\ op[m].finding = f
      BY <2>3
    <3>2. PICK K : K = Len(audit) + 1
      OBVIOUS
    <3>3. PICK e : e = ReviewEvent(m)
      OBVIOUS
    <3>4. /\ ReviewsOf(s, f)' = ReviewsOf(s, f) \cup {K} /\ audit'[K] = e
          /\ \A j \in ReviewsOf(s, f) : j \in 1 .. Len(audit)
          /\ Len(audit) \in Nat
      BY <3>1, <3>2, <3>3, ReviewIsRecorded
    <3>5. e.actor = m /\ e.about.decision = op[m].decision
      BY <3>3 DEF ReviewEvent
    <3>6. op[m].read = findings[s][f]
      BY <3>1 DEF ReadsCurrent, CommitReview
    <3>7. findings'[s][f] = [status |-> op[m].decision.status, reviewer |-> m]
      <4>1. findings'[s][f] =
              [status |-> Column(op[m].read.status, op[m].decision.status,
                                 findings[s][f].status),
               reviewer |-> Column(op[m].read.reviewer, m, findings[s][f].reviewer)]
        BY <3>1, ReviewIsCommitted
      <4> QED BY <3>6, <4>1 DEF Column
    <3>8. \A j \in ReviewsOf(s, f)' : j <= K
      BY <3>2, <3>4
    <3> QED BY <3>4, <3>5, <3>7, <3>8 DEF LastReview
  <2> QED BY <2>2, <2>3
<1> QED BY <1>2, <1>3

\* The rows of a score change by a commit of their own.
LEMMA ScoresOfDomainChange ==
  ASSUME LifecycleInv, [Next]_vars, NEW s \in Scans, NEW d
  PROVE  \/ ScoresOf(s, d)' = ScoresOf(s, d)
         \/ ScoresOf(s, d) = {} /\ RowsOf(s) = {}
         \/ \E m \in Managers : CommitOverride(m) /\ op[m].row.scan = s
                                  /\ op[m].row.domain = d
<1>1. CASE \E m \in Managers : CommitOverride(m) /\ op[m].row.scan = s
  <2>1. PICK m \in Managers : CommitOverride(m) /\ op[m].row.scan = s
    BY <1>1
  <2>2. PICK new : new = op[m].row
    OBVIOUS
  <2>3. scores' = scores \cup {new}
    BY <2>1, <2>2, OverrideIsCommitted
  <2> QED BY <2>1, <2>2, <2>3 DEF ScoresOf
<1>2. CASE RowsOf(s) = {}
  BY <1>2 DEF RowsOf, ScoresOf
<1> QED BY <1>1, <1>2, ScoresChange

LEMMA NoOtherOverride ==
  ASSUME LifecycleInv, OverridesOrdered, NoOverlap,
         NEW m \in Managers, Step(m, "override_flushed"),
         NEW n \in Managers, CommitOverride(n),
         op[n].row.scan = op[m].row.scan, op[n].row.domain = op[m].row.domain
  PROVE  n = m
<1>1. /\ op[n].step = "override_flushed" /\ op[m].step = "override_flushed"
      /\ m \in People /\ n \in People
  BY DEF CommitOverride, Step, People
<1>2. /\ op[n].original.scan = op[n].row.scan /\ op[n].original.domain = op[n].row.domain
      /\ op[m].original.scan = op[m].row.scan /\ op[m].original.domain = op[m].row.domain
  BY <1>1 DEF OverridesOrdered, Step
<1>3. Subject(n) = Subject(m) /\ Subject(m) # {}
  BY <1>1, <1>2 DEF Subject
<1> QED BY <1>3 DEF NoOverlap

LEMMA FlushedIsLatestStep ==
  ASSUME LifecycleInv, NoOverlap, FlushedIsLatest, [Next]_vars
  PROVE  FlushedIsLatest'
<1>1. SUFFICES ASSUME NEW m \in Managers, Step(m, "override_flushed")',
                      NEW s, s = op'[m].row.scan, NEW d, d = op'[m].row.domain,
                      NEW at, at = op'[m].row.at
      PROVE  \A row \in ScoresOf(s, d)' : row.at < at
  BY DEF FlushedIsLatest
<1>2. m \in People /\ ScoresOrdered /\ OverridesOrdered /\ op \in [People -> Op]
  BY DEF People, LifecycleInv, SessionsTyped
<1>3. CASE op'[m] = op[m]
  <2>1. Step(m, "override_flushed") /\ op[m].step = "override_flushed"
    BY <1>1, <1>3 DEF Step
  <2>2. /\ op[m].original \in scores
        /\ op[m].original.scan = s /\ op[m].original.domain = d
    BY <1>1, <1>2, <1>3, <2>1
       DEF LifecycleInv, SessionsTyped, SessionGrounded, OverridesOrdered
  <2>3. s \in Scans /\ RowsOf(s) # {}
    BY <2>2 DEF RowsOf, LifecycleInv, TablesTyped, ScoreRow
  <2>4. \A row \in ScoresOf(s, d) : row.at < at
    BY <1>1, <1>3, <2>1 DEF FlushedIsLatest
  <2>5. ~(\E n \in Managers : CommitOverride(n) /\ op[n].row.scan = s
                                /\ op[n].row.domain = d)
    <3>1. ASSUME CommitOverride(m) PROVE FALSE
      <4>1. op'[m] = Idle
        BY <1>2, <3>1 DEF CommitOverride, Become
      <4> QED BY <1>3, <2>1, <4>1 DEF Idle
    <3> QED BY <1>1, <1>2, <1>3, <2>1, <3>1, NoOtherOverride
  <2> QED BY <2>3, <2>4, <2>5, ScoresOfDomainChange
<1>4. CASE FlushOverride(m)
  <2>1. op[m].original \in ScoreRow
    BY <1>2, <1>4, SessionParts DEF FlushOverride
  <2>2. op'[m].row.at = clock
    <3>1. op'[m] = [step |-> "override_flushed", original |-> op[m].original,
                    row |-> [op[m].original EXCEPT
                               !.category = op[m].category, !.at = clock,
                               !.overrideOf = op[m].original.at]]
      BY <1>2, <1>4 DEF FlushOverride, Become
    <3> DEFINE row == [op[m].original EXCEPT
                         !.category = op[m].category, !.at = clock,
                         !.overrideOf = op[m].original.at]
    <3>2. row.at = clock
      BY <2>1 DEF ScoreRow
    <3>3. op'[m].row = row
      BY <3>1
    <3> QED BY <3>2, <3>3
  <2>3. scores' = scores
    BY <1>4 DEF FlushOverride
  <2>4. \A row \in scores : row.at < clock
    BY <1>2 DEF ScoresOrdered
  <2> QED BY <1>1, <2>2, <2>3, <2>4 DEF ScoresOf
<1> QED BY <1>1, <1>2, <1>3, <1>4, SessionCameTo

LEMMA OverrideInForceStep ==
  ASSUME LifecycleInv, OverridesOnTrail, FlushedIsLatest, OverrideInForce, [Next]_vars
  PROVE  OverrideInForce'
<1>1. SUFFICES ASSUME NEW s \in scans', NEW d \in Domains, OverridesOf(s, d)' # {}
      PROVE  \E i : LastOverride(s, d, i)'
  BY DEF OverrideInForce, LastOverride
<1>2. CASE ~(\E m \in Managers : CommitOverride(m) /\ op[m].row.scan = s
                                   /\ op[m].row.domain = d)
  <2>1. OverridesOf(s, d)' = OverridesOf(s, d)
    BY <1>2, DecisionsStayOnTrail
  <2>2. \A i \in OverridesOf(s, d) : i \in Trail("SCORE_OVERRIDDEN", s)
                                       /\ audit'[i] = audit[i]
    BY DecisionsStayOnTrail DEF OverridesOf
  <2>3. s \in scans /\ s \in Scans
    BY <1>1, <2>1, <2>2 DEF Trail, LifecycleInv, RowsOfScans, TablesTyped
  <2>4. PICK i \in OverridesOf(s, d) : LastOverride(s, d, i)
    BY <1>1, <2>1, <2>3 DEF OverrideInForce
  <2>5. ScoresOf(s, d) # {}
    BY <2>3, <2>4 DEF OverridesOnTrail, OverrideHasRow, OverridesOf
  <2>6. ScoresOf(s, d)' = ScoresOf(s, d)
    BY <1>2, <2>3, <2>5, ScoresOfDomainChange
  <2> QED BY <2>1, <2>2, <2>4, <2>6 DEF LastOverride
<1>3. CASE \E m \in Managers : CommitOverride(m) /\ op[m].row.scan = s
                                 /\ op[m].row.domain = d
  <2>1. PICK m \in Managers : CommitOverride(m) /\ op[m].row.scan = s
                                /\ op[m].row.domain = d
    BY <1>3
  <2>2. PICK K : K = Len(audit) + 1
    OBVIOUS
  <2>3. PICK e : e = OverrideEvent(m)
    OBVIOUS
  <2>4. PICK new : new = op[m].row
    OBVIOUS
  <2>5. /\ OverridesOf(s, d)' = OverridesOf(s, d) \cup {K} /\ audit'[K] = e
        /\ \A j \in OverridesOf(s, d) : j \in 1 .. Len(audit)
        /\ Len(audit) \in Nat
    BY <2>1, <2>2, <2>3, OverrideIsRecorded
  <2>6. e.about.new = new.at
    BY <2>3, <2>4 DEF OverrideEvent
  <2>7. scores' = scores \cup {new} /\ new \in ScoreRow
    BY <2>1, <2>4, OverrideIsCommitted
  <2>8. \A row \in ScoresOf(s, d) : row.at < new.at
    BY <2>1, <2>4 DEF FlushedIsLatest, CommitOverride
  <2>9. \A row \in ScoresOf(s, d) : row.at \in Nat
    BY DEF ScoresOf, ScoreRow, LifecycleInv, TablesTyped
  <2>10. \A row \in ScoresOf(s, d)' : row.at <= new.at
    BY <2>7, <2>8, <2>9 DEF ScoresOf, ScoreRow
  <2>11. \A j \in OverridesOf(s, d)' : j <= K
    BY <2>2, <2>5
  <2> QED BY <2>5, <2>6, <2>10, <2>11 DEF LastOverride
<1> QED BY <1>2, <1>3

LEMMA PositionsAreNatural ==
  ASSUME LifecycleInv, NEW type, NEW s
  PROVE  Trail(type, s) \subseteq Nat
<1>1. DOMAIN audit = 1 .. Len(audit) /\ Len(audit) \in Nat
  BY LenProperties DEF LifecycleInv, TablesTyped
<1> QED BY <1>1 DEF Trail

LEMMA LastIsGreatest ==
  ASSUME NEW positions \in SUBSET Nat, NEW i \in positions,
         \A j \in positions : j <= i
  PROVE  LastOf(positions) = i
<1>1. \A k \in positions : (\A j \in positions : j <= k) => k = i
  OBVIOUS
<1> QED BY <1>1 DEF LastOf

LEMMA ExclusiveInvInit == Init => ExclusiveInv
<1> SUFFICES ASSUME Init PROVE ExclusiveInv
  OBVIOUS
<1>1. DecisionsInv
  BY DecisionsInvInit
<1>2. scans = {} /\ \A m \in Managers : op[m] = Idle
  BY DEF Init, PipelineInit, GovernanceInit, People
<1>3. NoOverlap
  BY <1>2, IdleIsTyped DEF NoOverlap, Subject
<1> QED BY <1>1, <1>2, <1>3, IdleIsTyped
        DEF ExclusiveInv, ReadsCurrent, ReviewInForce, FlushedIsLatest, OverrideInForce,
            Step

\* While transactions on one subject do not overlap, sessions read what is
\* still so when they commit, and the last decision is the one in force.
THEOREM ExclusiveInvariant == ExclusiveSpec => []ExclusiveInv
<1>1. ExclusiveInv /\ [Next /\ NoOverlap']_vars => ExclusiveInv'
  <2> SUFFICES ASSUME ExclusiveInv, [Next /\ NoOverlap']_vars PROVE ExclusiveInv'
    OBVIOUS
  <2>0. [Next]_vars /\ LifecycleInv /\ OverridesOnTrail
    BY DEF ExclusiveInv, DecisionsInv
  <2>1. DecisionsInv'
    BY <2>0, DecisionsInvStep DEF ExclusiveInv
  <2>2. NoOverlap'
    BY DEF ExclusiveInv, vars, NoOverlap, Subject
  <2> QED BY <2>0, <2>1, <2>2, ReadsCurrentStep, ReviewInForceStep,
             FlushedIsLatestStep, OverrideInForceStep DEF ExclusiveInv
<1> QED BY ExclusiveInvInit, <1>1, PTL DEF ExclusiveSpec

\* While the transactions of reviews of one finding do not overlap, the last
\* review on the trail is the one that the finding shows, also where managers
\* whose pages were stale have decided what was decided already.
THEOREM TrailAlwaysTellsReview == ExclusiveSpec => []TrailTellsReview
<1>1. ASSUME ExclusiveInv PROVE TrailTellsReview
  <2> SUFFICES ASSUME NEW s \in scans, NEW f \in Findings(s), ReviewsOf(s, f) # {}
      PROVE  findings[s][f] =
               [status |-> audit[LastOf(ReviewsOf(s, f))].about.decision.status,
                reviewer |-> audit[LastOf(ReviewsOf(s, f))].actor]
    BY DEF TrailTellsReview
  <2>1. PICK i \in ReviewsOf(s, f) : LastReview(s, f, i)
    BY <1>1 DEF ExclusiveInv, ReviewInForce
  <2>2. ReviewsOf(s, f) \subseteq Nat
    BY <1>1, PositionsAreNatural DEF ExclusiveInv, DecisionsInv, ReviewsOf
  <2>3. LastOf(ReviewsOf(s, f)) = i
    BY <2>1, <2>2, LastIsGreatest DEF LastReview
  <2> QED BY <2>1, <2>3 DEF LastReview
<1> QED BY ExclusiveInvariant, <1>1, PTL

\* While the transactions of overrides of one score do not overlap, the last
\* override on the trail is the score in force, also where several override
\* the same row.
THEOREM OverridesAlwaysTakeEffect == ExclusiveSpec => []OverridesTakeEffect
<1>1. ASSUME ExclusiveInv PROVE OverridesTakeEffect
  <2> SUFFICES ASSUME NEW s \in scans, NEW d \in Domains, OverridesOf(s, d) # {}
      PROVE  LatestScore(s, d).at = audit[LastOf(OverridesOf(s, d))].about.new
    BY DEF OverridesTakeEffect
  <2>0. /\ LifecycleInv /\ OverridesOnTrail /\ TablesTyped /\ ScoresOrdered
        /\ s \in Scans
    BY <1>1 DEF ExclusiveInv, DecisionsInv, LifecycleInv, TablesTyped
  <2>1. PICK i \in OverridesOf(s, d) : LastOverride(s, d, i)
    BY <1>1 DEF ExclusiveInv, OverrideInForce
  <2>2. LastOf(OverridesOf(s, d)) = i
    BY <2>0, <2>1, PositionsAreNatural, LastIsGreatest DEF LastOverride, OverridesOf
  <2>3. PICK row \in ScoresOf(s, d) : row.at = audit[i].about.new
    BY <2>0, <2>1 DEF OverridesOnTrail, OverrideHasRow, RecordedAt, OverridesOf
  <2>4. d \in ScoredDomains(s)
    BY <2>3 DEF ScoredDomains
  <2>5. PICK top \in ScoresOf(s, d) :
          /\ \A other \in ScoresOf(s, d) : other.at <= top.at
          /\ LatestScore(s, d) = top
    BY <2>0, <2>4, ScoreInForce
  <2>6. top.at \in Nat /\ row.at \in Nat
    BY <2>0 DEF TablesTyped, ScoreRow, ScoresOf
  <2>7. top.at <= row.at /\ row.at <= top.at
    BY <2>1, <2>3, <2>5 DEF LastOverride
  <2> QED BY <2>2, <2>3, <2>5, <2>6, <2>7
<1> QED BY ExclusiveInvariant, <1>1, PTL
=============================================================================
