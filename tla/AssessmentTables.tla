-------------------------- MODULE AssessmentTables --------------------------
(***************************************************************************)
(* The tables of an assessment (storage/db/models/) and the readers that   *)
(* more than one component uses (storage/db/repositories.py and            *)
(* ui/services/comparison_service.py).  The pipeline inserts the rows,     *)
(* governance edits the review columns and adds override rows, and every   *)
(* page reads them.                                                        *)
(*                                                                         *)
(* A finding is known by what its scanner reported.  Its columns that      *)
(* never change are the fields of that record; findings[scan] holds the    *)
(* three that do.                                                          *)
(***************************************************************************)
EXTENDS Scoring, Sequences

CONSTANTS
  Scans,     \* identifiers of scans rows
  Outcomes,  \* what scanning a source may yield: findings and domains
  Managers   \* who reviews and overrides

ReviewOutcomes == {"APPROVED", "REJECTED", "OVERRIDDEN"}

ScanFindings == UNION {o.found : o \in Outcomes}

\* A finding's domains are domains that its file maps to.
ASSUME TablesAssumption ==
  /\ \A o \in Outcomes :
       /\ o \in [found : SUBSET Finding, mapped : SUBSET Domains]
       /\ IsFiniteSet(o.found)
       /\ UNION {f.domains : f \in o.found} \subseteq o.mapped
  /\ {"system", "requester", "nobody"} \cap Managers = {}

VARIABLES
  scans,            \* the scans rows
  mappings,         \* domain_mappings: the domains a scan's files map to
  findings,         \* findings: the review columns of each scan's findings
  scores,           \* scores: one row per domain and override
  evidence,         \* evidence: findings with their control
  recommendations,  \* recommendations: findings with their control
  evaluations,      \* control_evaluations
  catalog,          \* controls: whether the rows are there
  audit,            \* audit_events in the order of created_at
  clock             \* the time the next score is stamped with

tables == <<scans, mappings, findings, scores, evidence, recommendations,
            evaluations, catalog, audit, clock>>

\* reviewed_at is left out: every review writes it and nothing reads it.
Review == [status : ReviewOutcomes \cup {"PENDING"},
           reviewer : Managers \cup {"nobody"}]

Unreviewed == [status |-> "PENDING", reviewer |-> "nobody"]

\* calculated_at orders the rows of a domain and stands for their identifier:
\* the clock moves on between two inserts into a domain.
ScoreRow == [scan : Scans, domain : Domains, category : Categories, at : Nat,
          overrideOf : Nat]

NoScore == 0

(***************************************************************************)
(* Readers.                                                                *)
(***************************************************************************)
Findings(scan) == DOMAIN findings[scan]

Pending(scan) == {f \in Findings(scan) : findings[scan][f].status = "PENDING"}

ScoresOf(scan, d) == {row \in scores : row.scan = scan /\ row.domain = d}

\* The later of the rows, first seen or last seen making no difference while
\* no two have the same time.
Latest(rows) ==
  CHOOSE row \in rows : \A other \in rows : other.at <= row.at

ScoredDomains(scan) == {d \in Domains : ScoresOf(scan, d) # {}}

\* Mutant of LatestScore: the comparison of the times is the wrong way round.
EarliestScore(scan, d) ==
  CHOOSE row \in ScoresOf(scan, d) :
    \A other \in ScoresOf(scan, d) : row.at <= other.at

\* storage/db/repositories.py: the score in force is the latest row.
LatestScore(scan, d) == Latest(ScoresOf(scan, d))

Superseded(rows) == {row.overrideOf : row \in rows}

\* Mutant of EffectiveScore: the first override that nobody overrode stays.
FirstEffectiveScore(scan, d) ==
  LET rows == ScoresOf(scan, d)
      standing == {row \in rows : row.at \notin Superseded(rows)}
  IN CHOOSE row \in standing : \A other \in standing : row.at <= other.at

\* ui/services/comparison_service.py: the score in force is the latest of the
\* rows that no row overrides.
EffectiveScore(scan, d) ==
  LET rows == ScoresOf(scan, d)
  IN Latest({row \in rows : row.at \notin Superseded(rows)})

BlockingCategories == {"CRITICAL_RISK", "HIGH_RISK"}

\* check_finalization_policy on a category for each scored domain: a domain
\* at risk has no finding that is still to be reviewed.
CanFinalize(scan, categories) ==
  \A d \in DOMAIN categories : categories[d] \in BlockingCategories
    => InDomain(Pending(scan), d) = {}

LatestCategories(scan) ==
  [d \in ScoredDomains(scan) |-> LatestScore(scan, d).category]

(***************************************************************************)
(* Audit rows, stamped and committed by the transaction that records them. *)
(***************************************************************************)
Record(event) == audit' = Append(audit, event)
=============================================================================
