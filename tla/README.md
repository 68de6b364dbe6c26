# Verification of the Banking Systems Assurance Platform

The platform scans the source tree of a banking system without changing it,
turns what the rule scanners find into findings, scores and control
evaluations, lets managers review and override them, and writes an audit trail
of everything. It is a Streamlit application over one SQL database
(PostgreSQL in deployment, SQLite in development): each browser session runs
the page's script in a thread of its own, every service call opens a database
session of its own, nothing locks a row, and nothing outside the database is
shared between sessions.

This directory holds TLA+ models of the parts that decide, the TLC
configurations that check them on small instances, and TLAPS proofs of the
central properties for instances of any size.

## 1. Inventory

| Component | State | Operations | Hard behaviour |
|---|---|---|---|
| Accounts, sign-in, user administration (`auth/`, `ui/app_context.py`, `ui/views/login.py`, `account.py`, `users.py`, `scripts/create_admin.py`) | table `users` (role, status, lock, `session_version`, hash), the principal in each browser session, audit rows | sign in, sign out, refresh, change own password, create, change role, (de)activate, reset password, bootstrap | operations of several sessions overlap on one row between the read, the hasher and the commit; authorisation and action are two transactions; roll-backs, lost sessions |
| Assessment pipeline (`assessment/engine.py`, `storage/db/repositories.py`) | tables `scans`, `findings`, `scores`, `evidence`, `recommendations`, `control_evaluations`, `controls`, `audit_events` | ingest, scan, save, score, evaluate, audit, each its own commit | the process may stop between any two commits; two runs share the control catalog; readers see every intermediate state |
| Governance (`governance/approval_workflow.py`, `GovernanceRepository`, `ui/views/review_queue.py`) | review status of findings, score rows and their override links, audit rows | review a finding, override a score, check finalization, read queue, scores, trail | several managers work from pages rendered earlier; a check reads two tables one after the other; "latest" is decided in two different ways |
| Scoring (`scoring/engine.py`, `recommendations.py`) | none | findings of a domain to score, confidence, category | thresholds; never evaluated against clean; low confidence |
| Control catalog, evaluation, evidence (`controls/catalog.py`, `control_evaluator.py`, `evidence/capture.py`) | table `controls` | upsert the catalog, match rules to controls, evaluate per domain | concurrent first upsert; prefix matching; precedence of domains |
| Comparison (`ui/services/comparison_service.py`) | none | match findings of two scans, effective scores | multiplicity, order of the two scans, superseded scores |
| Scan orchestration and discovery (`scanners/`) | inventory, limits, executions | walk, classify, map to domains, read, scan, deduplicate, verify integrity | limits hit at boundaries; a failing scanner or file; a source that changes during the scan |
| Source ingestion (`source_ingestion.py`, `path_validator.py`) | temporary directory | validate, extract within limits, clean up | partial extraction, limits, clean-up on every exit |
| AI assistant (`agents/`, `providers/`, `ui/services/agent_ui_service.py`) | none but audit rows; one request in flight for each page | explain a finding, summarise a domain, answer a question, summarise everything; choose the provider, fall back, audit | provider failure; items beyond the limit; overridden scores as context; reads between which managers commit |
| Secured services and permissions (`auth/secured_services.py`, `permissions.py`) | none | authorise, delegate, attribute | attribution written after the work |
| Rule scanners (`scanners/rules/`) | none | make findings of the matches in a file | one finding for a line or for a match; a window of lines around an operation |
| Masking, reporting, RAG stores, configuration, migrations, pages, fixtures | | | data transformation or layout; see section 7 |

How they interact: pages call the secured services, which authorise against
`users` and delegate to the service layer; that layer opens a session, calls the
repositories and closes it. The pipeline writes the tables the governance
operations edit and every page reads. `audit_events` is written by all.

What makes each correct:

- Accounts, as long as no two operations overlap on an account where this is
  marked (*): an active administrator always remains (*); an invalidated
  session stays invalid (*); a live session was opened with the present
  password (*); failures lock (*); a lock holds (*); an issued password is
  temporary (*); a commit changes only what its operation owns and is reported;
  nobody administers themselves.
- Pipeline: what a stage reports is what is stored; products follow their scan;
  an assessment reported complete is whole, for any stop and any overlap.
- Governance: what a finding's row shows is on the trail; history is never
  rewritten; the readers agree which score is in force; sign-off is blocked
  while risk awaits review.
- Scoring and evaluation: never evaluated is never clean; one more finding never
  improves a verdict; every gap names its findings.
- Comparison: nothing is lost or counted twice; a finding that moves is not new;
  which scan was chosen for the baseline makes no difference; a ranked verdict
  that changes to another ranked one has a reason in the findings or in an
  override, where findings of one key weigh the same.
- AI assistant: an answer is on the trail under the name of who asked; answer
  and trail say whether a provider was tried and whether the local mode stood
  in; what is left out is told; no override is shown before it is on the trail.
- Scanning and ingestion: limits hold, and those on number and total size are reported; one failing file or
  scanner costs only itself; a changed source is reported failed; the temporary
  directory is gone on every exit.

## 2. Plan

The modules, in the order in which they were written.

1. **Accounts.** `Accounts` is the system, `AccountsSafety` its properties and
   inductive invariants, `AccountRegister` the abstract specification that the
   users table implements, three modules of proofs.
2. **Life of an assessment.** `ControlCatalog` and `Scoring` are the pure rules,
   `AssessmentTables` the shared tables and their readers; `Pipeline`,
   `Governance` and `Assistant` are the components that share them, `Lifecycle`
   their composition, `LifecycleSafety` the properties, `AssessmentRecord` the
   abstract specification; `LifecycleProofs`, `LifecycleDecisionsProofs` and
   `LifecycleReadersProofs` are the proofs.
3. **A scan.** `SourceTree` is what lies on the disk, `Ingestion`, `Discovery`
   and `ScanOrchestrator` the three parts of a scan, with the pure rules of
   `ScanRules` and `FileClassification`; `ScanRun` composes them,
   `ScanRunSafety` has the properties, `ScanContract` is the abstract
   specification, `ScanRunProofs` the proofs. What a scan answers is what
   `Pipeline` takes from the constant `Outcomes`.
4. **Comparison.** `Comparison` is the comparison of two stored assessments as
   operators, `ComparisonChecks` a source that changes between the two,
   `ComparisonProofs` the proofs.

Still worth doing: that the outcomes of `ScanRun` satisfy the assumption that
`AssessmentTables` makes of `Outcomes`, as a theorem instead of by reading.

## 3. The models

### 3.1 Accounts

| Code | Model |
|---|---|
| a row of `users` | `users[u]`: role, active, mustChange, failed, lockedUntil, version, password; `NoRow` while the username is free |
| the principal kept by a browser session | `principal[s]`; its copies of role and must_change_password are refreshed from the row before each decision, so they are not kept |
| a service call in flight | `op[s]`: which operation, how far it is, its arguments and the row as read |
| the audit row of a transaction | `event`, the row of the latest step; the table is append-only and the code does not read it here |
| `clock` of the services | `now`, with lock durations and idle timeouts in the same unit |

A service call opens its own database session, reads the row, may count the
administrators with another query, spends time in the password hasher and
commits. Each of these is an action: `BeginLogin` reads, `AcceptLogin`,
`CountFailure` or `LockAccount` commit; `Authorize` is the secured service's own
transaction, `ReadTarget` the read of the row, `EnsureAnotherActiveAdmin` the
count, `ChangeRole`, `Deactivate`, `Activate` and `ResetPassword` the commits;
`BeginOwnPassword`, `ReadOwnRow` and `ChangeOwnPassword` the user's own change.
`Merge` is what a flush does: SQLAlchemy writes the columns whose value the
session changed, as absolute values, and leaves the others as they are in the
table at that time; the password column is always among them because the hash
has a fresh salt. `RollBack` is any exception before the commit, `LoseSession`
a closed tab or a restarted process, `BootstrapUser` the scripts run from the
host's shell.

Two variables record history and take part in no guard: `issued` (the present
password was chosen by an administrator) and `streak` (failures since the last
success, lock or reset). The password in a principal is history too.

One browser session runs one script at a time, so `op[s]` holds one operation;
the same account may be signed in from several sessions. `SessionStep` is a step
of one of them: it happens at one moment, and time passes (`Tick`) between
steps.

### 3.2 The life of an assessment

| Code | Model |
|---|---|
| tables `scans`, file mappings | `scans`, `mappings[s]`: the domains that files of the scan map to |
| table `findings` with its review columns | `findings[s]`: from each finding of the scan to its status and reviewer |
| table `scores` with override links | `scores`: rows with scan, domain, category, `at` (calculated_at) and `overrideOf` |
| tables `evidence`, `recommendations`, `control_evaluations` | one set of rows for each scan |
| table `controls` | `catalog`: whether it has been added |
| `audit_events` | `audit`, a sequence in order of commit |
| `run_assessment` of one run | `run[r]`: its phase and what it holds in memory |
| one person's governance call | `op[m]`: where it is and what it has read |

`Pipeline` has an action for each commit of `run_assessment`, in the order of
the code: `Scan`, `Save`, `ReportSave`, `ReadCatalog` and `ScoreAndGenerate` or
`ScoreFails` (looking for the controls and inserting them are a read and a
commit of one transaction, between which another run may insert them),
`ReportScores`, `Evaluate`, `ReportEvaluations`, `Complete`, and `Attribute` by
the secured service. `Stop` ends a run between any two of them.

`Governance` cuts a review into the page that offers pending findings
(`ChooseReview`), the read of the row (`ReadFinding`) and the commit of the
changed columns with the audit row (`CommitReview`); an override into the
choice of the score in force (`ChooseOverride`), the flush that stamps the new
row (`FlushOverride`) and the commit that makes it visible (`CommitOverride`);
the finalization check into its two queries.

`AssessmentTables` defines the readers. Two rules for the score in force exist
in the code, and both are here: `LatestScore`, by which the finalization check
and the trace go, and `EffectiveScore`, by which pages and the comparison go.

`ControlCatalog` and `Scoring` hold the rules themselves: the control of a
rule, the deduction, the order of the categories, the status of a control.

`Assistant` cuts a request into the read of the tables (`ExplainFinding`,
`AnswerQuestion`, `ExecutiveSummary`; `SummarizeDomain` and
`ReadDomainFindings` are the two statements of one) and the commit of its audit
row with which the answer is shown (`RecordAnswer`); `AskFails` is an
exception or a stopped process. `ask[p]` is where the page of person p is. The
four functions that make a context keep the first items up to the limit of the
settings; since the queries have no order, any of that many. `GetProvider` and
`GetAgentProvider` are the two registries. Every adapter of this build raises
when it is asked to send, so that an answer comes from the local mode, as
itself or as the fallback.

### 3.3 A scan

| Code | Model |
|---|---|
| the scanned tree, the archive, the settings | `scenario`: directories in the order of the walk, files with what their names and links say, entries of an archive, limits |
| the files as they are at the moment | `disk[f]`: there, readable, binary, lines of text |
| `SourceHandle`, the temporary directory | `temp` (`none`, `present`, `removed`, `stuck`), `unpacked`: entries written |
| `discover_files` | `walk`: the directory it is in, the files it owes, inventory, skipped files, bytes, truncated |
| `run_scan` | `phase`, `hashBefore`, `cursor` (scanner and file), `executions`, `findings`, `report` |

`Ingestion` has an action for the acceptance of a directory, each way in which
a source is refused, the extraction of one entry, its failure, and the end.
`Discovery` enters one directory or decides on one file at a time; `Refusal` is
the chain of conditions of the code in its order, with the limits on number
and total size that make the walk `truncated`. A directory beyond the depth
limit is entered by nobody, and its files are recorded nowhere. `ScanOrchestrator` runs one
scanner over one file at a time, with `FileUnreadable`, `FileIsBinary`,
`ScannerRaises` and `FileScanned` as the four ways in which that goes; `Report`
adds the findings for skipped files, removes duplicates, hashes the tree again
and computes the status, and `Cleanup` is the `finally` of the engine.
`OwnerChanges` lets the owner of a directory change any file between any two
of these steps; `Stop` ends the process anywhere.

`ScanRules` says what each scanner makes of its matches in a text: which rule
reports each match and which one once for a line, and the search for an audit
call in the lines around a sensitive operation. A text is a sequence of lines,
a line the set of its matches; the regular expressions are left out. Names of
files are the set of keywords that they contain (`FileClassification`).

`ScanContract` promises what a caller relies on, without the walk, the cursor
and the temporary directory: the scan looks at the source once, and answers
later, either with exactly what the scanners find in the files that the
settings admit or with a report marked failed. Which files the settings admit
is defined there anew, from the whole tree at once: `Admission` says of each
file whether it is read, given those that precede it, and `Reference` what the
scanners find in a set of files, less what they failed on. A report that says
`completed` has left out nothing that could be read (`NothingMissed`).

### 3.4 Comparison

`Comparison` follows `comparison_service.py` function by function.
`ComparisonChecks` drives it with a source whose lines are inserted, removed
and changed: `Assess` stores what it is now, later edits lead to the assessment
that is compared, `Override` adds the row of a manager to one of the two.
Findings and scores of the two are those that `Scoring` gives for the lines,
so that `ChangesAreExplained` speaks of the two components together.

### 3.5 What is abstracted

- In `Lifecycle` a finding is a record of what the rules tell apart: the prefix
  of its rule_id, severity, confidence and domains. Texts, file names, lines and
  masks are left out. The constant `Outcomes` holds the results a scan may
  have.
- Scores are exact tenths of a point. The code adds binary
  floating-point numbers, which may round at a threshold; the model does not.
- `calculated_at` is the clock of one host, and advances between inserts; `at`
  also stands for the row's id.
- Review comments, `reviewed_at`, completeness of evidence,
  priorities and texts of recommendations are left out; no rule modelled here
  looks at them.
- Which of the pending findings the page submits is any of them. When somebody
  else has decided the one that was selected, the browser framework falls back
  to another; that is before the session that `Governance` models.
- A sign-in names a registered account or not; the time the refusal takes is
  left out.
- The assistant's texts fit its limit of characters. A text that does not is
  called truncated as well, which only adds to what `OmissionsAreTold` asks
  for. A question that the safety check refuses changes nothing and writes
  nothing.
- A scan sees a file as it is at the moment of each read; one read is not cut by
  a change. Of a text longer than the reader's limit
  (`ReadLimit`, 2 MB in the code, lines here) the beginning is read and nobody
  says so; `BoundsAssumption` has it at least the limit on a file's size, as
  the settings have. Duplicates are told by the place of a finding.
- What a scanner failed on is a set of files, where the code keeps a count and
  the details of the first ten; no property depends on the difference.
- In `ComparisonChecks` a masked text is a value; two log calls whose texts are
  redacted have the same one with different severities, which is the exception
  that `KeysTellWeight` names: the comparison then calls a finding unchanged
  that became worse.

## 4. The runs

| Run | Specification, instance | Shows |
|---|---|---|
| `accounts_concurrent` | `Spec`; 2 accounts, 2 sessions, 2 passwords, 2 roles; sign-in, creation, demotion and promotion, deactivation and activation; lock at the first failure, clock to 1, versions to 3 | `TypeOK`, `ChangesAreOwnedAndAudited`, `NoSelfAdministration` under every overlap: no stale copy of a row is written back |
| `accounts_exclusive` | `ExclusiveSpec`; the same, every operation on existing accounts, role changes included; lock at 2 failures, clock 0, versions to 3 | `FailuresLock`, `LockHolds`, `InvalidatedForGood`, `LastAdminSurvives`, `LiveSessionsAreCurrent`, `IssuedPasswordsAreTemporary`, `ImplementsRegister` |
| `race_last_admin` | `Spec` | violation of `LastAdminSurvives` |
| `race_lockout` | `Spec` | violation of `FailuresLock` |
| `lifecycle_decisions` | `Spec`; 1 run, 2 managers, 1 viewer, a domain that is not at risk until somebody says so; 2 overrides | `TypeOK`, `CompletedIsWhole`, `ReadersAgree`, `ReviewIsAccountedFor`, `VerdictIsAccountedFor`, `SignOffIsRight`, `ImplementsRecord` |
| `lifecycle_runs` | `FairSpec`; 2 runs, 2 domains, 5 kinds of source | `CompletedIsWhole`, `CoverageAgrees`, `RunsEnd` |
| `lifecycle_exclusive` | `ExclusiveSpec`; 1 run, 2 managers, 3 overrides, 1 person asking the assistant under 2 settings | `OverridesTakeEffect`, `AnswersAreOnTrail`, `SummariesAreOnTrail`, `OmissionsAreTold` |
| `race_override` | `Spec`; 2 managers | violation of `OverridesTakeEffect` |
| `race_signoff` | `Spec`; 1 manager, 1 viewer, 2 domains at risk | violation of `CheckWasTrueAtSomeMoment` |
| `scanning` | `FairSpec`; 30 sources, 3 scanners, 2 failures of scanners | `TypeOK`, `EveryFileHasAPlace`, `LimitsHold`, `ArchivesLeaveNothing`, `ImplementsContract`, `EveryScanAnswers` |
| `file_failures` | the same | violation of `FileFailuresWarn` |
| `comparison` | up to 4 lines before the first assessment, 3 after; 2 files of 2 domains, 20 kinds of line | `NeverBetter`, `NoFindingIsLost`, `EditsAreTold`, `ChoiceDoesNotMatter`, `ChangesAreExplained`, `OverridesAreShown` |

### Bounds

- *Accounts.* Two accounts are what it takes for one to administer the other
  and for a last administrator; two sessions for an overlap; two passwords for
  a right one and a wrong one. `MaxVersion` bounds `session_version`: at 3 an
  account can be invalidated, readmitted and invalidated again. It is a guard of `ReadTarget` and `ReadOwnRow`, so
  `GiveUp` takes over at the bound. Two roles let a role change take an
  administrator's rights and give them back. In `accounts_concurrent` the clock
  reaches 1, so that a lock of duration 1 ends and an idle timeout of 0 is
  exceeded, and the first failure locks: the counter under an overlap is what
  `race_lockout` is about. In `accounts_exclusive` the clock stands, which keeps
  the run short; that a lock holds until its end while time passes is shown by
  the theorem `LocksHold` alone. Both runs have the view `ReadState`: `event` is
  written by every step and read by none, so states that differ in it alone
  have the same future, and the properties about it speak of the step that
  writes it. The numbers of the code (5 failures, 15 minutes) are
  parameters of the proofs, and the proofs have every operation at any time.
- *Lifecycle.* Two managers are enough for two decisions on one subject by
  different people. `MaxClock` bounds the number of inserts into `scores`: in
  `lifecycle_decisions` it leaves room for the engine's and two overrides, the
  least for a chain and a fork, in `lifecycle_exclusive` for a third that
  follows either; the latter run has no reviews, which `lifecycle_decisions`
  has. Two runs are what it takes to meet in the catalog. The two domains
  differ in the controls of their own. One answer of the assistant
  (`MaxAnswers`) meets every state of the tables; item limits of 0 and 1 stand
  below and at the number of findings. The settings have a provider that may be
  used and one without its key, which the local one stands in for as it does
  when the feature is switched off.
- *Scanning.* Twelve sources meet the limits on number and total size at, below
  and beyond their boundary with files of every order of size; two have links,
  followed or not; one has directories that are ignored, too deep or cannot be
  listed; nine archives are accepted or miss one requirement each; three are
  refused; one directory of three files is changed by its owner in every way; in
  one a link that is followed leads into a directory of an ignored name; one has
  texts longer than the window after an operation that is searched for its audit
  call, with the call inside and beyond it.
  Each file changes at most once (`touched`), so that a change that is undone
  before the second hash, which no hash can tell, does not occur.
  The window after an operation is two lines, a text that is read whole has at
  most three, and one file grows to four, beyond what is read of it.
- *Comparison.* Four findings reach every category and, with high ones, the
  floor of zero; three lines on each side have findings repeated on one side
  more often than on the other. One override in all.

`CHECK_DEADLOCK FALSE` appears where the system really stops: all runs have
ended, every override and every answer of the bound is made, the scan has
answered, or no line more is allowed.

Symmetry is used where nothing singles out a member: sessions, accounts
and passwords in the account runs, managers in the lifecycle runs without liveness. No liveness property is
checked under symmetry.

### Fairness

`FairSpec` assumes weak fairness of the steps of a run that has begun: a run is
one thread that executes straight-line code, so that it goes on unless it is
stopped. Nothing is assumed of people: nobody has to begin a run, review
anything or end a check, and `Stop` may or may not come. `RunsEnd` then says
that a run that has saved its scan ends, also when it meets another in the
catalog. In `ScanRun` the thread of the scan is fair in the same way (`Advance`);
the owner's changes and `Stop` are not. `EveryScanAnswers` says that a scan
comes to an end whatever changes under it.

## 5. What the races show

Nothing in the code keeps two calls from working on one row at a time:
no row is locked, no version is compared at the update. The specifications
named `ExclusiveSpec` are the same program where nobody does that
(`NoOverlap`): no two pending operations on one account, nor two that remove an
administrator; no two open transactions that review one finding or override the
score of one domain. A page that was rendered earlier is not a transaction: it
may be stale, and its decision comes after those made since. What holds there and
not without it is the cost of the missing lock.

Four of these differences contradict what the code or its documents say, and
are runs of their own:

- Two administrators who demote or deactivate each other both count two, and
  none is left (`race_last_admin`).
- Two failures that read the same counter count once, and the limit passes
  without a lock (`race_lockout`).
- Of two overrides of one score the later commit may bear the earlier time, and
  then never takes effect (`race_override`).
- The finalization check reads scores, then findings; with a review and an
  override between the two, it reports an assessment free that was blocked at
  every moment (`race_signoff`).

One more disagreement needs no overlap: `run_scan` says that failures of single
files make a scan complete with warnings, and a file that discovery cannot open
makes it complete without (`file_failures`).

Another needs no overlap either and has no run, since it can be read off one
action: `file_discovery.py:120` says of `truncated` that a "count/size/depth
limit stopped discovery early", and the depth limit (`file_discovery.py:150-152`)
drops the directories below it without setting it. Their files are neither in
the inventory nor among the skipped ones, and the scan is completed
(`EnterDirectory`; the scenario `Passed` has such a file). `LimitsHold`
therefore speaks of the number and the total size only.

The scan's own check has a gap. Pages say of a scan whose two hashes agree that
nothing was modified (`ui/views/dashboard.py:53`); the hash has no entry for
what lies behind a link into a directory of an ignored name
(`file_discovery.py:264`, `:269`), which the scan reads when the settings let it
follow links. In the scenario `LinkToIgnored` the file there changes between
discovery and the scanners, and the report is verified. `ScanContract` therefore
promises exactness for sources where every link that is followed leads to a file
with an entry of its own (`LinksAreSeen`), and the honest status for all; without
that condition in its `Answer`, TLC finds this scan in seconds.

Others are seen by checking, with `SPECIFICATION Spec`, what holds of
`ExclusiveSpec`:

- `LiveSessionsAreCurrent`: two operations increment `session_version` from the
  same value, and a session opened between their commits outlives the second.
- `InvalidatedForGood`, with three sessions: an operation that read the row two
  versions ago writes the version in between, and a session of that version,
  invalidated since, is valid again.
- `IssuedPasswordsAreTemporary`: a user's own change that read the row before a
  reset clears the mark of the issued password; a reset that read the row before
  the user's change finds the mark set, does not write it, and issues a password
  that need not be changed.
- `LockHolds`: a correct sign-in that read a row whose last lock has ended writes
  the empty lock, also when another lock has been set since; a wrong one that
  began before a lock sets the end of the lock anew, and earlier.
- `TrailTellsReview`, which is stated in `LifecycleSafety` for the theorem
  `TrailAlwaysTellsReview` and is in no run: the UPDATE of a review sets the columns that differ from
  what it read, so after three overlapping reviews a finding can show one
  person's outcome under another one's name. `ReviewIsAccountedFor` is what
  still holds: outcome and reviewer are each on the trail.

Each of these comes from one interleaving of a few calls, and a test that runs
one call after the other does not reach it.

## 6. What is proved

**Accounts.** TLAPS checks the following for any finite set of accounts, any sets
of sessions
and passwords, any assignable roles and any limits, under the one assumption
`ConstantsAssumption` of `Accounts`.

| Theorem | Says |
|---|---|
| `TypeCorrect` (`AccountsProofs`) | `Spec => []TypeOK` |
| `OverlapCorrect` (`AccountsOverlapProofs`) | `Spec => []OverlapInvariant` |
| `ChangesOwned` | `Spec => ChangesAreOwnedAndAudited` |
| `NobodyAdministersThemselves` | `Spec => NoSelfAdministration` |
| `ExclusiveCorrect` (`AccountsExclusiveProofs`) | `ExclusiveSpec => []ExclusiveInvariant` |
| `SessionsCurrent`, `IssuedTemporary`, `FailuresAlwaysLock`, `LastAdmin`, `InvalidatedStayInvalid`, `LocksHold` | `ExclusiveSpec =>` the property: what six properties promise when no two operations overlap on an account. The code does not enforce that; section 5 says what an overlap does to them |
| `TableImplementsRegister` | `ExclusiveSpec => ImplementsRegister` |

**Every overlap.** `ChangesAreOwnedAndAudited` needs that a write only touches
a row that exists (`TargetsExist`), or creation could be confused with a change,
and that a blank row stands for no account (`BlankRows`). For
`NoSelfAdministration` the administrator behind a pending write must still be
signed in to an account other than the target: the check against one's own
account is made when the row is read, and the principal of a session does not
change while its operation runs (`OthersAdministered`). These facts are
inductive together with the types and do not mention the order of operations;
`Merge` then confines a commit to the columns its operation edits.

**No overlap.** The central fact is `SnapshotsHold`: the row a pending
operation has read is still the account's row. It is inductive because
`NoOverlap` keeps every other write off that account; with it, every commit
behaves as if it read and wrote at once, and the rest follows column by column:

- `AnotherAdminStays`: whoever passed the count leaves another administrator.
  No other pending operation removes one, and additions do not harm, so
  `LastAdminSurvives` follows. The proof uses that the set of accounts is finite
  (a set of cardinality above one has a member other than the target).
- `SessionsFollow`: no session is ahead of its account, and one at the same
  version knows the password. Every password change moves the version on;
  `LiveSessionsAreCurrent` and `InvalidatedForGood` follow.
- `FailuresCounted`: the column `failed` is the number of failures that
  happened; with the limit in `ReachesLimit`, `FailuresLock`.
- `VerifiedUnlocked`: a password under verification belongs to an account found
  unlocked, so its success or failure does not end a lock that began
  meanwhile; `LockHolds`.

`TableImplementsRegister` shows that `AccountRegister` is implemented, with the
row of the table as the account's entry: `CommitImplements` maps each commit to
the act of the register for that operation, and every other step leaves the
table alone. Beyond the invariant it needs `WritesAreDue`: a verified sign-in
is of an active account, and a pending write has something to write, or the
commit of an edit that changes nothing would raise a version for no act. That
`now` stays within `MaxClock` is the last fact: the register has a lock that
the last failure sets end between `LockoutDuration` and
`MaxClock + LockoutDuration`.

The proofs are laid out one step for each action of `Next`, and under it one
for each conjunct that the action can disturb. `AccountsProofs` also holds the
lemmas about rows (`Merge` of rows is a row, and what each edit leaves alone)
that the other two modules cite.

**A scan.** Under the assumptions of `ScanRules`, `SourceTree`,
`ScanOrchestrator` and `ScanRunSafety` (the shape of a source, distinct
scanners out of the registry, the limit on what is read of one file at least
the one on its size, and `None` and `Raised` different from each other and from
any hash or report), for any sources, any scanners and any limits (`ScanRunProofs`):

| Theorem | Says |
|---|---|
| `TypeCorrect` | `Spec => []TypeOK` |
| `LimitsAlways` | `Spec => []LimitsHold`; nothing of the depth limit |
| `ArchivesAlways` | `Spec => []ArchivesLeaveNothing` |
| `PlacesAlways` | `Spec => []EveryFileHasAPlace` |
| `ScanKeepsPromise` | `Spec => ImplementsContract` |

`TypeInv` adds to the types where the cursor stands before the scanners run,
and that the findings are finitely many, so that the counts of the report are
numbers: a scanner finds at most so many places in a text as there are rules and
lines (`RawsAreFinite`, `ScanFinds`), all of them of its own rules (`Home`).
`LimitsInv` adds that what the walk has found is what it has placed: the limit
on the number of files is compared with all that were found, and holds of the
inventory for that reason.
`ArchivesLeaveNothing` needs the phase in which a temporary directory can exist
at all. `EveryFileHasAPlace` is about the directories already entered: two
directories have no file in common, so that entering one adds files that no
sequence has yet (`OneDirectory`), and deciding on one moves it from the files
that are owed to exactly one of the two sequences (`PlaceOfOne`); lengths and
cardinalities then agree.

`ScanKeepsPromise` shows that `ScanContract` is implemented, with the first hash
for what was seen. Extraction and the owner's writes map to `SourceChanges`,
`HashBefore` to `Begin`, every way to `raised` to `Refuse` and `Report` to
`Answer`; every other step changes nothing of the contract. `Answer` is the step
that needs an invariant, `PromiseInv`, whose parts speak of a source that is as
it was hashed (`Good`):

- *Once good, always good.* A file changes at most once, so the hash still has
  the right entry for each file nobody has touched (`HashesHold`), and a source
  that is good after a step was good before it (`GoodBefore`). This is where the
  bound of one change of each file is used: with two, a file could be changed
  and changed back, and the comparison of the hashes would not see it.
- *The walk* (`StoryInv`, `WalkStory`). What has been come to is an initial part
  of what there is to walk, in the contract's order; of it exactly those files
  are placed that the contract admits, whose bytes are counted. The next file in
  the walk's order is the first that has not been come to (`NextInOrder`), what
  is admitted does not depend on later files (`LaterIsNothing`), and the walk
  refuses it just when the contract does (`WhatIsAdmitted`, from the cardinality
  of what came before). A file that could be read is left out only with
  `truncated` set (`MissingIsTold`).
- *The scanners* (`ReadInv`, `ScanStory`). The findings are exactly those of the
  items that each scanner has been through and did not fail on. A placed file is
  read as it was hashed (`ReadAsHashed`) and whole, since the limit on its size
  is at most what is read. The cursor adds one item at a time (`CursorGoesOn`)
  and has been through all of them when the scan ends (`Ordered`).
- *The report.* Deduplication keeps one finding of a rule in a place
  (`OnePlace`). The rule tells its scanner (`Home`), so a finding for a skipped
  file never takes the place of one of a scanner, and the report and the
  contract's reference are one to one (`ReportTells`, `WhatIsCalledFor`).

**Life of an assessment.** For any runs, people, findings and domains, under
the assumptions of `Scoring`, `AssessmentTables`, `Governance` and `Assistant`:

| Theorem | Says |
|---|---|
| `LifecycleInvariant` (`LifecycleProofs`) | `Spec => []LifecycleInv` |
| `TypeCorrect` | `Spec => []TypeOK` |
| `CompletedIsAlwaysWhole` | what a completed assessment holds |
| `CoverageAlwaysAgrees` | domains that no scanned file maps to, and no others, are short of evidence in scores and evaluations alike |
| `ReadersAlwaysAgree` | `Spec => []ReadersAgree` |
| `DecisionsInvariant` (`LifecycleDecisionsProofs`) | `Spec => []DecisionsInv` |
| `ReviewIsAlwaysAccountedFor`, `VerdictIsAlwaysAccountedFor` | the trail has every decision, under every overlap |
| `SignOffIsAlwaysRight` | `Spec => SignOffIsRight` |
| `ExclusiveInvariant` | `ExclusiveSpec => []ExclusiveInv` |
| `TrailAlwaysTellsReview`, `OverridesAlwaysTakeEffect` | `ExclusiveSpec =>` the property: the last decision on the trail is in force when no two transactions on its subject are open at a time, stale pages allowed |
| `PagesAlwaysTell` (`LifecycleReadersProofs`) | `Spec => []PagesTell` |
| `AnswersAreAlwaysOnTrail`, `SummariesAreAlwaysOnTrail`, `OmissionsAreAlwaysTold` | the assistant's properties |
| `TablesImplementRecord` | `Spec => ImplementsRecord` |

`LifecycleInv` has the types, and with them that every row, session and page is
about rows that are stored, and four facts about the tables:

- `Progress`: the phase of a run fixes what its tables hold, and a run that has
  ended left them in one of four shapes (nothing saved, saved, scored,
  evaluated). The engine's scores, gaps, evidence and recommendations are those
  of all findings of the scan, whatever managers did in between, because
  reviews change no finding's rule or severity and overrides add rows that are
  not the engine's.
- `Completion`: an assessment on the trail as completed is evaluated and its
  counts are those of the tables.
- `ScoresOrdered`: within a domain no two rows have one time, an override is
  later than the row it is of, and one row is the last. The two readers of the
  score in force then name the same row: a row that nothing overrides is the
  last one or has a later one, which is what `ReadersAgree` needs.
- `OverridesOrdered`: a row that is inserted and not yet committed has a time
  that no other row has, committed or not.

`DecisionsInv` adds that a finding names a reviewer exactly when it is decided
(`ReviewsStay`), that override rows and their rows of the trail are one to one
(`OverridesOnTrail`), and that a check has read the scores in force unless one
was overridden after it read (`ChecksRead`). `ExclusiveInv` adds what only
holds when no two transactions on a subject overlap: what a session has read of a
finding is still there (`ReadsCurrent`), the last review of the trail is the
one shown (`ReviewInForce`), a flushed row is later than those committed
(`FlushedIsLatest`), and the last override of the trail is in force
(`OverrideInForce`). `PagesTell` follows a request of the assistant from the
read to the page.

`TablesImplementRecord` maps `Save` to the record's `Store`, `ScoreAndGenerate`
to `Judge`, `Evaluate` and `Complete` to its `Evaluate` and `Conclude`,
`CommitReview` to `Decide` and `CommitOverride` to `Overrule`; every other step
changes nothing of the record. The proofs use that there is a domain
(`DomainsAssumption`): the enumeration of the code has sixteen members.

**Comparison.** For any kinds of line, any sources and any bounds on their
length, under `DomainsAssumption` and `ChecksAssumption` (`ComparisonProofs`):

| Theorem | Says |
|---|---|
| `LinesInvariant` | `Spec => []LinesHold` |
| `FindingsAreNeverLost` | `Spec => []NoFindingIsLost` |
| `ChoiceNeverMatters` | `Spec => []ChoiceDoesNotMatter` |
| `EditsAreAlwaysTold` | `Spec => EditsAreTold`: steps that add one finding |
| `VerdictsNeverGetBetter` | `Spec => NeverBetter` |
| `OverridesAreAlwaysShown` | `Spec => []OverridesAreShown` |
| `ChangesAreAlwaysExplained` | `Spec => []ChangesAreExplained`: from ranked verdict to ranked verdict, without override, where keys tell weights |

- *Slots.* Findings that share a key are matched by their positions in order.
  The nth finding of a key occupies the slot `<<key, n>>`; different findings
  of one assessment occupy different slots, and the slots of a key begin at one
  without gaps (`PositionsCount`, `SlotsCount`; counts agree along a one-to-one
  map, `CountedByMap`). A finding is new
  when its slot is not taken on the other side, unchanged when it is, and
  resolved when only the earlier side has it (`ComparedBySlots`), so that
  nothing is lost and counts agree.
- *Edits.* Inserting a line moves the findings below it and keeps their order,
  so it adds the slot after the last one of its key, or none when the line has
  no finding (`SlotsOfLonger`). That one slot is taken by the other side or is
  not (`ToldBySlots`), and these are the two cases of `EditsAreTold`.
- *Verdicts.* A deduction is a sum over a set of findings. `SumExists` and
  `SumOfAny` say that the sum exists and does not depend on the order in which
  it is taken, by a least counterexample among subsets since the library's
  induction over finite sets is out of reach; `SumIsMonotone` compares two sums
  along an injection of the findings. `VerdictIsMonotone` takes that through
  the thresholds and the severities that force a category.
- *Overrides.* Each domain has one row of the engine and at most one override,
  which names that row; the row in force is therefore unique
  (`EngineAlone`, `EngineOverridden`). At most one override is a bound of the
  model, which `Override` states.
- *Explanations.* If a domain's verdict is worse and none of its findings is
  new, then every finding of it is matched with an earlier one of the same key,
  hence of the same weight (`KeysTellWeight`), and the earlier sum was at least
  as large: the contradiction is `VerdictIsMonotone` again.

**Only model-checked.** Liveness (`RunsEnd`, `EveryScanAnswers`), which is beyond
this prover. The theorems
about `ExclusiveSpec` say nothing about overlapping operations; section 5 does.
What the runs with a counterexample refute is, of course, not proved: it is
false.

## 7. What is not modelled, and why

- *Masking, redaction, retention.* Substitution over text, whose results are
  values of the models; retention lists old scans and changes nothing.
- *Regular expressions of the rule scanners.* What matches is data; what a
  scanner makes of the matches is modelled.
- *Reporting, pages, layout.* Formatting of what other components decide.
- *Retrieval and vector stores.* Not called by any component of the platform
  yet; the nearest-neighbour search is a library's.
- *Configuration, logging, enumerations.* Constants of the models.
- *Schema migrations, entry point.* One process, once, before the application
  starts.
- *`ScoringRepository.review_recommendation`* (`storage/db/repositories.py:385`).
  Only its unit tests call it.
- *Providers that answer.* No adapter of this build sends anything.
- *The selection on the review page.* The browser framework's.
- *Denied attempts* on other services than user administration: an audit row
  and nothing else.
- *Scanned fixtures.* Input of the scanners.

The hazards this leaves uncovered are named in `PROJECT.json` with the reason.

## 8. Running

    tlc -workers 2 -config accounts_exclusive.cfg MCAccounts
    tlc -workers 2 -config lifecycle_runs.cfg MCLifecycle
    tlc -workers 2 -config scanning.cfg MCScanRun
    tlc -workers 2 -config comparison.cfg MCComparison
    tlapm AccountsProofs.tla

Configurations named `accounts_*`, `race_last_admin` and `race_lockout` belong
to `MCAccounts`, those named `lifecycle_*`, `race_override` and `race_signoff`
to `MCLifecycle`, `scanning` and `file_failures` to `MCScanRun`. `AccountsExclusiveProofs` and `AccountsOverlapProofs` cite the
lemmas of `AccountsProofs`; `LifecycleDecisionsProofs` extends
`LifecycleProofs`, and `LifecycleReadersProofs` extends both; `ScanRunProofs`
and `ComparisonProofs` stand by themselves. Every run ends within four
minutes; the runs named `race_*` and `file_failures` end with a counterexample.
