-------------------------- MODULE ScanOrchestrator --------------------------
(***************************************************************************)
(* run_scan (scanners/scan_orchestrator.py) and the callers that clean up  *)
(* after it (assessment/engine.py, auth/secured_services.py): the source   *)
(* is hashed, discovered, read by one scanner after the other and hashed   *)
(* again; the temporary directory is removed whether it went well or not.  *)
(***************************************************************************)
EXTENDS Discovery

CONSTANTS
  Scanners,      \* the scanners that run, in their order
  ReadLimit,     \* _DEFAULT_MAX_READ_BYTES, in lines
  MaxFailures,   \* bound: times that a scanner raises
  None           \* neither a report nor a hash

ASSUME ScannersAssumption ==
  /\ Scanners \in Seq({ContentScanners[i] : i \in DOMAIN ContentScanners})
  /\ \A i, j \in DOMAIN Scanners : Scanners[i] = Scanners[j] => i = j

\* The settings keep the files that are admitted below what is read of one.
ASSUME BoundsAssumption ==
  /\ ReadLimit \in Nat /\ MaxFailures \in Nat
  /\ \A s \in Scenarios : s.settings.maxFileSize <= ReadLimit

Severities == {"INFO", "LOW", "MEDIUM", "HIGH", "CRITICAL"}

BankingDomains == {FlagDomain[flag] : flag \in DOMAIN FlagDomain}
                    \cup {TerminologyDomain[w] : w \in DOMAIN TerminologyDomain}

\* What is found in files with these names, and what is reported of them.
ReportingScanners ==
  {ContentScanners[i] : i \in DOMAIN ContentScanners} \cup {"unsupported_sensitive_file"}

RulesReported ==
  MatchingRules \cup {SensitiveOpWithoutAudit, AuditRecordMissingFields}
    \cup {Rule("SKIP-001", severity, "LOW") : severity \in Severities}

Raw == [rule : RulesReported, first : Nat, last : Nat, nth : {1, 2}]

Finding(files) ==
  [file : files, scanner : ReportingScanners, domains : SUBSET BankingDomains,
   raw : Raw]

ReportOn(files) ==
  [status : {"failed", "completed_with_warnings", "completed"},
   verified : BOOLEAN, truncated : BOOLEAN, filesFound : Nat, filesScanned : Nat,
   filesSkipped : Nat, failures : SUBSET [by : ReportingScanners, file : files],
   findings : SUBSET Finding(files),
   bySeverity : [Severities -> Nat], byDomain : [BankingDomains -> Nat]]

ASSUME NoneAssumption ==
  \A s \in Scenarios :
    \A files \in {DOMAIN s.source.files} :
      /\ \A fs \in SUBSET files : None \notin [fs -> State]
      /\ None \notin ReportOn(files)

VARIABLES
  hashBefore,   \* of the source, as the scan found it
  cursor,       \* the scanner that runs and the item it reads next
  executions,   \* of each scanner: the files it read and those it could not
  findings,     \* of all scanners, with what is found twice
  report        \* the summary that run_scan returns

scanVars == <<hashBefore, cursor, executions, findings, report>>

Inventory == walk.inventory

Executions == DOMAIN Scanners

NotRun == [processed |-> {}, errored |-> {}]

\* A finding as the orchestrator normalises it.
Normalized(f, scanner, domains, raw) ==
  [file |-> f, scanner |-> scanner, domains |-> domains, raw |-> raw]

DomainsOf(f) == MapFileToDomains(Source.files[f].words)

\* read_text_safely: the head of a file, without a word on what is cut off.
ReadText(state) ==
  SubSeq(state.text, 1, IF Len(state.text) < ReadLimit THEN Len(state.text)
                                                       ELSE ReadLimit)

FindingsIn(f, scanner, text) ==
  {Normalized(f, scanner, DomainsOf(f), raw) : raw \in Scan(scanner, text)}

HashBefore ==
  /\ phase = "accepted"
  /\ hashBefore' = ComputeSourceIntegrityHash
  /\ phase' = "discovering"
  /\ UNCHANGED <<treeVars, temp, unpacked, walk, cursor, executions, findings,
                 report>>

EndDiscovery ==
  /\ phase = "discovering" /\ Discovered
  /\ phase' = IF Inventory = <<>> \/ Scanners = <<>> THEN "scanned" ELSE "scanning"
  /\ UNCHANGED <<treeVars, temp, unpacked, walk, scanVars>>

\* ScanError: the source cannot be hashed or walked.
ScanCannotRun ==
  /\ phase \in {"accepted", "discovering", "scanned"}
  /\ phase' = "raising"
  /\ UNCHANGED <<treeVars, temp, unpacked, walk, scanVars>>

Current == Inventory[cursor.item].file

CurrentScanner == Scanners[cursor.scanner]

AfterItem ==
  IF cursor.item < Len(Inventory) THEN [cursor EXCEPT !.item = @ + 1]
                                  ELSE [scanner |-> cursor.scanner + 1, item |-> 1]

\* Mutant of LastItem: the scanners are not counted.
LastFile == cursor.item = Len(Inventory) /\ cursor.scanner > Len(Scanners)

LastItem == cursor.item = Len(Inventory) /\ cursor.scanner = Len(Scanners)

NextItem ==
  /\ cursor' = AfterItem
  /\ phase' = IF LastItem THEN "scanned" ELSE phase
  /\ UNCHANGED <<treeVars, temp, unpacked, walk, hashBefore, report>>

\* Mutant of Errored: what the scanner found so far goes with the file.
ErroredForAll(f) ==
  /\ executions' = [executions EXCEPT ![cursor.scanner].errored = @ \cup {f}]
  /\ findings' = {x \in findings : x.scanner # CurrentScanner}

Errored(f) ==
  /\ executions' = [executions EXCEPT ![cursor.scanner].errored = @ \cup {f}]
  /\ UNCHANGED findings

\* Mutant of FileUnreadable: it is tried again.
FileIsTriedAgain ==
  /\ phase = "scanning" /\ ~CanOpen(Current)
  /\ Errored(Current)
  /\ UNCHANGED <<treeVars, ingestVars, walk, hashBefore, cursor, report>>

\* The file is gone or locked since discovery.
FileUnreadable ==
  /\ phase = "scanning" /\ ~CanOpen(Current)
  /\ Errored(Current)
  /\ NextItem

\* BinaryContentError: counted neither as read nor as failed.
FileIsBinary ==
  /\ phase = "scanning" /\ CanOpen(Current) /\ Opened(Current).binary
  /\ NextItem
  /\ UNCHANGED <<executions, findings>>

\* The files that each scanner could not read, as the executions tell.
Failures ==
  UNION {{[by |-> Scanners[i], file |-> f] : f \in executions[i].errored} :
           i \in Executions}

ScannerRaises ==
  /\ phase = "scanning" /\ CanOpen(Current) /\ ~Opened(Current).binary
  /\ Cardinality(Failures) < MaxFailures
  /\ Errored(Current)
  /\ NextItem

FileScanned ==
  /\ phase = "scanning" /\ CanOpen(Current) /\ ~Opened(Current).binary
  /\ executions' = [executions EXCEPT ![cursor.scanner].processed = @ \cup {Current}]
  /\ findings' = findings \cup
       FindingsIn(Current, CurrentScanner, ReadText(Opened(Current)))
  /\ NextItem

\* scan_skipped_files: what was left out and may matter by its name.
SkipSeverity ==
  [count_limit |-> "LOW", symlink |-> "LOW", unreadable |-> "INFO",
   size_limit |-> "LOW", total_size_limit |-> "LOW", unsupported_type |-> "MEDIUM"]

SkipFinding(skip) ==
  Normalized(skip.file, "unsupported_sensitive_file", {},
             RawFinding(Rule("SKIP-001", SkipSeverity[skip.reason], "LOW"), 0, 0, 1))

ScanSkippedFiles ==
  {SkipFinding(walk.skipped[k]) :
     k \in {i \in DOMAIN walk.skipped :
              LooksSensitiveByName(Source.files[walk.skipped[i].file].words)}}

\* One finding of a rule in a place of a file.
Deduplicate(found) ==
  {CHOOSE x \in found : /\ x.file = g.file /\ x.raw.rule.id = g.raw.rule.id
                        /\ x.raw.first = g.raw.first /\ x.raw.last = g.raw.last
     : g \in found}

Status(verified, errors, truncated) ==
  IF ~verified THEN "failed"
  ELSE IF errors \/ truncated THEN "completed_with_warnings" ELSE "completed"

\* What run_scan returns, the lists of its result included.
Summary(found, verified) ==
  [status |-> Status(verified, Failures # {}, walk.truncated),
   verified |-> verified,
   truncated |-> walk.truncated,
   filesFound |-> walk.found,
   filesScanned |-> Len(Inventory),
   filesSkipped |-> Len(walk.skipped),
   failures |-> Failures,
   findings |-> found,
   bySeverity |-> [s \in Severities |->
                     Cardinality({x \in found : x.raw.rule.severity = s})],
   byDomain |-> [d \in BankingDomains |->
                   Cardinality({x \in found : d \in x.domains})]]

Report ==
  /\ phase = "scanned"
  /\ report' = Summary(Deduplicate(findings \cup ScanSkippedFiles),
                       hashBefore = ComputeSourceIntegrityHash)
  /\ phase' = "returning"
  /\ UNCHANGED <<treeVars, temp, unpacked, walk, hashBefore, cursor, executions,
                 findings>>

\* The callers' finally: SourceHandle.cleanup.
Cleanup ==
  /\ phase \in {"raising", "returning"}
  /\ Discard(IF phase = "raising" THEN "raised" ELSE "returned")
  /\ UNCHANGED <<treeVars, unpacked, walk, scanVars>>

Ended == {"raised", "returned", "stopped"}

\* The process stops; nobody comes back for the temporary directory.
Stop ==
  /\ phase \notin Ended
  /\ phase' = "stopped"
  /\ UNCHANGED <<treeVars, temp, unpacked, walk, scanVars>>
=============================================================================
