------------------------------ MODULE ScanRun -------------------------------
(***************************************************************************)
(* One scan, from the request to the answer.  Scans share nothing but the  *)
(* disk: a scan of an archive has a temporary directory of its own, and a  *)
(* directory is changed by its owner while it is read.                     *)
(***************************************************************************)
EXTENDS ScanOrchestrator

vars == <<treeVars, ingestVars, walk, scanVars>>

Init ==
  /\ scenario \in Scenarios
  /\ disk = Source.disk
  /\ touched = {}
  /\ phase = "asked"
  /\ temp = "none"
  /\ unpacked = 0
  /\ walk = NewWalk
  /\ hashBefore = None
  /\ cursor = [scanner |-> 1, item |-> 1]
  /\ executions = [i \in Executions |-> NotRun]
  /\ findings = {}
  /\ report = None

Ingest ==
  \/ AcceptDirectory
  \/ RefuseSource
  \/ TempDirFails
  \/ MakeTempDir
  \/ ValidateMembers
  \/ RejectMembers
  \/ ExtractEntry
  \/ ExtractionFails
  \/ EndExtraction

Discover ==
  \/ EnterDirectory
  \/ \E f \in walk.todo : SkipFile(f)
  \/ \E f \in walk.todo : AdmitFile(f)

RunScan ==
  \/ HashBefore
  \/ EndDiscovery
  \/ FileUnreadable
  \/ FileIsBinary
  \/ ScannerRaises
  \/ FileScanned
  \/ Report
  \/ ScanCannotRun
  \/ Cleanup

Advance ==
  \/ Ingest /\ UNCHANGED <<walk, scanVars>>
  \/ Discover /\ UNCHANGED scanVars
  \/ RunScan

OwnerChanges(f) == Change(f) /\ UNCHANGED <<ingestVars, walk, scanVars>>

Next ==
  \/ Advance
  \/ \E f \in Files : OwnerChanges(f)
  \/ Stop

Spec == Init /\ [][Next]_vars

\* The thread of the scan goes on until it ends; it is stopped or not.
FairSpec == Spec /\ WF_vars(Advance)
=============================================================================
