--------------------------- MODULE ScanRunSafety ----------------------------
(***************************************************************************)
(* What must be true of a scan while it runs and when it has answered.     *)
(***************************************************************************)
EXTENDS ScanRun

CONSTANT Raised   \* the answer of a scan that could not run

ASSUME RaisedAssumption ==
  /\ Raised # None
  /\ \A s \in Scenarios : Raised \notin ReportOn(DOMAIN s.source.files)

Phases ==
  {"asked", "made", "extracting", "accepted", "discovering", "scanning",
   "scanned", "raising", "returning"} \cup Ended

Items == [file : Files, state : State]

Skips == [file : Files, reason : SkipReasons]

Placed == {Inventory[k].file : k \in DOMAIN Inventory}

LeftOut == {walk.skipped[k].file : k \in DOMAIN walk.skipped}

\* Every variable has the shape that the code which reads it expects.
TypeOK ==
  /\ scenario \in Scenarios
  /\ disk \in [Files -> State]
  /\ touched \subseteq Files
  /\ phase \in Phases
  /\ temp \in {"none", "present", "removed", "stuck"}
  /\ unpacked \in 0 .. Len(Entries)
  /\ walk \in [dir : 0 .. Len(Dirs), todo : SUBSET Files, found : Nat, bytes : Nat,
               truncated : BOOLEAN, inventory : Seq(Items), skipped : Seq(Skips)]
  /\ executions \in [Executions -> [processed : SUBSET Files,
                                    errored : SUBSET Files]]
  /\ phase = "scanning" =>
       cursor \in [scanner : Executions, item : DOMAIN Inventory]
  /\ hashBefore # None => hashBefore \in [DOMAIN hashBefore -> State]
                          /\ DOMAIN hashBefore \subseteq Files
  /\ findings \subseteq Finding(Files)
  /\ report \in {None} \cup ReportOn(Files)

\* Every file that the walk has come to is in the inventory or left out for a
\* reason, never both and never twice, in the order of the walk, and counted;
\* what it has listed and not come to is all it owes.
EveryFileHasAPlace ==
  /\ walk.found = Len(Inventory) + Len(walk.skipped)
  /\ Placed \cap LeftOut = {}
  /\ Cardinality(Placed) = Len(Inventory)
  /\ Cardinality(LeftOut) = Len(walk.skipped)
  /\ \A i \in DOMAIN Dirs : \A f \in FilesOf(Dirs[i]) \ touched :
       f \in Placed \cup LeftOut \cup walk.todo
         <=> i <= walk.dir /\ Reached(Dirs[i]) /\ IsListed(f)

\* The inventory is within the limits on the number and the size of files at
\* their boundaries and holds nothing from outside the root, and a scan from
\* which the number or the total size left a file out is called truncated.
\* Nothing is said of the depth: what lies beyond that limit is left out, and
\* the scan is not called truncated for it, though file_discovery.py:120
\* names the depth too.
LimitsHold ==
  /\ Len(Inventory) <= Settings.maxCount
  /\ walk.bytes <= Settings.maxTotalSize
  /\ \A k \in DOMAIN Inventory :
       /\ Size(Inventory[k].state) <= Settings.maxFileSize
       /\ ~NotFollowed(Inventory[k].file)
  /\ (\E k \in DOMAIN walk.skipped : walk.skipped[k].reason \in Truncating)
       => walk.truncated

\* A scan that has ended by itself leaves no temporary directory but one that
\* could not be removed, and of a rejected archive nothing was ever written.
ArchivesLeaveNothing ==
  /\ phase \in {"raised", "returned"} => temp # "present"
  /\ unpacked > 0 => ValidMembers
  /\ temp = "none" => unpacked = 0

\* The scan keeps its promise.
Contract == INSTANCE ScanContract WITH
  seen <- hashBefore,
  answer <- IF phase = "raised" THEN Raised ELSE report

ImplementsContract == Contract!Spec

\* A scan that was asked for is answered, unless the process stops.
EveryScanAnswers == <>(phase \in Ended)

(***************************************************************************)
(* What the code says of itself.                                           *)
(***************************************************************************)
\* Failures of single files are recorded and the scan that met one completes
\* with warnings (run_scan).
FileFailuresWarn ==
  phase = "returned" /\ report.status = "completed" =>
    \A k \in DOMAIN walk.skipped : walk.skipped[k].reason # "unreadable"
=============================================================================
