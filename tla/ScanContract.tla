---------------------------- MODULE ScanContract ----------------------------
(***************************************************************************)
(* What a scan promises its caller, without the walk, the cursor and the   *)
(* temporary directory.  It looks at the source once, when it begins, and  *)
(* answers at some later moment: if the source is still the same, with     *)
(* exactly what the scanners find in the files that the settings admit,    *)
(* less what a scanner failed on; otherwise with a report marked failed.   *)
(***************************************************************************)
EXTENDS SourceTree

CONSTANTS Scanners, None, Raised

VARIABLES
  seen,     \* the files as they were when the scan began
  answer    \* None, Raised or a report

contractVars == <<treeVars, seen, answer>>

Was(f) == IF f \in DOMAIN seen THEN seen[f] ELSE Absent

OpenedTo(f) == Was(Resolved(f))

Walkable(f) ==
  \E dir \in DirSet : /\ Entered(dir) /\ dir.depth <= Settings.maxDepth
                      /\ f \in FilesOf(dir) /\ ~Source.files[f].ignored

Walked == {f \in Files : Walkable(f) /\ Was(f).there}

\* Every link that is followed leads to a file that the hash has an entry for.
\* The settings may have the scan read what is in a directory of an ignored
\* name through a link; of what lies there the scan promises nothing.
LinksAreSeen ==
  \A f \in Files :
    Settings.followSymlinks /\ Source.files[f].link = "inside" =>
      \E dir \in DirSet : Entered(dir) /\ Resolved(f) \in FilesOf(dir)

\* Of the directories in their order, the files of each in theirs.
Precedes(f, g) ==
  \E i, j \in DOMAIN Dirs :
    \E k \in DOMAIN Dirs[i].files, l \in DOMAIN Dirs[j].files :
      /\ f = Dirs[i].files[k] /\ g = Dirs[j].files[l]
      /\ i < j \/ (i = j /\ k < l)

Before(f, files) == {g \in files : Precedes(g, f)}

\* What is in these files; a line stands for its bytes.
Contents(files) ==
  UNION {{<<f, l>> : l \in DOMAIN OpenedTo(f).text} : f \in files}

\* What the scan would read if there were nothing else.
Eligible(f) ==
  /\ IsSymlink(f) => Settings.followSymlinks /\ Source.files[f].link = "inside"
  /\ Source.files[f].supported
  /\ OpenedTo(f).readable
  /\ Size(OpenedTo(f)) <= Settings.maxFileSize

\* A file is read if the ones before it, counted whether read or not, leave it
\* room, and those of them that are read leave room for its bytes.
Admits(read, f) ==
  /\ Eligible(f)
  /\ Cardinality(Before(f, Walked)) < Settings.maxCount
  /\ Cardinality(Contents(Before(f, read))) + Size(OpenedTo(f))
       <= Settings.maxTotalSize

Admission(read) == \A f \in Walked : f \in read <=> Admits(read, f)

Place(f, scanner, raw) ==
  [file |-> f, scanner |-> scanner, rule |-> raw.rule.id, first |-> raw.first,
   last |-> raw.last]

\* What the scanners find in these files, less those that they missed.
Reference(read, missed) ==
  UNION {UNION {{Place(f, scanner, raw) :
                   raw \in IF OpenedTo(f).binary THEN {}
                           ELSE Scan(scanner, OpenedTo(f).text)} :
           f \in {g \in read : [by |-> scanner, file |-> g] \notin missed}} :
         scanner \in {Scanners[i] : i \in DOMAIN Scanners}}

\* What the report says of files that were read, each place once.
OfContents(report) ==
  {x \in report.findings : x.scanner # "unsupported_sensitive_file"}

TellsWhatWasRead(report, read) ==
  /\ {Place(x.file, x.scanner, x.raw) : x \in OfContents(report)}
       = Reference(read, report.failures)
  /\ Cardinality(OfContents(report)) = Cardinality(Reference(read, report.failures))
  /\ report.filesScanned = Cardinality(read)
  /\ report.filesScanned + report.filesSkipped = Cardinality(Walked)

\* A scan that calls itself completed has read all that it could.
NothingMissed(report, read) ==
  report.status = "completed" => {f \in Walked : Eligible(f)} = read

Honest(report) ==
  \E read \in SUBSET Walked :
    Admission(read) /\ TellsWhatWasRead(report, read) /\ NothingMissed(report, read)

Init ==
  /\ scenario \in Scenarios
  /\ disk = Source.disk
  /\ touched = {}
  /\ seen = None
  /\ answer = None

\* An archive is extracted; the owner of a directory changes it.
SourceChanges ==
  /\ IsArchive => seen = None
  /\ disk' # disk
  /\ UNCHANGED <<scenario, seen, answer>>

Begin ==
  /\ seen = None /\ answer = None
  /\ seen' = ComputeSourceIntegrityHash
  /\ UNCHANGED <<treeVars, answer>>

Refuse ==
  /\ answer = None
  /\ answer' = Raised
  /\ UNCHANGED <<treeVars, seen>>

Answer ==
  /\ answer = None /\ seen # None
  /\ answer' \notin {None, Raised}
  /\ answer'.verified <=> seen = ComputeSourceIntegrityHash
  /\ answer'.verified <=> answer'.status # "failed"
  /\ answer'.status = "completed" => answer'.failures = {}
  /\ answer'.verified /\ LinksAreSeen => Honest(answer')
  /\ UNCHANGED <<treeVars, seen>>

Next == SourceChanges \/ Begin \/ Refuse \/ Answer

Spec == Init /\ [][Next]_contractVars
=============================================================================
