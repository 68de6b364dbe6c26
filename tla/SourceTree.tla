----------------------------- MODULE SourceTree -----------------------------
(***************************************************************************)
(* What a scan is asked to read: a directory, or an archive that becomes   *)
(* one.  The directories are those that os.walk yields, in its order, and  *)
(* the files of each are in the order of their names.  The scan never      *)
(* writes to them; whoever owns the source may, while it is scanned.       *)
(***************************************************************************)
EXTENDS FileClassification, ScanRules

CONSTANT Scenarios   \* the settings and the source of a scan

VARIABLES
  scenario,   \* the one that happens
  disk,       \* what is at the path of each file
  touched     \* files that have changed since the scan was asked for

treeVars == <<scenario, disk, touched>>

\* What stat and open find at a path.  The size of a file is its lines; text
\* is what its bytes decode to, and a binary file has a null byte in its head.
State == [there : BOOLEAN, readable : BOOLEAN, binary : BOOLEAN, text : Seq(Line)]

Absent == [there |-> FALSE, readable |-> FALSE, binary |-> FALSE, text |-> <<>>]

\* The sources that there are: names are those of files of the tree, each in
\* one place of it; a link inside the root leads to one of them in the end.
DirectoryOf(files) ==
  [depth : Nat, ignored : BOOLEAN, listable : BOOLEAN, files : Seq(files)]

EntryOf(files) ==
  [name : files, directory : BOOLEAN, safeName : BOOLEAN, symlink : BOOLEAN,
   compressed : Nat, state : State]

SourceShape(source) ==
  LET files == DOMAIN source.files  IN
  /\ source.disk \in [files -> State]
  /\ \A f \in files : /\ source.changes[f] \subseteq State
                      /\ source.files[f].link \in {"no", "inside", "escapes"}
                      /\ source.files[f].link = "inside" =>
                           /\ source.files[f].target \in files
                           /\ source.files[source.files[f].target].link = "no"
  /\ source.dirs \in Seq(DirectoryOf(files))
  /\ source.entries \in Seq(EntryOf(files))
  /\ \A i, j \in DOMAIN source.dirs :
       \A k \in DOMAIN source.dirs[i].files, l \in DOMAIN source.dirs[j].files :
         source.dirs[i].files[k] = source.dirs[j].files[l] => i = j /\ k = l

ASSUME ScenariosAssumption ==
  \A s \in Scenarios :
    /\ SourceShape(s.source)
    /\ {s.settings.maxCount, s.settings.maxFileSize, s.settings.maxTotalSize,
        s.settings.maxDepth} \subseteq Nat

Settings == scenario.settings

Source == scenario.source

Dirs == Source.dirs

DirSet == {Dirs[i] : i \in DOMAIN Dirs}

Files == DOMAIN Source.files

Size(state) == Len(state.text)

IsArchive == Source.kind = "archive"

IsSymlink(f) == Source.files[f].link # "no"

\* resolve: where a path leads that does not leave the root.
Resolved(f) == IF Source.files[f].link = "inside" THEN Source.files[f].target ELSE f

Opened(f) == disk[Resolved(f)]

CanOpen(f) == Opened(f).there /\ Opened(f).readable

\* Directories with an ignored name are pruned from the walk with all that is
\* below them, and os.walk passes over one it cannot list.
Entered(dir) == ~dir.ignored /\ dir.listable

\* compute_source_integrity_hash has an entry for each file of the walk, at any
\* depth, those of ignored names too; the hash stands for them.
HashEntry(f) ==
  IF IsSymlink(f) THEN [Absent EXCEPT !.there = TRUE, !.binary = TRUE]
  ELSE IF ~disk[f].readable THEN [Absent EXCEPT !.there = TRUE]
  ELSE disk[f]

FilesOf(dir) == {dir.files[k] : k \in DOMAIN dir.files}

Hashed ==
  {f \in UNION {FilesOf(dir) : dir \in {d \in DirSet : Entered(d)}} :
     disk[f].there}

ComputeSourceIntegrityHash == [f \in Hashed |-> HashEntry(f)]

\* The owner of a directory writes, adds, removes or locks a file of it, each
\* at most once (a bound).
Change(f) ==
  /\ ~IsArchive
  /\ f \notin touched
  /\ \E state \in Source.changes[f] \ {disk[f]} :
       disk' = [disk EXCEPT ![f] = state]
  /\ touched' = touched \cup {f}
  /\ UNCHANGED scenario
=============================================================================
