----------------------------- MODULE Ingestion ------------------------------
(***************************************************************************)
(* How a source becomes a root to scan (scanners/source_ingestion.py and   *)
(* path_validator.py): a directory is accepted or not; an archive has its  *)
(* entries checked and is extracted, one entry after the other, to a       *)
(* temporary directory that must be gone in the end.                       *)
(***************************************************************************)
EXTENDS SourceTree

VARIABLES
  phase,      \* where the caller of the scan is
  temp,       \* the temporary directory of an archive
  unpacked    \* how many entries of the archive have been written

ingestVars == <<phase, temp, unpacked>>

\* Fails closed: with no allowed path nothing is valid.
ValidScanPath(path) ==
  path.exists /\ path.directory /\ path.under \cap Settings.allowed # {}

\* For an archive the directory that holds it is what has to be allowed.
SourceAccepted ==
  /\ ValidScanPath(Source.path)
  /\ IsArchive => Source.file /\ Source.zip

Entries == Source.entries

Expanded ==
  LET upTo[k \in 0 .. Len(Entries)] ==
        IF k = 0 THEN 0 ELSE upTo[k - 1] + Size(Entries[k].state)
  IN  upTo[Len(Entries)]

\* _validate_archive_members, before anything is written.  The ratio of an
\* entry with no compressed bytes is not looked at.
ValidMember(entry) ==
  /\ entry.safeName
  /\ entry.compressed > 0 =>
       Size(entry.state) <= Settings.maxRatio * entry.compressed
  /\ ~entry.symlink

ValidMembers ==
  /\ Len(Entries) <= Settings.maxEntries
  /\ \A k \in DOMAIN Entries : ValidMember(Entries[k])
  /\ Expanded <= Settings.maxUncompressed

\* rmtree(ignore_errors=True) may leave something behind, and tells nobody.
RemoveTemp ==
  IF temp = "present" THEN temp' \in {"removed", "stuck"} ELSE temp' = temp

\* Mutant of Discard: the error is passed on as it is.
RaiseAsItIs(to) == phase' = to /\ UNCHANGED temp

Discard(to) == phase' = to /\ RemoveTemp

AcceptDirectory ==
  /\ phase = "asked" /\ ~IsArchive /\ SourceAccepted
  /\ phase' = "accepted"
  /\ UNCHANGED <<treeVars, temp, unpacked>>

RefuseSource ==
  /\ phase = "asked" /\ ~SourceAccepted
  /\ phase' = "raised"
  /\ UNCHANGED <<treeVars, temp, unpacked>>

TempDirFails ==
  /\ phase = "asked" /\ IsArchive /\ SourceAccepted
  /\ phase' = "raised"
  /\ UNCHANGED <<treeVars, temp, unpacked>>

MakeTempDir ==
  /\ phase = "asked" /\ IsArchive /\ SourceAccepted
  /\ phase' = "made"
  /\ temp' = "present"
  /\ UNCHANGED <<treeVars, unpacked>>

ValidateMembers ==
  /\ phase = "made" /\ ValidMembers
  /\ phase' = "extracting"
  /\ UNCHANGED <<treeVars, temp, unpacked>>

RejectMembers ==
  /\ phase = "made" /\ ~ValidMembers
  /\ Discard("raised")
  /\ UNCHANGED <<treeVars, unpacked>>

\* An entry that is a directory is passed over.
ExtractEntry ==
  LET entry == Entries[unpacked + 1]  IN
  /\ phase = "extracting" /\ unpacked < Len(Entries)
  /\ disk' = IF entry.directory THEN disk
             ELSE [disk EXCEPT ![entry.name] = entry.state]
  /\ unpacked' = unpacked + 1
  /\ UNCHANGED <<scenario, touched, phase, temp>>

\* The archive is damaged, a file is where a directory must be, the disk is
\* full: any exception.
ExtractionFails ==
  /\ phase \in {"made", "extracting"}
  /\ Discard("raised")
  /\ UNCHANGED <<treeVars, unpacked>>

EndExtraction ==
  /\ phase = "extracting" /\ unpacked = Len(Entries)
  /\ phase' = "accepted"
  /\ UNCHANGED <<treeVars, temp, unpacked>>
=============================================================================
