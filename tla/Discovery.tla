----------------------------- MODULE Discovery ------------------------------
(***************************************************************************)
(* discover_files (scanners/file_discovery.py): the walk over the source   *)
(* that admits each file to the inventory, within the limits of the        *)
(* settings, or leaves it out for a reason.                                *)
(***************************************************************************)
EXTENDS Ingestion

VARIABLE walk

SkipReasons ==
  {"count_limit", "symlink", "unreadable", "size_limit", "total_size_limit",
   "unsupported_type"}

\* dir is where the walk is, and todo what it has listed there and not come
\* to; an item is a file with what was there when it was hashed.
NewWalk ==
  [dir |-> 0, todo |-> {}, found |-> 0, bytes |-> 0, truncated |-> FALSE,
   inventory |-> <<>>, skipped |-> <<>>]

Reached(dir) == Entered(dir) /\ dir.depth <= Settings.maxDepth

IsListed(f) == disk[f].there /\ ~Source.files[f].ignored

Listed(dir) == {f \in FilesOf(dir) : IsListed(f)}

\* Beyond the depth limit nothing is listed and nothing is recorded.
EnterDirectory ==
  /\ phase = "discovering" /\ walk.todo = {} /\ walk.dir < Len(Dirs)
  /\ LET dir == Dirs[walk.dir + 1]
     IN  walk' = [walk EXCEPT !.dir = @ + 1,
                              !.todo = IF Reached(dir) THEN Listed(dir) ELSE {}]
  /\ UNCHANGED <<treeVars, ingestVars>>

\* The names of a directory are taken in order.
ComesNext(f) ==
  LET names == Dirs[walk.dir].files  IN
  \E k \in DOMAIN names : /\ names[k] = f
                         /\ \A j \in 1 .. k - 1 : names[j] \notin walk.todo

NotFollowed(f) ==
  IsSymlink(f) /\ (~Settings.followSymlinks \/ Source.files[f].link = "escapes")

OverTotal(f) == walk.bytes + Size(Opened(f)) > Settings.maxTotalSize

\* Mutant of OverCount: compared before the file is counted.
CountedAfter == walk.found > Settings.maxCount

OverCount == walk.found >= Settings.maxCount

\* Why a file is left out, in the order in which the reasons are tried.
Refusal(f) ==
  IF OverCount THEN {"count_limit"}
  ELSE IF NotFollowed(f) THEN {"symlink"}
  ELSE IF ~Opened(f).there THEN {"unreadable"}
  ELSE IF Size(Opened(f)) > Settings.maxFileSize THEN {"size_limit"}
  ELSE IF OverTotal(f) THEN {"total_size_limit"}
  ELSE IF ~Source.files[f].supported THEN {"unsupported_type"}
  ELSE IF ~Opened(f).readable THEN {"unreadable"}
  ELSE {}

\* The limits whose effect the result calls truncated; the depth is not one.
Truncating == {"count_limit", "total_size_limit"}

\* Mutant of Recorded: a link is passed over in silence.
RecordedButLinks(f, reason) ==
  IF reason = "symlink" THEN walk.skipped
  ELSE Append(walk.skipped, [file |-> f, reason |-> reason])

Recorded(f, reason) == Append(walk.skipped, [file |-> f, reason |-> reason])

SkipFile(f) ==
  /\ phase = "discovering" /\ ComesNext(f)
  /\ \E reason \in Refusal(f) :
       walk' = [walk EXCEPT !.todo = @ \ {f}, !.found = @ + 1,
                            !.truncated = @ \/ reason \in Truncating,
                            !.skipped = Recorded(f, reason)]
  /\ UNCHANGED <<treeVars, ingestVars>>

AdmitFile(f) ==
  /\ phase = "discovering" /\ ComesNext(f)
  /\ Refusal(f) = {}
  /\ walk' = [walk EXCEPT
       !.todo = @ \ {f}, !.found = @ + 1, !.bytes = @ + Size(Opened(f)),
       !.inventory = Append(@, [file |-> f, state |-> Opened(f)])]
  /\ UNCHANGED <<treeVars, ingestVars>>

Discovered == walk.dir = Len(Dirs) /\ walk.todo = {}
=============================================================================
