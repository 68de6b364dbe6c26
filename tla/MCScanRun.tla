----------------------------- MODULE MCScanRun ------------------------------
(***************************************************************************)
(* Scenarios for model checking.  A line of a file has a secret, twice, or *)
(* nothing; a keyword of a path is written where it decides something.     *)
(***************************************************************************)
EXTENDS ScanRunSafety, TLC

Secret == [matches |-> {[rule |-> r, nth |-> n] : r \in SecretRules, n \in {1, 2}},
           words |-> {}]

Wildcard ==
  [matches |-> {[rule |-> Rule("PERM-001", "CRITICAL", "MEDIUM"), nth |-> n] :
                  n \in {1, 2}},
   words |-> {"sensitive_op"}]

AuditCall == [matches |-> {}, words |-> {"audit_call"}]

Blank == [matches |-> {}, words |-> {}]

TextFile(text) == [there |-> TRUE, readable |-> TRUE, binary |-> FALSE, text |-> text]

Locked(text) == [TextFile(text) EXCEPT !.readable = FALSE]

Binary(text) == [TextFile(text) EXCEPT !.binary = TRUE]

Plain == [ignored |-> FALSE, link |-> "no", target |-> "none", supported |-> TRUE,
          words |-> {"ledger"}]

Named(words) == [Plain EXCEPT !.words = words]

Unsupported == [Plain EXCEPT !.supported = FALSE, !.words = {"key"}]

IgnoredName == [Plain EXCEPT !.ignored = TRUE]

LinkTo(f) == [Plain EXCEPT !.link = "inside", !.target = f]

LinkOutside == [Plain EXCEPT !.link = "escapes"]

Dir(depth, files) ==
  [depth |-> depth, ignored |-> FALSE, listable |-> TRUE, files |-> files]

\* Generous settings, the limits of one scenario are set on top of them.
Generous ==
  [allowed |-> {"work"}, followSymlinks |-> FALSE, maxDepth |-> 2, maxCount |-> 9,
   maxFileSize |-> 2, maxTotalSize |-> 9, maxEntries |-> 2, maxRatio |-> 1,
   maxUncompressed |-> 3]

InWork == [exists |-> TRUE, directory |-> TRUE, under |-> {"work"}]

Directory(dirs, files, content, changes) ==
  [kind |-> "directory", path |-> InWork, dirs |-> dirs, files |-> files,
   disk |-> content, changes |-> changes, entries |-> <<>>, file |-> FALSE,
   zip |-> FALSE]

Entry(f, text) ==
  [name |-> f, directory |-> FALSE, safeName |-> TRUE, symlink |-> FALSE,
   compressed |-> 2, state |-> TextFile(text)]

Archive(entries) ==
  [kind |-> "archive", path |-> InWork, file |-> TRUE, zip |-> TRUE,
   dirs |-> <<Dir(0, <<"a">>), Dir(1, <<"b">>)>>,
   files |-> [f \in {"a", "b"} |-> Plain], disk |-> [f \in {"a", "b"} |-> Absent],
   changes |-> [f \in {"a", "b"} |-> {}], entries |-> entries]

Scenario(settings, source) == [settings |-> settings, source |-> source]

Constantly(files) == [f \in DOMAIN files |-> {}]

\* One directory of three files, each of which may change, vanish or lock.
Changing ==
  LET files == [a |-> Plain, b |-> Named({"payment", "auth"}), c |-> Unsupported]
  IN  Scenario(Generous,
        Directory(<<Dir(0, <<"a", "b">>), Dir(1, <<"c">>)>>, files,
                  [a |-> TextFile(<<Secret>>), b |-> Absent,
                   c |-> TextFile(<<Blank>>)],
                  [a |-> {Absent, Locked(<<Secret>>), TextFile(<<Blank, Secret>>)},
                   b |-> {TextFile(<<Wildcard>>), Binary(<<Wildcard>>),
                          TextFile(<<Wildcard, Blank, Blank, Secret>>)},
                   c |-> {Absent, Locked(<<Blank>>)}]))

\* Limits met exactly and exceeded by one, in every order of small and large.
Limits ==
  {LET names == <<"a", "b", "c", "d">>
       files == [f \in {names[k] : k \in 1 .. 4} |->
                   IF f = "c" /\ s[1] = 2 THEN Unsupported ELSE Plain]
       sizes == [a |-> s[1], b |-> s[2], c |-> 1, d |-> s[3]]
       content == [f \in DOMAIN files |-> TextFile([k \in 1 .. sizes[f] |-> Secret])]
   IN  Scenario([Generous EXCEPT !.maxCount = count, !.maxTotalSize = total],
         Directory(<<Dir(0, names)>>, files, content, Constantly(files))) :
     s \in {<<1, 1, 1>>, <<2, 2, 1>>, <<3, 1, 2>>}, count \in {3, 4}, total \in {3, 4}}

\* Links to a file, out of the root and to nothing, followed or not; a file
\* that cannot be read, one that is binary, and one of an ignored name.
Links ==
  {LET files == [a |-> LinkTo("b"), b |-> Plain, c |-> LinkOutside,
                 d |-> LinkTo("gone"), gone |-> Plain, h |-> IgnoredName]
   IN  Scenario([Generous EXCEPT !.followSymlinks = follow],
         Directory(<<Dir(0, <<"a", "b", "c", "d", "gone", "h">>)>>, files,
                   [f \in DOMAIN files |->
                      IF f = "gone" THEN Absent ELSE TextFile(<<Secret>>)],
                   [Constantly(files) EXCEPT !["b"] = {Locked(<<Secret>>)}])) :
     follow \in BOOLEAN}

\* What the walk passes over: names that are ignored, a directory that cannot
\* be listed, one that is too deep.
Passed ==
  LET files == [a |-> Plain, b |-> Plain, c |-> Plain, d |-> Plain, e |-> Plain]
  IN  Scenario([Generous EXCEPT !.maxDepth = 1],
        Directory(<<Dir(0, <<"a">>), [Dir(1, <<"b">>) EXCEPT !.ignored = TRUE],
                    [Dir(1, <<"c">>) EXCEPT !.listable = FALSE], Dir(1, <<"d">>),
                    Dir(2, <<"e">>)>>, files,
                  [f \in DOMAIN files |->
                     IF f = "a" THEN Locked(<<Secret>>)
                     ELSE IF f = "d" THEN Binary(<<Secret>>)
                     ELSE TextFile(<<Wildcard>>)],
                  [Constantly(files) EXCEPT !["e"] = {TextFile(<<Secret>>)}]))

TwoFiles == <<Entry("a", <<Secret>>), Entry("b", <<Secret, Wildcard>>)>>

\* Archives that are fine, and ones that miss one requirement each.
Archives ==
  {Scenario(Generous, Archive(entries)) :
     entries \in
       {<<>>, TwoFiles, <<TwoFiles[1], [TwoFiles[2] EXCEPT !.directory = TRUE]>>,
        <<[TwoFiles[1] EXCEPT !.compressed = 0], TwoFiles[2]>>,
        <<TwoFiles[1], [TwoFiles[2] EXCEPT !.safeName = FALSE]>>,
        <<TwoFiles[1], [TwoFiles[2] EXCEPT !.symlink = TRUE]>>,
        <<TwoFiles[1], [TwoFiles[2] EXCEPT !.compressed = 1]>>,
        <<TwoFiles[2], TwoFiles[2]>>, TwoFiles \o <<TwoFiles[1]>>}}

Refused ==
  {Scenario([Generous EXCEPT !.allowed = {}], Archive(TwoFiles)),
   Scenario(Generous, [Archive(TwoFiles) EXCEPT !.zip = FALSE]),
   Scenario(Generous, [Changing.source EXCEPT !.path.exists = FALSE])}

\* A link that is followed to a file in a directory of an ignored name, which
\* its owner changes.
LinkToIgnored ==
  LET files == [a |-> LinkTo("b"), b |-> Plain]
  IN  Scenario([Generous EXCEPT !.followSymlinks = TRUE],
        Directory(<<Dir(0, <<"a">>), [Dir(1, <<"b">>) EXCEPT !.ignored = TRUE]>>,
                  files,
                  [f \in DOMAIN files |-> TextFile(<<Secret>>)],
                  [Constantly(files) EXCEPT !["b"] = {TextFile(<<Blank>>)}]))

\* Texts longer than the lines that are searched after an operation: its audit
\* is within them in one file and after them in the other.
Long ==
  LET files == [a |-> Plain, b |-> Plain]
  IN  Scenario([Generous EXCEPT !.maxFileSize = 3],
        Directory(<<Dir(0, <<"a", "b">>)>>, files,
                  [a |-> TextFile(<<Wildcard, AuditCall, Blank>>),
                   b |-> TextFile(<<Wildcard, Blank, AuditCall>>)],
                  [Constantly(files) EXCEPT !["a"] = {TextFile(<<Wildcard, Blank, AuditCall>>)}]))

AllScenarios ==
  {Changing, Passed, Long, LinkToIgnored} \cup Limits \cup Links \cup Archives \cup Refused

SomeScanners == <<"secret_exposure", "audit_gap", "broad_permissions">>
=============================================================================
