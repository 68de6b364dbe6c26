--------------------------- MODULE ScanRunProofs ----------------------------
(***************************************************************************)
(* Proofs about a scan: its types, the limits of discovery, the place of   *)
(* every file that it comes to, what becomes of an archive, and that the   *)
(* scan implements the contract.                                           *)
(***************************************************************************)
EXTENDS ScanRunSafety, FiniteSetTheorems, FunctionTheorems, SequenceTheorems, TLAPS

(***************************************************************************)
(* Scenarios.                                                              *)
(***************************************************************************)

\* What the assumption on scenarios says of the one that happens.
LEMMA ShapeOfSource ==
  ASSUME scenario \in Scenarios
  PROVE  /\ Source.disk \in [Files -> State]
         /\ \A f \in Files : Source.changes[f] \subseteq State
         /\ \A f \in Files : Resolved(f) \in Files
         /\ Len(Dirs) \in Nat /\ DOMAIN Dirs = 1 .. Len(Dirs)
         /\ \A i \in DOMAIN Dirs : /\ Dirs[i].files \in Seq(Files)
                                   /\ FilesOf(Dirs[i]) \subseteq Files
         /\ Len(Entries) \in Nat
         /\ \A k \in 1 .. Len(Entries) :
              Entries[k].name \in Files /\ Entries[k].state \in State
         /\ Settings.maxCount \in Nat /\ Settings.maxFileSize \in Nat
         /\ Settings.maxTotalSize \in Nat
<1>1. SourceShape(Source)
  BY ScenariosAssumption DEF Source
<1>2. \A f \in Files : Resolved(f) \in Files
  BY <1>1 DEF SourceShape, Resolved, Files
<1>3. Dirs \in Seq(DirectoryOf(Files))
  BY <1>1 DEF SourceShape, Files, Dirs
<1>4. \A i \in DOMAIN Dirs : /\ Dirs[i].files \in Seq(Files)
                             /\ FilesOf(Dirs[i]) \subseteq Files
  <2>1. ASSUME NEW i \in DOMAIN Dirs
        PROVE  Dirs[i].files \in Seq(Files)
    <3>1. Dirs[i] \in DirectoryOf(Files)
      BY <1>3
    <3> QED BY <3>1 DEF DirectoryOf
  <2>2. ASSUME NEW names \in Seq(Files)
        PROVE  {names[k] : k \in DOMAIN names} \subseteq Files
    OBVIOUS
  <2> QED BY <2>1, <2>2 DEF FilesOf
<1>5. Entries \in Seq(EntryOf(Files))
  BY <1>1 DEF SourceShape, Files, Entries
<1>6. Settings.maxCount \in Nat /\ Settings.maxFileSize \in Nat
      /\ Settings.maxTotalSize \in Nat
  BY ScenariosAssumption DEF Settings
<1>7. /\ Len(Entries) \in Nat
      /\ \A k \in 1 .. Len(Entries) :
           Entries[k].name \in Files /\ Entries[k].state \in State
  <2>1. Len(Entries) \in Nat /\ \A k \in 1 .. Len(Entries) : Entries[k] \in EntryOf(Files)
    BY <1>5
  <2> QED BY <2>1 DEF EntryOf
<1>8. Len(Dirs) \in Nat /\ DOMAIN Dirs = 1 .. Len(Dirs)
  BY <1>3
<1>9. /\ Source.disk \in [Files -> State]
      /\ \A f \in Files : Source.changes[f] \subseteq State
  BY <1>1 DEF SourceShape, Files
<1> QED
  BY <1>2, <1>4, <1>6, <1>7, <1>8, <1>9

LEMMA SizeIsNat ==
  ASSUME NEW state \in State
  PROVE  Size(state) \in Nat
BY DEF State, Size
(***************************************************************************)
(* What a scanner finds in a text.                                         *)
(***************************************************************************)
AuditRules == {AuditDisabled, SensitiveOpWithoutAudit, AuditRecordMissingFields}

SecretIds == {"SECRET-001"}

PiiIds == {"PII-EMAIL", "PII-PHONE", "PII-CARD_LIKE",
   "PII-NATIONAL_ID_SHAPED", "PII-DATE_OF_BIRTH",
   "PII-ACCOUNT_NUMBER_FIELD"}

LoggingIds == {"LOG-001"}

AuditIds == {"AUDIT-001", "AUDIT-002", "AUDIT-003"}

PermissionIds == {"PERM-001", "PERM-002", "PERM-003", "PERM-004", "PERM-005",
   "PERM-006"}

SqlIds == {"SQL-001", "SQL-002", "SQL-003", "SQL-004", "SQL-005"}

ConfigurationIds == {"CFG-001", "CFG-002", "CFG-003", "CFG-004", "CFG-005", "CFG-006",
   "CFG-007", "CFG-008", "CFG-009"}

\* The scanner that a rule belongs to, by its id.
Home(id) ==
  IF id \in SecretIds THEN "secret_exposure"
  ELSE IF id \in PiiIds THEN "pii_exposure"
  ELSE IF id \in LoggingIds THEN "unsafe_logging"
  ELSE IF id \in AuditIds THEN "audit_gap"
  ELSE IF id \in PermissionIds THEN "broad_permissions"
  ELSE IF id \in SqlIds THEN "unsafe_sql"
  ELSE IF id \in ConfigurationIds THEN "insecure_configuration"
  ELSE "unsupported_sensitive_file"

BelongTo(scanner, rules) ==
  \A r \in rules : r \in RulesReported /\ Home(r.id) = scanner

LEMMA RulesHaveHomes ==
  /\ BelongTo("secret_exposure", SecretRules)
  /\ BelongTo("pii_exposure", PiiRules)
  /\ BelongTo("unsafe_logging", LoggingRules)
  /\ BelongTo("audit_gap", AuditRules)
  /\ BelongTo("broad_permissions", PermissionRules)
  /\ BelongTo("unsafe_sql", SqlRules)
  /\ BelongTo("insecure_configuration", ConfigurationRules)
<1>1. /\ \A id \in SecretIds : Home(id) = "secret_exposure"
      /\ \A id \in PiiIds : Home(id) = "pii_exposure"
      /\ \A id \in LoggingIds : Home(id) = "unsafe_logging"
      /\ \A id \in AuditIds : Home(id) = "audit_gap"
      /\ \A id \in PermissionIds : Home(id) = "broad_permissions"
      /\ \A id \in SqlIds : Home(id) = "unsafe_sql"
      /\ \A id \in ConfigurationIds : Home(id) = "insecure_configuration"
  BY DEF Home, SecretIds, PiiIds, LoggingIds, AuditIds, PermissionIds, SqlIds,
         ConfigurationIds
<1>2. /\ \A r \in SecretRules : r.id \in SecretIds
      /\ \A r \in PiiRules : r.id \in PiiIds
      /\ \A r \in LoggingRules : r.id \in LoggingIds
  BY DEF SecretRules, SecretIds, PiiRules, PiiIds, LoggingRules, LoggingIds, Rule
<1>3. \A r \in AuditRules : r.id \in AuditIds
  BY DEF AuditRules, AuditDisabled, SensitiveOpWithoutAudit,
         AuditRecordMissingFields, AuditIds, Rule
<1>4. \A r \in PermissionRules : r.id \in PermissionIds
  BY DEF PermissionRules, PermissionIds, Rule
<1>5. \A r \in SqlRules : r.id \in SqlIds
  BY DEF SqlRules, SqlIds, Rule
<1>6. \A r \in ConfigurationRules : r.id \in ConfigurationIds
  BY DEF ConfigurationRules, ConfigurationIds, Rule
<1>7. SecretRules \cup PiiRules \cup LoggingRules \cup AuditRules \cup PermissionRules
        \cup SqlRules \cup ConfigurationRules \subseteq RulesReported
  BY DEF RulesReported, MatchingRules, AuditRules
<1> QED BY <1>1, <1>2, <1>3, <1>4, <1>5, <1>6, <1>7 DEF BelongTo

\* What is named by the members of a finite set is finite.
LEMMA NamedIsFinite ==
  ASSUME NEW D, IsFiniteSet(D), NEW f, NEW S,
         \A x \in S : \E d \in D : x = f[d]
  PROVE  IsFiniteSet(S)
<1> DEFINE T == {f[d] : d \in D}
           g == [d \in D |-> f[d]]
<1>1. g \in [D -> T] /\ \A t \in T : \E d \in D : g[d] = t
  OBVIOUS
<1>2. S \in SUBSET T
  OBVIOUS
<1> HIDE DEF T, g
<1>3. g \in Surjection(D, T)
  BY <1>1, Fun_IsSurj
<1>4. IsFiniteSet(T)
  BY <1>3, FS_Surjection
<1> QED BY <1>2, <1>4, FS_Subset

AllRules ==
  SecretRules \cup PiiRules \cup LoggingRules \cup PermissionRules
    \cup SqlRules \cup ConfigurationRules \cup AuditRules

LEMMA RulesAreFinite == IsFiniteSet(AllRules)
<1>1. \A n \in Nat : IsFiniteSet(1 .. n)
  BY FS_Interval
<1>2. IsFiniteSet(SecretRules \cup LoggingRules \cup AuditRules)
  <2> DEFINE f == <<Rule("SECRET-001", "HIGH", "MEDIUM"),
                    Rule("LOG-001", "CRITICAL", "LOW"), Rule("LOG-001", "HIGH", "LOW"),
                    Rule("LOG-001", "MEDIUM", "LOW"), AuditDisabled,
                    SensitiveOpWithoutAudit, AuditRecordMissingFields>>
  <2>1. \A x \in SecretRules \cup LoggingRules \cup AuditRules : \E d \in 1 .. 7 : x = f[d]
    BY DEF SecretRules, LoggingRules, AuditRules
  <2> HIDE DEF f
  <2> QED BY <1>1, <2>1, NamedIsFinite
<1>3. IsFiniteSet(PiiRules)
  <2> DEFINE f == <<Rule("PII-EMAIL", "LOW", "LOW"), Rule("PII-PHONE", "LOW", "LOW"),
                    Rule("PII-CARD_LIKE", "HIGH", "LOW"),
                    Rule("PII-NATIONAL_ID_SHAPED", "HIGH", "LOW"),
                    Rule("PII-DATE_OF_BIRTH", "MEDIUM", "LOW"),
                    Rule("PII-ACCOUNT_NUMBER_FIELD", "HIGH", "LOW")>>
  <2>1. \A x \in PiiRules : \E d \in 1 .. 6 : x = f[d]
    BY DEF PiiRules
  <2> HIDE DEF f
  <2> QED BY <1>1, <2>1, NamedIsFinite
<1>4. IsFiniteSet(PermissionRules)
  <2> DEFINE f == <<Rule("PERM-001", "CRITICAL", "MEDIUM"),
                    Rule("PERM-006", "MEDIUM", "MEDIUM"), Rule("PERM-002", "HIGH", "MEDIUM"),
                    Rule("PERM-003", "HIGH", "MEDIUM"), Rule("PERM-004", "HIGH", "MEDIUM"),
                    Rule("PERM-005", "HIGH", "MEDIUM")>>
  <2>1. \A x \in PermissionRules : \E d \in 1 .. 6 : x = f[d]
    BY DEF PermissionRules
  <2> HIDE DEF f
  <2> QED BY <1>1, <2>1, NamedIsFinite
<1>5. IsFiniteSet(SqlRules)
  <2> DEFINE f == <<Rule("SQL-003", "MEDIUM", "MEDIUM"), Rule("SQL-001", "HIGH", "MEDIUM"),
                    Rule("SQL-002", "HIGH", "MEDIUM"), Rule("SQL-004", "HIGH", "MEDIUM"),
                    Rule("SQL-005", "HIGH", "MEDIUM")>>
  <2>1. \A x \in SqlRules : \E d \in 1 .. 5 : x = f[d]
    BY DEF SqlRules
  <2> HIDE DEF f
  <2> QED BY <1>1, <2>1, NamedIsFinite
<1>6. IsFiniteSet(ConfigurationRules)
  <2> DEFINE f == <<Rule("CFG-003", "CRITICAL", "MEDIUM"), Rule("CFG-002", "HIGH", "MEDIUM"),
                    Rule("CFG-004", "HIGH", "MEDIUM"), Rule("CFG-007", "HIGH", "MEDIUM"),
                    Rule("CFG-001", "MEDIUM", "MEDIUM"),
                    Rule("CFG-005", "MEDIUM", "MEDIUM"),
                    Rule("CFG-006", "MEDIUM", "MEDIUM"), Rule("CFG-008", "LOW", "MEDIUM"),
                    Rule("CFG-009", "LOW", "MEDIUM")>>
  <2>1. \A x \in ConfigurationRules : \E d \in 1 .. 9 : x = f[d]
    BY DEF ConfigurationRules
  <2> HIDE DEF f
  <2> QED BY <1>1, <2>1, NamedIsFinite
<1>7. IsFiniteSet(PiiRules \cup PermissionRules)
  BY <1>3, <1>4, FS_Union
<1>8. IsFiniteSet(SqlRules \cup ConfigurationRules)
  BY <1>5, <1>6, FS_Union
<1> DEFINE A == SecretRules \cup LoggingRules \cup AuditRules
           B == PiiRules \cup PermissionRules
           C == SqlRules \cup ConfigurationRules
<1>9. AllRules = (A \cup B) \cup C
  BY DEF AllRules
<1> HIDE DEF A, B, C
<1>10. IsFiniteSet(A \cup B)
  BY <1>2, <1>7, FS_Union DEF A, B
<1> QED BY <1>8, <1>9, <1>10, FS_Union DEF C

\* What may be found in so many lines.
RawsIn(n) == [rule : AllRules, first : 1 .. n, last : 1 .. n, nth : {1, 2}]

LEMMA RawsAreFinite ==
  ASSUME NEW n \in Nat
  PROVE  IsFiniteSet(RawsIn(n)) /\ RawsIn(n) \subseteq Raw
<1>1. IsFiniteSet(1 .. n) /\ IsFiniteSet(1 .. 2)
  <2>1. \A k \in Nat : IsFiniteSet(1 .. k)
    BY FS_Interval
  <2> QED BY <2>1
<1> DEFINE Lines == (1 .. n) \X (1 .. n)
           Ways == AllRules \X (1 .. 2)
           D == Lines \X Ways
           f == [d \in D |-> [rule |-> d[2][1], first |-> d[1][1], last |-> d[1][2],
                              nth |-> d[2][2]]]
<1>2. IsFiniteSet(Lines) /\ IsFiniteSet(Ways)
  BY <1>1, RulesAreFinite, FS_Product
<1>3. IsFiniteSet(D)
  <2> HIDE DEF Lines, Ways
  <2> QED BY <1>2, FS_Product
<1>4. ASSUME NEW x \in RawsIn(n)
      PROVE  \E d \in D : x = f[d]
  <2>1. /\ x = [rule |-> x.rule, first |-> x.first, last |-> x.last, nth |-> x.nth]
        /\ x.rule \in AllRules /\ x.first \in 1 .. n /\ x.last \in 1 .. n
        /\ x.nth \in 1 .. 2
    BY DEF RawsIn
  <2>2. <<<<x.first, x.last>>, <<x.rule, x.nth>>>> \in D
    BY <2>1
  <2> QED BY <2>1, <2>2
<1>5. IsFiniteSet(RawsIn(n))
  <2> HIDE DEF D, f
  <2> QED BY <1>3, <1>4, NamedIsFinite
<1>6. AllRules \subseteq RulesReported
  BY DEF AllRules, AuditRules, RulesReported, MatchingRules
<1>7. 1 .. n \subseteq Nat
  OBVIOUS
<1>8. RawsIn(n) \subseteq Raw
  BY <1>6, <1>7 DEF RawsIn, Raw
<1> QED BY <1>5, <1>8

LEMMA MatchesFound ==
  ASSUME NEW text \in Seq(Line), NEW rules \in SUBSET AllRules
  PROVE  /\ \A raw \in EachMatch(rules, text) :
              raw \in RawsIn(Len(text)) /\ raw.rule \in rules
         /\ \A raw \in OncePerLine(rules, text) :
              raw \in RawsIn(Len(text)) /\ raw.rule \in rules
<1>1. /\ DOMAIN text = 1 .. Len(text) /\ Len(text) \in Nat
      /\ \A l \in DOMAIN text : text[l].matches \in SUBSET Match
  <2>1. \A line \in Line : line.matches \in SUBSET Match
    BY DEF Line
  <2>2. /\ DOMAIN text = 1 .. Len(text) /\ Len(text) \in Nat
        /\ \A l \in DOMAIN text : text[l] \in Line
    OBVIOUS
  <2> QED BY <2>1, <2>2
<1>2. ASSUME NEW raw \in EachMatch(rules, text)
      PROVE  raw \in RawsIn(Len(text)) /\ raw.rule \in rules
  <2>1. PICK l \in DOMAIN text :
          \E m \in text[l].matches :
            m.rule \in rules /\ raw = RawFinding(m.rule, l, l, m.nth)
    BY DEF EachMatch
  <2>2. PICK m \in text[l].matches :
          m.rule \in rules /\ raw = RawFinding(m.rule, l, l, m.nth)
    BY <2>1
  <2>3. m.nth \in {1, 2}
    BY <1>1, <2>2 DEF Match
  <2> QED BY <1>1, <2>2, <2>3 DEF RawFinding, RawsIn
<1>3. ASSUME NEW raw \in OncePerLine(rules, text)
      PROVE  raw \in RawsIn(Len(text)) /\ raw.rule \in rules
  <2>1. PICK finding \in EachMatch(rules, text) : raw = [finding EXCEPT !.nth = 1]
    BY DEF OncePerLine
  <2>2. finding \in RawsIn(Len(text)) /\ finding.rule \in rules
    BY <1>2
  <2> QED BY <2>1, <2>2 DEF RawsIn
<1> QED BY <1>2, <1>3

LEMMA AuditsFound ==
  ASSUME NEW text \in Seq(Line)
  PROVE  \A raw \in AuditGap(text) :
           raw \in RawsIn(Len(text)) /\ raw.rule \in AuditRules
<1>1. /\ DOMAIN text = 1 .. Len(text) /\ Len(text) \in Nat
      /\ BodyWindowLines \in Nat
  BY BodyWindowAssumption
<1>2. \A l \in DOMAIN text : BodyEnd(text, l) \in 1 .. Len(text)
  BY <1>1 DEF BodyEnd
<1>3. AuditRules \subseteq AllRules
  BY DEF AllRules
<1>4. ASSUME NEW rule \in AuditRules, NEW l \in DOMAIN text
      PROVE  /\ RawFinding(rule, l, BodyEnd(text, l), 1) \in RawsIn(Len(text))
             /\ RawFinding(rule, l, BodyEnd(text, l), 1).rule = rule
  BY <1>1, <1>2, <1>3 DEF RawFinding, RawsIn
<1>5. ASSUME NEW raw \in OperationsWithoutAudit(text) \cup RecordsMissingFields(text)
      PROVE  raw \in RawsIn(Len(text)) /\ raw.rule \in AuditRules
  <2>1. SensitiveOpWithoutAudit \in AuditRules /\ AuditRecordMissingFields \in AuditRules
    BY DEF AuditRules
  <2>2. \E l \in DOMAIN text, rule \in AuditRules :
          raw = RawFinding(rule, l, BodyEnd(text, l), 1)
    BY <2>1 DEF OperationsWithoutAudit, RecordsMissingFields
  <2> QED BY <1>4, <2>2
<1>6. {AuditDisabled} \subseteq AuditRules /\ {AuditDisabled} \subseteq AllRules
  BY <1>3 DEF AuditRules
<1> QED BY <1>5, <1>6, MatchesFound DEF AuditGap

ContentNames == {ContentScanners[i] : i \in DOMAIN ContentScanners}

\* Whatever the text, a scanner finds finitely many places, of its own rules.
LEMMA ScanFinds ==
  ASSUME NEW text \in Seq(Line), NEW scanner \in ContentNames
  PROVE  /\ \A raw \in Scan(scanner, text) : raw \in Raw /\ Home(raw.rule.id) = scanner
         /\ IsFiniteSet(Scan(scanner, text))
<1>1. scanner \in {"secret_exposure", "pii_exposure", "unsafe_logging", "audit_gap",
                   "broad_permissions", "unsafe_sql", "insecure_configuration"}
  BY DEF ContentNames, ContentScanners
<1>2. SecretRules \subseteq AllRules /\ PiiRules \subseteq AllRules
      /\ LoggingRules \subseteq AllRules /\ PermissionRules \subseteq AllRules
      /\ SqlRules \subseteq AllRules /\ ConfigurationRules \subseteq AllRules
  BY DEF AllRules
<1> DEFINE Told(found) ==
             \A raw \in found : raw \in RawsIn(Len(text)) /\ Home(raw.rule.id) = scanner
<1>3. ASSUME scanner = "secret_exposure" PROVE Told(Scan(scanner, text))
  <2>1. Scan(scanner, text) = OncePerLine(SecretRules, text)
    BY <1>3 DEF Scan, SecretExposure
  <2>2. \A raw \in OncePerLine(SecretRules, text) :
          raw \in RawsIn(Len(text)) /\ raw.rule \in SecretRules
    BY <1>2, MatchesFound
  <2>3. \A r \in SecretRules : Home(r.id) = scanner
    BY <1>3, RulesHaveHomes DEF BelongTo
  <2> QED BY <2>1, <2>2, <2>3
<1>4. ASSUME scanner = "pii_exposure" PROVE Told(Scan(scanner, text))
  <2>1. Scan(scanner, text) = OncePerLine(PiiRules, text)
    BY <1>4 DEF Scan, PiiExposure
  <2>2. \A raw \in OncePerLine(PiiRules, text) :
          raw \in RawsIn(Len(text)) /\ raw.rule \in PiiRules
    BY <1>2, MatchesFound
  <2>3. \A r \in PiiRules : Home(r.id) = scanner
    BY <1>4, RulesHaveHomes DEF BelongTo
  <2> QED BY <2>1, <2>2, <2>3
<1>5. ASSUME scanner = "unsafe_logging" PROVE Told(Scan(scanner, text))
  <2>1. Scan(scanner, text) = EachMatch(LoggingRules, text)
    BY <1>5 DEF Scan, UnsafeLogging
  <2>2. \A raw \in EachMatch(LoggingRules, text) :
          raw \in RawsIn(Len(text)) /\ raw.rule \in LoggingRules
    BY <1>2, MatchesFound
  <2>3. \A r \in LoggingRules : Home(r.id) = scanner
    BY <1>5, RulesHaveHomes DEF BelongTo
  <2> QED BY <2>1, <2>2, <2>3
<1>6. ASSUME scanner = "broad_permissions" PROVE Told(Scan(scanner, text))
  <2>1. Scan(scanner, text) = EachMatch(PermissionRules, text)
    BY <1>6 DEF Scan, BroadPermission
  <2>2. \A raw \in EachMatch(PermissionRules, text) :
          raw \in RawsIn(Len(text)) /\ raw.rule \in PermissionRules
    BY <1>2, MatchesFound
  <2>3. \A r \in PermissionRules : Home(r.id) = scanner
    BY <1>6, RulesHaveHomes DEF BelongTo
  <2> QED BY <2>1, <2>2, <2>3
<1>7. ASSUME scanner = "unsafe_sql" PROVE Told(Scan(scanner, text))
  <2>1. Scan(scanner, text) = EachMatch(SqlRules, text)
    BY <1>7 DEF Scan, UnsafeSql
  <2>2. \A raw \in EachMatch(SqlRules, text) :
          raw \in RawsIn(Len(text)) /\ raw.rule \in SqlRules
    BY <1>2, MatchesFound
  <2>3. \A r \in SqlRules : Home(r.id) = scanner
    BY <1>7, RulesHaveHomes DEF BelongTo
  <2> QED BY <2>1, <2>2, <2>3
<1>8. ASSUME scanner = "insecure_configuration" PROVE Told(Scan(scanner, text))
  <2>1. Scan(scanner, text) = EachMatch(ConfigurationRules, text)
    BY <1>8 DEF Scan, InsecureConfiguration
  <2>2. \A raw \in EachMatch(ConfigurationRules, text) :
          raw \in RawsIn(Len(text)) /\ raw.rule \in ConfigurationRules
    BY <1>2, MatchesFound
  <2>3. \A r \in ConfigurationRules : Home(r.id) = scanner
    BY <1>8, RulesHaveHomes DEF BelongTo
  <2> QED BY <2>1, <2>2, <2>3
<1>9. ASSUME scanner = "audit_gap" PROVE Told(Scan(scanner, text))
  <2>1. Scan(scanner, text) = AuditGap(text)
    BY <1>9 DEF Scan
  <2>2. \A r \in AuditRules : Home(r.id) = scanner
    BY <1>9, RulesHaveHomes DEF BelongTo
  <2> QED BY <2>1, <2>2, AuditsFound
<1>10. Told(Scan(scanner, text))
  BY <1>1, <1>3, <1>4, <1>5, <1>6, <1>7, <1>8, <1>9
<1>11. Len(text) \in Nat
  OBVIOUS
<1>12. Scan(scanner, text) \in SUBSET RawsIn(Len(text))
  BY <1>10
<1> QED BY <1>10, <1>11, <1>12, RawsAreFinite, FS_Subset

\* The findings of a file, and what the report is made of.
LEMMA DomainsOfFiles == \A words : MapFileToDomains(words) \subseteq BankingDomains
<1>1. DOMAIN FlagKeywords = DOMAIN FlagDomain
  BY DEF FlagKeywords, FlagDomain
<1> QED BY <1>1 DEF MapFileToDomains, CategoryFlags, BankingDomains

LEMMA FoundTyped ==
  ASSUME NEW f \in Files, NEW scanner \in ContentNames, NEW text \in Seq(Line)
  PROVE  FindingsIn(f, scanner, text) \subseteq Finding(Files)
         /\ IsFiniteSet(FindingsIn(f, scanner, text))
<1>1. IsFiniteSet(Scan(scanner, text)) /\ \A raw \in Scan(scanner, text) : raw \in Raw
  BY ScanFinds
<1>2. scanner \in ReportingScanners
  BY DEF ContentNames, ReportingScanners
<1>3. DomainsOf(f) \in SUBSET BankingDomains
  BY DomainsOfFiles DEF DomainsOf
<1>4. \A raw \in Raw : Normalized(f, scanner, DomainsOf(f), raw) \in Finding(Files)
  BY <1>2, <1>3 DEF Normalized, Finding
<1> DEFINE told == [raw \in Scan(scanner, text) |-> Normalized(f, scanner, DomainsOf(f), raw)]
<1>5. \A x \in FindingsIn(f, scanner, text) : \E raw \in Scan(scanner, text) : x = told[raw]
  BY DEF FindingsIn
<1>6. IsFiniteSet(FindingsIn(f, scanner, text))
  <2> HIDE DEF told
  <2> QED BY <1>1, <1>5, NamedIsFinite
<1> QED BY <1>1, <1>4, <1>6 DEF FindingsIn

LEMMA TextIsRead ==
  ASSUME NEW state \in State
  PROVE  /\ ReadText(state) \in Seq(Line)
         /\ Size(state) <= ReadLimit => ReadText(state) = state.text
<1>1. state.text \in Seq(Line) /\ Len(state.text) \in Nat /\ ReadLimit \in Nat
  BY BoundsAssumption DEF State
<1> DEFINE n == IF Len(state.text) < ReadLimit THEN Len(state.text) ELSE ReadLimit
<1>2. n \in Nat /\ n <= Len(state.text)
  BY <1>1
<1>3. SubSeq(state.text, 1, n) \in Seq(Line)
  BY <1>1, <1>2, SubSeqProperties
<1>4. ASSUME Len(state.text) <= ReadLimit
      PROVE  SubSeq(state.text, 1, n) = state.text
  <2>1. n = Len(state.text)
    BY <1>1, <1>4
  <2>2. SubSeq(state.text, 1, Len(state.text)) = state.text
    BY <1>1
  <2> QED BY <2>1, <2>2
<1> QED BY <1>3, <1>4 DEF ReadText, Size

LEMMA SkipsTyped ==
  ASSUME walk.skipped \in Seq(Skips)
  PROVE  ScanSkippedFiles \subseteq Finding(Files) /\ IsFiniteSet(ScanSkippedFiles)
<1>1. ASSUME NEW skip \in Skips
      PROVE  SkipFinding(skip) \in Finding(Files)
  <2>1. skip.file \in Files /\ skip.reason \in SkipReasons
    BY DEF Skips
  <2>2. SkipSeverity[skip.reason] \in Severities
    BY <2>1 DEF SkipReasons, SkipSeverity, Severities
  <2>3. Rule("SKIP-001", SkipSeverity[skip.reason], "LOW") \in RulesReported
    BY <2>2 DEF RulesReported
  <2> QED BY <2>1, <2>3
          DEF SkipFinding, Normalized, RawFinding, Finding, Raw, ReportingScanners
<1>2. DOMAIN walk.skipped = 1 .. Len(walk.skipped) /\ Len(walk.skipped) \in Nat
      /\ \A k \in DOMAIN walk.skipped : walk.skipped[k] \in Skips
  OBVIOUS
<1>3. IsFiniteSet(1 .. Len(walk.skipped))
  BY <1>2, FS_Interval
<1> DEFINE told == [k \in 1 .. Len(walk.skipped) |-> SkipFinding(walk.skipped[k])]
<1>4. \A x \in ScanSkippedFiles : \E k \in 1 .. Len(walk.skipped) : x = told[k]
  BY <1>2 DEF ScanSkippedFiles
<1>5. IsFiniteSet(ScanSkippedFiles)
  <2> HIDE DEF told
  <2> QED BY <1>3, <1>4, NamedIsFinite
<1> QED BY <1>1, <1>2, <1>5 DEF ScanSkippedFiles

\* Of what is found in one place the report has one finding, that was found.
Chosen(found, file, id, first, last) ==
  CHOOSE x \in found : /\ x.file = file /\ x.raw.rule.id = id
                       /\ x.raw.first = first /\ x.raw.last = last

ChosenFor(found, g) == Chosen(found, g.file, g.raw.rule.id, g.raw.first, g.raw.last)

SamePlace(g, h) ==
  /\ g.file = h.file /\ g.raw.rule.id = h.raw.rule.id
  /\ g.raw.first = h.raw.first /\ g.raw.last = h.raw.last

LEMMA OnePlace ==
  ASSUME NEW found
  PROVE  /\ Deduplicate(found) \subseteq found
         /\ \A g \in found : \E x \in Deduplicate(found) : SamePlace(x, g)
         /\ \A x, y \in Deduplicate(found) : SamePlace(x, y) => x = y
<1>1. \A x : x \in Deduplicate(found) <=> \E g \in found : x = ChosenFor(found, g)
  BY DEF Deduplicate, ChosenFor, Chosen
<1>2. \A g \in found : ChosenFor(found, g) \in found /\ SamePlace(ChosenFor(found, g), g)
  <2> SUFFICES ASSUME NEW g \in found
      PROVE  ChosenFor(found, g) \in found /\ SamePlace(ChosenFor(found, g), g)
    OBVIOUS
  <2>1. \E x \in found : /\ x.file = g.file /\ x.raw.rule.id = g.raw.rule.id
                         /\ x.raw.first = g.raw.first /\ x.raw.last = g.raw.last
    OBVIOUS
  <2> QED BY <2>1 DEF ChosenFor, Chosen, SamePlace
<1>3. ASSUME NEW x, NEW y, SamePlace(x, y)
      PROVE  ChosenFor(found, x) = ChosenFor(found, y)
  BY <1>3 DEF ChosenFor, SamePlace
<1>4. \A x \in Deduplicate(found) : x \in found /\ x = ChosenFor(found, x)
  <2> SUFFICES ASSUME NEW x \in Deduplicate(found)
      PROVE  x \in found /\ x = ChosenFor(found, x)
    OBVIOUS
  <2>1. PICK g \in found : x = ChosenFor(found, g)
    BY <1>1
  <2>2. x \in found /\ SamePlace(x, g)
    BY <1>2, <2>1
  <2> QED BY <1>3, <2>1, <2>2
<1> QED BY <1>1, <1>2, <1>3, <1>4

(***************************************************************************)
(* Types.                                                                  *)
(***************************************************************************)
Unscanned == {"asked", "made", "extracting", "accepted", "discovering"}

\* Until the scanners run, the cursor stands on the first item.
TypeInv ==
  /\ TypeOK
  /\ IsFiniteSet(findings)
  /\ phase \in Unscanned => cursor = [scanner |-> 1, item |-> 1]

LEMMA TypeInit == Init => TypeInv
<1> SUFFICES ASSUME Init PROVE TypeInv
  OBVIOUS
<1>1. scenario \in Scenarios /\ disk \in [Files -> State]
  BY ShapeOfSource DEF Init
<1>2. /\ Len(Entries) \in Nat /\ Len(Dirs) \in Nat
      /\ <<>> \in Seq(Items) /\ <<>> \in Seq(Skips)
  BY ShapeOfSource, <1>1
<1>3. walk \in [dir : 0 .. Len(Dirs), todo : SUBSET Files, found : Nat,
                bytes : Nat, truncated : BOOLEAN, inventory : Seq(Items),
                skipped : Seq(Skips)]
  BY <1>2 DEF Init, NewWalk
<1>4. executions \in [Executions -> [processed : SUBSET Files, errored : SUBSET Files]]
  BY DEF Init, NotRun
<1> QED
  BY <1>1, <1>2, <1>3, <1>4, FS_EmptySet DEF Init, TypeInv, TypeOK, Phases, Unscanned

\* The steps that touch neither the walk nor the tree.
LEMMA IngestType ==
  ASSUME TypeInv, Ingest, UNCHANGED <<walk, scanVars>>
  PROVE  TypeInv'
<1>1. CASE ExtractEntry
  <2>1. /\ Entries[unpacked + 1].name \in Files
        /\ Entries[unpacked + 1].state \in State
        /\ unpacked + 1 \in 0 .. Len(Entries)
    BY <1>1, ShapeOfSource DEF TypeInv, TypeOK, ExtractEntry
  <2>2. disk' \in [Files -> State]
    BY <1>1, <2>1 DEF TypeInv, TypeOK, ExtractEntry
  <2>3. scenario' = scenario /\ phase' = phase /\ temp' = temp /\ touched' = touched
        /\ unpacked' = unpacked + 1
    BY <1>1 DEF ExtractEntry
  <2> QED
    BY <2>1, <2>2, <2>3 DEF TypeInv, TypeOK, scanVars, Items, Skips, Files, Source,
       Dirs, Entries, Inventory
<1>2. CASE ~ExtractEntry
  <2>1. UNCHANGED treeVars
    BY <1>2 DEF Ingest, AcceptDirectory, RefuseSource, TempDirFails, MakeTempDir,
                ValidateMembers, RejectMembers, ExtractionFails, EndExtraction
  <2>2. unpacked' = unpacked /\ phase' \in Phases
        /\ (phase' \in Unscanned => phase \in Unscanned) /\ phase' # "scanning"
    BY <1>2 DEF Ingest, AcceptDirectory, RefuseSource, TempDirFails, MakeTempDir,
                ValidateMembers, RejectMembers, ExtractionFails, EndExtraction,
                Discard, Phases, Unscanned, Ended
  <2>3. temp' \in {"none", "present", "removed", "stuck"}
    BY <1>2 DEF Ingest, AcceptDirectory, RefuseSource, TempDirFails, MakeTempDir,
                ValidateMembers, RejectMembers, ExtractionFails, EndExtraction,
                Discard, RemoveTemp, TypeInv, TypeOK
  <2> QED
    BY <2>1, <2>2, <2>3 DEF TypeInv, TypeOK, scanVars, treeVars, Items, Skips,
       Files, Source, Dirs, Entries, Inventory
<1> QED BY <1>1, <1>2

LEMMA DiscoverType ==
  ASSUME TypeInv, Discover, UNCHANGED scanVars
  PROVE  TypeInv'
<1> DEFINE Walk == [dir : 0 .. Len(Dirs), todo : SUBSET Files, found : Nat,
                    bytes : Nat, truncated : BOOLEAN, inventory : Seq(Items),
                    skipped : Seq(Skips)]
<1>1. walk' \in Walk
  <2>1. CASE EnterDirectory
    <3>1. walk.dir + 1 \in 0 .. Len(Dirs) /\ Listed(Dirs[walk.dir + 1]) \subseteq Files
      BY <2>1, ShapeOfSource DEF TypeInv, TypeOK, EnterDirectory, Listed
    <3> QED BY <2>1, <3>1 DEF TypeInv, TypeOK, EnterDirectory
  <2>2. ASSUME NEW f \in walk.todo, SkipFile(f)
        PROVE  walk' \in Walk
    <3>1. \A reason \in Refusal(f) : [file |-> f, reason |-> reason] \in Skips
      BY <2>2 DEF Refusal, Skips, SkipReasons, TypeInv, TypeOK
    <3>2. \A reason \in Refusal(f) : Recorded(f, reason) \in Seq(Skips)
      BY <3>1 DEF Recorded, TypeInv, TypeOK
    <3>3. PICK reason \in Refusal(f) :
            walk' = [walk EXCEPT !.todo = @ \ {f}, !.found = @ + 1,
                                 !.truncated = @ \/ reason \in Truncating,
                                 !.skipped = Recorded(f, reason)]
      BY <2>2 DEF SkipFile
    <3>4. walk \in Walk
      BY DEF TypeInv, TypeOK
    <3>5. /\ walk.todo \ {f} \in SUBSET Files /\ walk.found + 1 \in Nat
          /\ Recorded(f, reason) \in Seq(Skips)
      BY <3>2, <3>4
    <3>6. (walk.truncated \/ reason \in Truncating) \in BOOLEAN
      OBVIOUS
    <3> QED BY <3>3, <3>4, <3>5, <3>6
  <2>3. ASSUME NEW f \in walk.todo, AdmitFile(f)
        PROVE  walk' \in Walk
    <3>1. Opened(f) \in State
      BY <2>3, ShapeOfSource DEF Opened, TypeInv, TypeOK
    <3>2. /\ Size(Opened(f)) \in Nat
          /\ [file |-> f, state |-> Opened(f)] \in Items
      BY <2>3, <3>1, SizeIsNat DEF Items, TypeInv, TypeOK
    <3>3. Append(walk.inventory, [file |-> f, state |-> Opened(f)]) \in Seq(Items)
      BY <3>2 DEF TypeInv, TypeOK
    <3>4. walk \in Walk
      BY DEF TypeInv, TypeOK
    <3>5. /\ walk.todo \ {f} \in SUBSET Files /\ walk.found + 1 \in Nat
          /\ walk.bytes + Size(Opened(f)) \in Nat
      BY <3>2, <3>4
    <3>6. walk' = [walk EXCEPT
            !.todo = @ \ {f}, !.found = @ + 1, !.bytes = @ + Size(Opened(f)),
            !.inventory = Append(@, [file |-> f, state |-> Opened(f)])]
      BY <2>3 DEF AdmitFile
    <3> QED BY <3>3, <3>4, <3>5, <3>6
  <2> QED BY <2>1, <2>2, <2>3 DEF Discover
<1>2. UNCHANGED <<treeVars, ingestVars>> /\ phase = "discovering"
  BY DEF Discover, EnterDirectory, SkipFile, AdmitFile
<1> QED
  BY <1>1, <1>2 DEF TypeInv, TypeOK, scanVars, treeVars, ingestVars, Items, Skips,
     Files, Source, Dirs, Entries, Inventory

LEMMA ShapeOfScanners == Len(Scanners) \in Nat /\ Executions = 1 .. Len(Scanners)
BY ScannersAssumption DEF Executions

LEMMA HashTyped ==
  ASSUME disk \in [Files -> State], scenario \in Scenarios
  PROVE  /\ ComputeSourceIntegrityHash \in [Hashed -> State]
         /\ Hashed \subseteq Files
<1>1. \A i \in DOMAIN Dirs : FilesOf(Dirs[i]) \subseteq Files
  BY ShapeOfSource
<1>2. Hashed \subseteq Files
  BY <1>1 DEF Hashed, DirSet
<1>3. \A f \in Files : HashEntry(f) \in State
  <2>1. Absent \in State
    <3>1. <<>> \in Seq(Line)
      OBVIOUS
    <3> QED BY <3>1 DEF Absent, State
  <2>2. /\ [Absent EXCEPT !.there = TRUE, !.binary = TRUE] \in State
        /\ [Absent EXCEPT !.there = TRUE] \in State
    BY <2>1 DEF State
  <2> QED BY <2>2 DEF HashEntry
<1> QED BY <1>2, <1>3 DEF ComputeSourceIntegrityHash

\* Whatever was found and whether or not the source is as it was.
LEMMA ReportTyped ==
  ASSUME TypeInv
  PROVE  Summary(Deduplicate(findings \cup ScanSkippedFiles),
                 hashBefore = ComputeSourceIntegrityHash) \in ReportOn(Files)
<1> DEFINE all == findings \cup ScanSkippedFiles
<1>1. all \subseteq Finding(Files) /\ IsFiniteSet(all)
  BY SkipsTyped, FS_Union DEF TypeInv, TypeOK
<1> HIDE DEF all
<1>2. PICK found : found = Deduplicate(all)
  OBVIOUS
<1>3. found \in SUBSET Finding(Files) /\ IsFiniteSet(found)
  BY <1>1, <1>2, OnePlace, FS_Subset
<1>4. \A part \in SUBSET found : Cardinality(part) \in Nat
  BY <1>3, FS_Subset, FS_CardinalityType
<1>5. /\ [s \in Severities |-> Cardinality({x \in found : x.raw.rule.severity = s})]
           \in [Severities -> Nat]
      /\ [d \in BankingDomains |-> Cardinality({x \in found : d \in x.domains})]
           \in [BankingDomains -> Nat]
  BY <1>4
<1>6. Failures \in SUBSET [by : ReportingScanners, file : Files]
  <2>1. \A i \in Executions : Scanners[i] \in ReportingScanners
    BY ScannersAssumption DEF Executions, ReportingScanners
  <2>2. \A i \in Executions : executions[i].errored \subseteq Files
    BY DEF TypeInv, TypeOK
  <2> QED BY <2>1, <2>2 DEF Failures
<1>7. /\ walk.truncated \in BOOLEAN /\ walk.found \in Nat
      /\ Len(Inventory) \in Nat /\ Len(walk.skipped) \in Nat
  BY DEF TypeInv, TypeOK, Inventory
<1>8. PICK verified \in BOOLEAN : verified = (hashBefore = ComputeSourceIntegrityHash)
  OBVIOUS
<1>9. Status(verified, Failures # {}, walk.truncated)
        \in {"failed", "completed_with_warnings", "completed"}
  BY DEF Status
<1>10. Summary(found, verified) \in ReportOn(Files)
  BY <1>3, <1>5, <1>6, <1>7, <1>8, <1>9 DEF Summary, ReportOn
<1> QED BY <1>2, <1>8, <1>10 DEF all

\* The cursor goes on to an item that there is, or the scan is over.
LEMMA NextItemType ==
  ASSUME TypeInv, NextItem, phase = "scanning",
         executions' \in [Executions -> [processed : SUBSET Files,
                                         errored : SUBSET Files]],
         findings' \subseteq Finding(Files), IsFiniteSet(findings')
  PROVE  TypeInv'
<1>1. /\ cursor.scanner \in 1 .. Len(Scanners)
      /\ cursor.item \in 1 .. Len(Inventory)
      /\ Len(Scanners) \in Nat /\ Len(Inventory) \in Nat
      /\ DOMAIN Inventory = 1 .. Len(Inventory)
      /\ cursor = [scanner |-> cursor.scanner, item |-> cursor.item]
  <2>1. cursor \in [scanner : Executions, item : DOMAIN Inventory]
        /\ Inventory \in Seq(Items)
    BY DEF TypeInv, TypeOK, Inventory
  <2> QED BY <2>1, ShapeOfScanners
<1>2. ~LastItem => cursor' \in [scanner : Executions, item : DOMAIN Inventory]
  <2>1. CASE cursor.item < Len(Inventory)
    <3>1. cursor' = [scanner |-> cursor.scanner, item |-> cursor.item + 1]
      BY <1>1, <2>1 DEF NextItem, AfterItem
    <3> QED BY <1>1, <2>1, <3>1, ShapeOfScanners
  <2>2. CASE cursor.item = Len(Inventory) /\ cursor.scanner < Len(Scanners)
    <3>1. cursor' = [scanner |-> cursor.scanner + 1, item |-> 1]
      BY <1>1, <2>2 DEF NextItem, AfterItem
    <3> QED BY <1>1, <2>2, <3>1, ShapeOfScanners
  <2> QED BY <1>1, <2>1, <2>2 DEF LastItem
<1>3. phase' \in {"scanning", "scanned"} /\ (phase' = "scanning" => ~LastItem)
  BY DEF NextItem
<1>4. UNCHANGED <<treeVars, temp, unpacked, walk, hashBefore, report>>
  BY DEF NextItem
<1> QED
  BY <1>2, <1>3, <1>4 DEF TypeInv, TypeOK, Phases, Unscanned, treeVars, Items,
     Skips, Files, Source, Dirs, Entries, Inventory

LEMMA ScanType ==
  ASSUME TypeInv, RunScan
  PROVE  TypeInv'
<1> DEFINE Outcomes == [Executions -> [processed : SUBSET Files,
                                       errored : SUBSET Files]]
<1>0. findings \subseteq Finding(Files) /\ IsFiniteSet(findings)
  BY DEF TypeInv, TypeOK
<1>1. phase = "scanning" => Current \in Files
  <2>1. ASSUME phase = "scanning"
        PROVE  Inventory[cursor.item] \in Items
    BY <2>1 DEF TypeInv, TypeOK, Inventory
  <2> QED BY <2>1 DEF Current, Items
<1>2. phase = "scanning" =>
        cursor.scanner \in Executions /\ executions \in Outcomes
  BY DEF TypeInv, TypeOK
<1>3. CASE FileUnreadable \/ ScannerRaises
  <2>1. phase = "scanning" /\ Errored(Current) /\ NextItem /\ findings' = findings
    BY <1>3 DEF FileUnreadable, ScannerRaises, Errored
  <2>2. executions' \in Outcomes
    BY <1>1, <1>2, <2>1 DEF Errored
  <2> QED BY <1>0, <2>1, <2>2, NextItemType
<1>4. CASE FileIsBinary
  <2>1. phase = "scanning" /\ executions' = executions /\ NextItem
        /\ findings' = findings
    BY <1>4 DEF FileIsBinary
  <2> QED BY <1>0, <1>2, <2>1, NextItemType
<1>5. CASE FileScanned
  <2>1. /\ phase = "scanning" /\ NextItem
        /\ executions' = [executions EXCEPT ![cursor.scanner].processed = @ \cup {Current}]
    BY <1>5 DEF FileScanned
  <2>2. executions' \in Outcomes
    BY <1>1, <1>2, <2>1
  <2>3. Opened(Current) \in State
    BY <1>1, <2>1, ShapeOfSource DEF Opened, TypeInv, TypeOK
  <2>4. CurrentScanner \in ContentNames
    <3>1. cursor.scanner \in Executions
      BY <1>2, <2>1
    <3>2. \A i \in Executions : Scanners[i] \in ContentNames
      BY ScannersAssumption DEF Executions, ContentNames
    <3> QED BY <3>1, <3>2 DEF CurrentScanner
  <2>5. PICK found : found = FindingsIn(Current, CurrentScanner, ReadText(Opened(Current)))
    OBVIOUS
  <2>6. found \subseteq Finding(Files) /\ IsFiniteSet(found)
    BY <1>1, <2>1, <2>3, <2>4, <2>5, TextIsRead, FoundTyped
  <2>7. findings' = findings \cup found
    BY <1>5, <2>5 DEF FileScanned
  <2>8. findings' \subseteq Finding(Files) /\ IsFiniteSet(findings')
    BY <1>0, <2>6, <2>7, FS_Union
  <2> QED BY <2>1, <2>2, <2>8, NextItemType
<1>6. CASE EndDiscovery
  <2>1. UNCHANGED <<treeVars, temp, unpacked, walk, scanVars>>
        /\ phase' \in {"scanning", "scanned"} /\ phase \in Unscanned
        /\ (phase' = "scanning" => Inventory # <<>> /\ Scanners # <<>>)
    BY <1>6 DEF EndDiscovery, Unscanned
  <2>2. phase' = "scanning" => cursor \in [scanner : Executions, item : DOMAIN Inventory]
    <3>1. ASSUME phase' = "scanning"
          PROVE  1 \in DOMAIN Inventory /\ 1 \in Executions
      <4>1. Inventory \in Seq(Items)
        BY DEF TypeInv, TypeOK, Inventory
      <4>2. Len(Inventory) > 0 /\ Len(Inventory) \in Nat
        BY <2>1, <3>1, <4>1
      <4>3. Len(Scanners) > 0
        BY <2>1, <3>1, ScannersAssumption
      <4> QED BY <4>1, <4>2, <4>3, ShapeOfScanners
    <3>2. cursor = [scanner |-> 1, item |-> 1]
      BY <2>1 DEF TypeInv
    <3> QED BY <3>1, <3>2
  <2> QED
    BY <2>1, <2>2 DEF TypeInv, TypeOK, scanVars, treeVars, Phases, Unscanned,
       Items, Skips, Files, Source, Dirs, Entries, Inventory
<1>7. CASE HashBefore \/ ScanCannotRun \/ Report \/ Cleanup
  <2>1. /\ UNCHANGED <<treeVars, unpacked, walk, cursor, executions, findings>>
        /\ phase' \in Phases \ {"scanning"}
        /\ (phase' \in Unscanned => phase \in Unscanned)
    BY <1>7 DEF HashBefore, ScanCannotRun, Report, Cleanup, Discard, scanVars,
                Phases, Unscanned, Ended
  <2>2. temp' \in {"none", "present", "removed", "stuck"}
    BY <1>7 DEF HashBefore, ScanCannotRun, Report, Cleanup, Discard, RemoveTemp,
                TypeInv, TypeOK
  <2>3. hashBefore' # None => hashBefore' \in [DOMAIN hashBefore' -> State]
                              /\ DOMAIN hashBefore' \subseteq Files
    <3>1. CASE HashBefore
      BY <3>1, HashTyped DEF HashBefore, TypeInv, TypeOK
    <3>2. CASE hashBefore' = hashBefore
      BY <3>2 DEF TypeInv, TypeOK
    <3> QED BY <1>7, <3>1, <3>2 DEF ScanCannotRun, Report, Cleanup, scanVars
  <2>4. report' \in {None} \cup ReportOn(Files)
    <3>1. CASE Report
      BY <3>1, ReportTyped DEF Report, TypeInv, TypeOK
    <3>2. CASE report' = report
      BY <3>2 DEF TypeInv, TypeOK
    <3> QED BY <1>7, <3>1, <3>2 DEF HashBefore, ScanCannotRun, Cleanup, scanVars
  <2> QED
    BY <2>1, <2>2, <2>3, <2>4 DEF TypeInv, TypeOK, treeVars, Items, Skips, Files,
       Source, Dirs, Entries, Inventory
<1> QED
  BY <1>3, <1>4, <1>5, <1>6, <1>7 DEF RunScan

LEMMA TypeNext == TypeInv /\ [Next]_vars => TypeInv'
<1> SUFFICES ASSUME TypeInv, [Next]_vars PROVE TypeInv'
  OBVIOUS
<1>1. CASE Advance
  BY <1>1, IngestType, DiscoverType, ScanType DEF Advance
<1>2. ASSUME NEW f \in Files, OwnerChanges(f)
      PROVE  TypeInv'
  <2>1. PICK state \in Source.changes[f] : disk' = [disk EXCEPT ![f] = state]
    BY <1>2 DEF OwnerChanges, Change
  <2>2. state \in State /\ scenario' = scenario /\ touched' \subseteq Files
    BY <1>2, ShapeOfSource DEF TypeInv, TypeOK, OwnerChanges, Change
  <2>3. disk' \in [Files -> State]
    BY <2>1, <2>2 DEF TypeInv, TypeOK
  <2> QED
    BY <1>2, <2>2, <2>3 DEF TypeInv, TypeOK, OwnerChanges, ingestVars, scanVars,
       Items, Skips, Files, Source, Dirs, Entries, Inventory
<1>3. CASE Stop
  BY <1>3 DEF Stop, TypeInv, TypeOK, Phases, Ended, Unscanned, treeVars, scanVars,
     Items, Skips, Files, Source, Dirs, Entries, Inventory
<1>4. CASE UNCHANGED vars
  BY <1>4 DEF vars, ingestVars, TypeInv, TypeOK, treeVars, scanVars, Items, Skips,
     Files, Source, Dirs, Entries, Inventory
<1> QED BY <1>1, <1>2, <1>3, <1>4 DEF Next

LEMMA TypeAlways == Spec => []TypeInv
BY TypeInit, TypeNext, PTL DEF Spec

\* Whatever the source, the settings and the changes of its owner, the state of
\* a scan has the shape that the code relies on, and the cursor of the scanners
\* stands on a file that there is.
THEOREM TypeCorrect == Spec => []TypeOK
<1>1. TypeInv => TypeOK
  BY DEF TypeInv
<1> QED BY <1>1, TypeAlways, PTL

(***************************************************************************)
(* What each step of a scan does to the walk and to the temporary          *)
(* directory.                                                              *)
(***************************************************************************)
\* Only discovery moves the walk, and no step changes what was asked for.
LEMMA OnlyDiscoveryWalks ==
  ASSUME [Next]_vars
  PROVE  /\ scenario' = scenario
         /\ Discover \/ walk' = walk
<1>1. CASE Ingest /\ UNCHANGED <<walk, scanVars>>
  BY <1>1 DEF Ingest, AcceptDirectory, RefuseSource, TempDirFails, MakeTempDir,
     ValidateMembers, RejectMembers, ExtractionFails, EndExtraction, ExtractEntry,
     treeVars
<1>2. CASE Discover
  BY <1>2 DEF Discover, EnterDirectory, SkipFile, AdmitFile, treeVars
<1>3. CASE RunScan
  BY <1>3 DEF RunScan, HashBefore, EndDiscovery, FileUnreadable, FileIsBinary,
     ScannerRaises, FileScanned, NextItem, Report, ScanCannotRun, Cleanup, treeVars
<1>4. CASE \E f \in Files : OwnerChanges(f)
  BY <1>4 DEF OwnerChanges, Change
<1>5. CASE Stop
  BY <1>5 DEF Stop, treeVars
<1>6. CASE UNCHANGED vars
  BY <1>6 DEF vars, treeVars
<1> QED BY <1>1, <1>2, <1>3, <1>4, <1>5, <1>6 DEF Next, Advance

(***************************************************************************)
(* The limits of discovery.                                                *)
(***************************************************************************)
LimitsInv ==
  /\ walk.found = Len(Inventory) + Len(walk.skipped)
  /\ LimitsHold

LEMMA LimitsInit == Init => LimitsInv
<1> SUFFICES ASSUME Init PROVE LimitsInv
  OBVIOUS
<1>1. /\ walk.found = 0 /\ walk.bytes = 0 /\ ~walk.truncated
      /\ walk.skipped = <<>> /\ Inventory = <<>>
  BY DEF Init, NewWalk, Inventory
<1>2. Settings.maxCount \in Nat /\ Settings.maxTotalSize \in Nat
  BY ShapeOfSource DEF Init
<1> QED BY <1>1, <1>2 DEF LimitsInv, LimitsHold

\* A file that is left out is recorded with its reason.
LEMMA LimitsOfSkip ==
  ASSUME TypeInv, LimitsInv, scenario' = scenario,
         NEW f \in walk.todo, SkipFile(f)
  PROVE  LimitsInv'
<1>1. PICK reason \in Refusal(f) :
        walk' = [walk EXCEPT !.todo = @ \ {f}, !.found = @ + 1,
                             !.truncated = @ \/ reason \in Truncating,
                             !.skipped = Recorded(f, reason)]
  BY DEF SkipFile
<1>2. walk \in [dir : 0 .. Len(Dirs), todo : SUBSET Files, found : Nat, bytes : Nat,
                truncated : BOOLEAN, inventory : Seq(Items), skipped : Seq(Skips)]
  BY DEF TypeInv, TypeOK
<1>3. /\ walk'.inventory = walk.inventory /\ walk'.bytes = walk.bytes
      /\ walk'.found = walk.found + 1
      /\ walk'.truncated = (walk.truncated \/ reason \in Truncating)
      /\ walk'.skipped = Append(walk.skipped, [file |-> f, reason |-> reason])
  BY <1>1, <1>2 DEF Recorded
<1>4. /\ Len(walk'.skipped) = Len(walk.skipped) + 1
      /\ DOMAIN walk'.skipped = DOMAIN walk.skipped \cup {Len(walk.skipped) + 1}
      /\ \A k \in DOMAIN walk.skipped : walk'.skipped[k] = walk.skipped[k]
      /\ walk'.skipped[Len(walk.skipped) + 1].reason = reason
  BY <1>2, <1>3
<1>5. Len(walk.skipped) \in Nat /\ Len(walk.inventory) \in Nat
  BY <1>2
<1>6. (\E k \in DOMAIN walk'.skipped : walk'.skipped[k].reason \in Truncating)
        => walk'.truncated
  BY <1>3, <1>4 DEF LimitsInv, LimitsHold
<1>7. \A g : NotFollowed(g)' <=> NotFollowed(g)
  BY DEF NotFollowed, IsSymlink, Source, Settings
<1>8. walk'.found = Len(Inventory)' + Len(walk'.skipped)
  BY <1>2, <1>3, <1>4, <1>5 DEF LimitsInv, Inventory
<1> QED
  BY <1>3, <1>6, <1>7, <1>8 DEF LimitsInv, LimitsHold, Inventory, Truncating,
     Settings, Size

\* A file that is admitted is within all of them.
LEMMA LimitsOfAdmit ==
  ASSUME TypeInv, LimitsInv, scenario' = scenario,
         NEW f \in walk.todo, AdmitFile(f)
  PROVE  LimitsInv'
<1>1. walk' = [walk EXCEPT
        !.todo = @ \ {f}, !.found = @ + 1, !.bytes = @ + Size(Opened(f)),
        !.inventory = Append(@, [file |-> f, state |-> Opened(f)])]
  BY DEF AdmitFile
<1>2. walk \in [dir : 0 .. Len(Dirs), todo : SUBSET Files, found : Nat, bytes : Nat,
                truncated : BOOLEAN, inventory : Seq(Items), skipped : Seq(Skips)]
  BY DEF TypeInv, TypeOK
<1>3. /\ walk'.inventory = Append(walk.inventory, [file |-> f, state |-> Opened(f)])
      /\ walk'.bytes = walk.bytes + Size(Opened(f))
      /\ walk'.found = walk.found + 1
      /\ walk'.truncated = walk.truncated
      /\ walk'.skipped = walk.skipped
  BY <1>1, <1>2
<1>4. /\ ~OverCount /\ ~NotFollowed(f) /\ ~OverTotal(f)
      /\ ~(Size(Opened(f)) > Settings.maxFileSize)
  BY DEF AdmitFile, Refusal
<1>5. Opened(f) \in State
  BY <1>2, ShapeOfSource DEF Opened, TypeInv, TypeOK
<1>6. [file |-> f, state |-> Opened(f)] \in Items
  BY <1>2, <1>5 DEF Items
<1>7. /\ Size(Opened(f)) \in Nat
      /\ Settings.maxCount \in Nat /\ Settings.maxFileSize \in Nat
      /\ Settings.maxTotalSize \in Nat
  BY <1>5, SizeIsNat, ShapeOfSource DEF TypeInv, TypeOK
<1>8. /\ Len(walk'.inventory) = Len(walk.inventory) + 1
      /\ DOMAIN walk'.inventory = DOMAIN walk.inventory \cup {Len(walk.inventory) + 1}
      /\ \A k \in DOMAIN walk.inventory : walk'.inventory[k] = walk.inventory[k]
      /\ walk'.inventory[Len(walk.inventory) + 1] = [file |-> f, state |-> Opened(f)]
      /\ Len(walk.skipped) \in Nat /\ Len(walk.inventory) \in Nat
  BY <1>2, <1>3, <1>6
<1>9. \A k \in DOMAIN walk'.inventory :
        /\ Size(walk'.inventory[k].state) <= Settings.maxFileSize
        /\ ~NotFollowed(walk'.inventory[k].file)
  BY <1>4, <1>7, <1>8 DEF LimitsInv, LimitsHold, Inventory
<1>10. Len(walk'.inventory) <= Settings.maxCount
  BY <1>2, <1>4, <1>7, <1>8 DEF LimitsInv, OverCount, Inventory
<1>11. walk'.bytes <= Settings.maxTotalSize
  BY <1>2, <1>3, <1>4, <1>7 DEF OverTotal
<1>12. \A g : NotFollowed(g)' <=> NotFollowed(g)
  BY DEF NotFollowed, IsSymlink, Source, Settings
<1>13. walk'.found = Len(walk'.inventory) + Len(walk'.skipped)
  BY <1>2, <1>3, <1>8 DEF LimitsInv, Inventory
<1> QED
  BY <1>3, <1>9, <1>10, <1>11, <1>12, <1>13 DEF LimitsInv, LimitsHold, Inventory,
     Truncating, Settings, Size

LEMMA LimitsNext == TypeInv /\ LimitsInv /\ [Next]_vars => LimitsInv'
<1> SUFFICES ASSUME TypeInv, LimitsInv, [Next]_vars PROVE LimitsInv'
  OBVIOUS
<1>1. scenario' = scenario /\ (Discover \/ walk' = walk)
  BY OnlyDiscoveryWalks
<1>2. \A g : NotFollowed(g)' <=> NotFollowed(g)
  BY <1>1 DEF NotFollowed, IsSymlink, Source, Settings
<1>3. ASSUME /\ walk'.found = walk.found /\ walk'.bytes = walk.bytes
             /\ walk'.truncated = walk.truncated
             /\ walk'.inventory = walk.inventory /\ walk'.skipped = walk.skipped
      PROVE  LimitsInv'
  BY <1>1, <1>2, <1>3 DEF LimitsInv, LimitsHold, Inventory, Truncating, Settings, Size
<1>4. CASE EnterDirectory
  <2>1. walk \in [dir : 0 .. Len(Dirs), todo : SUBSET Files, found : Nat,
                  bytes : Nat, truncated : BOOLEAN, inventory : Seq(Items),
                  skipped : Seq(Skips)]
    BY DEF TypeInv, TypeOK
  <2> QED BY <1>3, <1>4, <2>1 DEF EnterDirectory
<1>5. CASE walk' = walk
  BY <1>3, <1>5
<1> QED
  BY <1>1, <1>4, <1>5, LimitsOfSkip, LimitsOfAdmit DEF Discover

\* Whatever the tree and the limits: what is admitted is within the limits on
\* the number and the size of files and comes from inside the root, and a scan
\* from which the number or the total size left a file out is called truncated.
\* What the depth limit leaves out is not spoken of: it sets no flag.
THEOREM LimitsAlways == Spec => []LimitsHold
<1>1. LimitsInv => LimitsHold
  BY DEF LimitsInv
<1> QED BY <1>1, LimitsInit, LimitsNext, TypeAlways, PTL DEF Spec

(***************************************************************************)
(* Archives.                                                               *)
(***************************************************************************)
\* Where the caller is tells what has become of the temporary directory.
ArchiveInv ==
  /\ phase = "asked" => temp = "none" /\ unpacked = 0
  /\ phase \in {"made", "extracting"} => temp = "present"
  /\ phase = "made" => unpacked = 0
  /\ phase = "extracting" => ValidMembers
  /\ ArchivesLeaveNothing

LEMMA ArchiveInit == Init => ArchiveInv
BY DEF Init, ArchiveInv, ArchivesLeaveNothing

LEMMA ArchiveNext == TypeInv /\ ArchiveInv /\ [Next]_vars => ArchiveInv'
<1> SUFFICES ASSUME TypeInv, ArchiveInv, [Next]_vars PROVE ArchiveInv'
  OBVIOUS
<1>1. scenario' = scenario
  BY OnlyDiscoveryWalks
<1>2. ValidMembers' <=> ValidMembers
  BY <1>1 DEF ValidMembers, ValidMember, Expanded, Entries, Source, Settings, Size
<1>3. unpacked \in Nat
  BY ShapeOfSource DEF TypeInv, TypeOK
<1>4. CASE MakeTempDir \/ ValidateMembers
  BY <1>2, <1>4 DEF MakeTempDir, ValidateMembers, ArchiveInv, ArchivesLeaveNothing
<1>5. CASE ExtractEntry
  BY <1>2, <1>3, <1>5 DEF ExtractEntry, ArchiveInv, ArchivesLeaveNothing
<1>6. CASE AcceptDirectory \/ RefuseSource \/ TempDirFails \/ EndExtraction
  BY <1>2, <1>6 DEF AcceptDirectory, RefuseSource, TempDirFails, EndExtraction,
     ArchiveInv, ArchivesLeaveNothing
<1>7. CASE RejectMembers \/ ExtractionFails
  BY <1>2, <1>7 DEF RejectMembers, ExtractionFails, Discard, RemoveTemp,
     ArchiveInv, ArchivesLeaveNothing
<1>8. CASE Cleanup
  BY <1>2, <1>8 DEF Cleanup, Discard, RemoveTemp, ArchiveInv, ArchivesLeaveNothing
<1>9. CASE \/ HashBefore \/ EndDiscovery \/ ScanCannotRun \/ Report
  BY <1>2, <1>9 DEF HashBefore, EndDiscovery, ScanCannotRun, Report, ArchiveInv,
     ArchivesLeaveNothing
<1>10. CASE FileUnreadable \/ FileIsBinary \/ ScannerRaises \/ FileScanned
  <2>1. phase = "scanning" /\ NextItem
    BY <1>10 DEF FileUnreadable, FileIsBinary, ScannerRaises, FileScanned
  <2> QED
    BY <1>2, <2>1 DEF NextItem, ArchiveInv, ArchivesLeaveNothing
<1>11. CASE Discover
  BY <1>2, <1>11 DEF Discover, EnterDirectory, SkipFile, AdmitFile, ingestVars,
     ArchiveInv, ArchivesLeaveNothing
<1>12. CASE \/ \E f \in Files : OwnerChanges(f)
            \/ UNCHANGED vars
  BY <1>2, <1>12 DEF OwnerChanges, vars, ingestVars, ArchiveInv, ArchivesLeaveNothing
<1>13. CASE Stop
  BY <1>2, <1>13 DEF Stop, ArchiveInv, ArchivesLeaveNothing
<1> QED
  BY <1>4, <1>5, <1>6, <1>7, <1>8, <1>9, <1>10, <1>11, <1>12, <1>13
  DEF Next, Advance, Ingest, RunScan

\* Whatever the archive and wherever it fails: when the scan has ended by
\* itself its directory is gone, or could not be removed, and nothing of an
\* archive that does not pass the checks was ever written.
THEOREM ArchivesAlways == Spec => []ArchivesLeaveNothing
<1>1. ArchiveInv => ArchivesLeaveNothing
  BY DEF ArchiveInv
<1> QED BY <1>1, ArchiveInit, ArchiveNext, TypeAlways, PTL DEF Spec

(***************************************************************************)
(* The place of every file.                                                *)
(***************************************************************************)
Unwalked == {"asked", "made", "extracting", "accepted"}

\* What the walk has come to is in directories that it has entered, and
\* nothing of it is still to do; before the walk there is nothing.
PlaceInv ==
  /\ EveryFileHasAPlace
  /\ IsFiniteSet(Placed) /\ IsFiniteSet(LeftOut)
  /\ (Placed \cup LeftOut) \cap walk.todo = {}
  /\ \A f \in Placed \cup LeftOut \cup walk.todo :
       \E i \in 1 .. walk.dir : f \in FilesOf(Dirs[i])
  /\ phase \in Unwalked => walk = NewWalk

\* A file is in one directory.
LEMMA OneDirectory ==
  ASSUME scenario \in Scenarios,
         NEW i \in DOMAIN Dirs, NEW j \in DOMAIN Dirs,
         NEW f \in FilesOf(Dirs[i]), f \in FilesOf(Dirs[j])
  PROVE  i = j
BY ScenariosAssumption DEF SourceShape, FilesOf, Dirs, Source

\* The files of a list of items or skips, and of the list with one more.
NamesIn(list) == {list[k].file : k \in DOMAIN list}

LEMMA NamesInLonger ==
  ASSUME NEW S, NEW list \in Seq(S), NEW x \in S
  PROVE  NamesIn(Append(list, x)) = NamesIn(list) \cup {x.file}
<1>1. /\ DOMAIN Append(list, x) = DOMAIN list \cup {Len(list) + 1}
      /\ \A k \in DOMAIN list : Append(list, x)[k] = list[k]
      /\ Append(list, x)[Len(list) + 1] = x
  OBVIOUS
<1> QED BY <1>1 DEF NamesIn

\* Nothing is at a path today that was not there before, but where the owner
\* of the source has been; and the shape of the tree is the same.
LEMMA SameTree ==
  ASSUME scenario' = scenario
  PROVE  /\ Dirs' = Dirs /\ Settings' = Settings /\ Files' = Files
         /\ \A d : Reached(d)' <=> Reached(d)
         /\ \A d : FilesOf(d)' = FilesOf(d)
         /\ \A f : disk'[f] = disk[f] => (IsListed(f)' <=> IsListed(f))
BY DEF Dirs, Settings, Files, Source, Reached, Entered, FilesOf, IsListed

LEMMA PlaceInit == Init => PlaceInv
<1> SUFFICES ASSUME Init PROVE PlaceInv
  OBVIOUS
<1>1. /\ walk = NewWalk /\ walk.skipped = <<>> /\ Inventory = <<>>
      /\ walk.todo = {} /\ walk.dir = 0 /\ walk.found = 0
  BY DEF Init, NewWalk, Inventory
<1>2. Placed = {} /\ LeftOut = {}
  BY <1>1 DEF Placed, LeftOut
<1>3. \A i \in DOMAIN Dirs : ~(i <= 0)
  BY ShapeOfSource DEF Init
<1> QED
  BY <1>1, <1>2, <1>3, FS_EmptySet DEF PlaceInv, EveryFileHasAPlace

\* A step of the walk on one file moves it from what is to do to its place.
LEMMA PlaceOfOne ==
  ASSUME TypeInv, PlaceInv, UNCHANGED <<treeVars, ingestVars>>,
         phase = "discovering", NEW f \in walk.todo,
         walk'.dir = walk.dir, walk'.todo = walk.todo \ {f},
         walk'.found = walk.found + 1,
         \/ /\ Placed' = Placed \cup {f} /\ LeftOut' = LeftOut
            /\ Len(Inventory') = Len(Inventory) + 1
            /\ Len(walk'.skipped) = Len(walk.skipped)
         \/ /\ Placed' = Placed /\ LeftOut' = LeftOut \cup {f}
            /\ Len(Inventory') = Len(Inventory)
            /\ Len(walk'.skipped) = Len(walk.skipped) + 1
  PROVE  PlaceInv'
<1>1. f \notin Placed /\ f \notin LeftOut
  BY DEF PlaceInv
<1>2. Placed' \cup LeftOut' \cup walk'.todo = Placed \cup LeftOut \cup walk.todo
  OBVIOUS
<1>3. Placed' \cap LeftOut' = {} /\ (Placed' \cup LeftOut') \cap walk'.todo = {}
  BY <1>1 DEF PlaceInv, EveryFileHasAPlace
<1>4. Len(Inventory) \in Nat /\ Len(walk.skipped) \in Nat /\ walk.found \in Nat
  BY DEF TypeInv, TypeOK, Inventory
<1>5. /\ Cardinality(Placed \cup {f}) = Cardinality(Placed) + 1
      /\ IsFiniteSet(Placed \cup {f})
      /\ Cardinality(LeftOut \cup {f}) = Cardinality(LeftOut) + 1
      /\ IsFiniteSet(LeftOut \cup {f})
  BY <1>1, FS_AddElement DEF PlaceInv
<1>6. /\ IsFiniteSet(Placed') /\ IsFiniteSet(LeftOut')
      /\ Cardinality(Placed') = Len(Inventory')
      /\ Cardinality(LeftOut') = Len(walk'.skipped)
      /\ walk'.found = Len(Inventory') + Len(walk'.skipped)
  <2>1. /\ Cardinality(Placed) = Len(Inventory)
        /\ Cardinality(LeftOut) = Len(walk.skipped)
        /\ IsFiniteSet(Placed) /\ IsFiniteSet(LeftOut)
    BY DEF PlaceInv, EveryFileHasAPlace
  <2>2. walk'.found = Len(Inventory) + Len(walk.skipped) + 1
    BY DEF PlaceInv, EveryFileHasAPlace
  <2>3. CASE Placed' = Placed \cup {f} /\ LeftOut' = LeftOut
             /\ Len(Inventory') = Len(Inventory) + 1
             /\ Len(walk'.skipped) = Len(walk.skipped)
    <3>1. Cardinality(Placed') = Cardinality(Placed) + 1 /\ IsFiniteSet(Placed')
      BY <1>5, <2>3
    <3>2. Cardinality(LeftOut') = Cardinality(LeftOut) /\ IsFiniteSet(LeftOut')
      BY <2>1, <2>3
    <3>3. walk'.found = Len(Inventory') + Len(walk'.skipped)
      <4>1. ASSUME NEW n \in Nat, NEW k \in Nat
            PROVE  n + k + 1 = (n + 1) + k
        OBVIOUS
      <4> QED BY <1>4, <2>2, <2>3, <4>1
    <3>4. Cardinality(Placed') = Len(Inventory')
      BY <1>4, <2>1, <2>3, <3>1, <3>2
    <3>5. Cardinality(LeftOut') = Len(walk'.skipped)
      BY <1>4, <2>1, <2>3, <3>1, <3>2
    <3> QED BY <3>1, <3>2, <3>3, <3>4, <3>5
  <2>4. CASE Placed' = Placed /\ LeftOut' = LeftOut \cup {f}
             /\ Len(Inventory') = Len(Inventory)
             /\ Len(walk'.skipped) = Len(walk.skipped) + 1
    <3>1. Cardinality(LeftOut') = Cardinality(LeftOut) + 1 /\ IsFiniteSet(LeftOut')
      BY <1>5, <2>4
    <3>2. Cardinality(Placed') = Cardinality(Placed) /\ IsFiniteSet(Placed')
      BY <2>1, <2>4
    <3>3. walk'.found = Len(Inventory') + Len(walk'.skipped)
      BY <1>4, <2>2, <2>4
    <3>4. Cardinality(Placed') = Len(Inventory')
      BY <1>4, <2>1, <2>4, <3>1, <3>2
    <3>5. Cardinality(LeftOut') = Len(walk'.skipped)
      BY <1>4, <2>1, <2>4, <3>1, <3>2
    <3> QED BY <3>1, <3>2, <3>3, <3>4, <3>5
  <2> QED BY <2>3, <2>4
<1>7. scenario' = scenario /\ disk' = disk /\ touched' = touched
      /\ phase' \notin Unwalked
  BY DEF treeVars, ingestVars, Unwalked
<1>8. /\ Dirs' = Dirs
      /\ \A d : Reached(d)' <=> Reached(d)
      /\ \A d : FilesOf(d)' = FilesOf(d)
      /\ \A g : IsListed(g)' <=> IsListed(g)
  BY <1>7, SameTree
<1>9. \A i \in DOMAIN Dirs' : \A g \in FilesOf(Dirs[i])' \ touched' :
        g \in Placed' \cup LeftOut' \cup walk'.todo
          <=> i <= walk'.dir /\ Reached(Dirs[i])' /\ IsListed(g)'
  BY <1>2, <1>7, <1>8 DEF PlaceInv, EveryFileHasAPlace
<1>10. \A g \in Placed' \cup LeftOut' \cup walk'.todo :
         \E i \in 1 .. walk'.dir : g \in FilesOf(Dirs[i])'
  BY <1>2, <1>8 DEF PlaceInv
<1> QED
  BY <1>3, <1>6, <1>7, <1>9, <1>10 DEF PlaceInv, EveryFileHasAPlace

LEMMA PlaceOfSkip ==
  ASSUME TypeInv, PlaceInv, NEW f \in walk.todo, SkipFile(f)
  PROVE  PlaceInv'
<1>1. PICK reason \in Refusal(f) :
        walk' = [walk EXCEPT !.todo = @ \ {f}, !.found = @ + 1,
                             !.truncated = @ \/ reason \in Truncating,
                             !.skipped = Recorded(f, reason)]
  BY DEF SkipFile
<1>2. walk \in [dir : 0 .. Len(Dirs), todo : SUBSET Files, found : Nat, bytes : Nat,
                truncated : BOOLEAN, inventory : Seq(Items), skipped : Seq(Skips)]
  BY DEF TypeInv, TypeOK
<1>3. [file |-> f, reason |-> reason] \in Skips
  BY <1>2 DEF Refusal, Skips, SkipReasons
<1>4. /\ walk'.inventory = walk.inventory /\ walk'.dir = walk.dir
      /\ walk'.todo = walk.todo \ {f} /\ walk'.found = walk.found + 1
      /\ walk'.skipped = Append(walk.skipped, [file |-> f, reason |-> reason])
  BY <1>1, <1>2 DEF Recorded
<1>5. LeftOut' = LeftOut \cup {f}
  <2>1. PICK x \in Skips : x = [file |-> f, reason |-> reason]
    BY <1>3
  <2>2. NamesIn(Append(walk.skipped, x)) = NamesIn(walk.skipped) \cup {x.file}
    BY <1>2, NamesInLonger
  <2>3. x.file = f
    BY <2>1
  <2> QED BY <1>4, <2>1, <2>2, <2>3 DEF NamesIn, LeftOut
<1>6. Len(walk'.skipped) = Len(walk.skipped) + 1
  BY <1>2, <1>4
<1>7. UNCHANGED <<treeVars, ingestVars>> /\ phase = "discovering"
  BY DEF SkipFile
<1> QED
  BY <1>4, <1>5, <1>6, <1>7, PlaceOfOne DEF Placed, Inventory

LEMMA PlaceOfAdmit ==
  ASSUME TypeInv, PlaceInv, NEW f \in walk.todo, AdmitFile(f)
  PROVE  PlaceInv'
<1>1. walk' = [walk EXCEPT
        !.todo = @ \ {f}, !.found = @ + 1, !.bytes = @ + Size(Opened(f)),
        !.inventory = Append(@, [file |-> f, state |-> Opened(f)])]
  BY DEF AdmitFile
<1>2. walk \in [dir : 0 .. Len(Dirs), todo : SUBSET Files, found : Nat, bytes : Nat,
                truncated : BOOLEAN, inventory : Seq(Items), skipped : Seq(Skips)]
  BY DEF TypeInv, TypeOK
<1>3. Opened(f) \in State
  BY <1>2, ShapeOfSource DEF Opened, TypeInv, TypeOK
<1>4. [file |-> f, state |-> Opened(f)] \in Items
  BY <1>2, <1>3 DEF Items
<1>5. /\ walk'.skipped = walk.skipped /\ walk'.dir = walk.dir
      /\ walk'.todo = walk.todo \ {f} /\ walk'.found = walk.found + 1
      /\ walk'.inventory = Append(walk.inventory, [file |-> f, state |-> Opened(f)])
  BY <1>1, <1>2
<1>6. Placed' = Placed \cup {f}
  <2>1. PICK x \in Items : x = [file |-> f, state |-> Opened(f)]
    BY <1>4
  <2>2. NamesIn(Append(walk.inventory, x)) = NamesIn(walk.inventory) \cup {x.file}
    BY <1>2, NamesInLonger
  <2>3. x.file = f
    BY <2>1
  <2> QED BY <1>5, <2>1, <2>2, <2>3 DEF NamesIn, Placed, Inventory
<1>7. Len(walk'.inventory) = Len(walk.inventory) + 1
  BY <1>2, <1>4, <1>5
<1>8. UNCHANGED <<treeVars, ingestVars>> /\ phase = "discovering"
  BY DEF AdmitFile
<1> QED
  BY <1>5, <1>6, <1>7, <1>8, PlaceOfOne DEF LeftOut, Inventory

\* The files of a directory are new to the walk when it enters it.
LEMMA PlaceOfDirectory ==
  ASSUME TypeInv, PlaceInv, EnterDirectory
  PROVE  PlaceInv'
<1> DEFINE d == walk.dir + 1
           Seen == Placed \cup LeftOut
<1>1. walk \in [dir : 0 .. Len(Dirs), todo : SUBSET Files, found : Nat, bytes : Nat,
                truncated : BOOLEAN, inventory : Seq(Items), skipped : Seq(Skips)]
      /\ scenario \in Scenarios
  BY DEF TypeInv, TypeOK
<1>2. /\ d \in DOMAIN Dirs /\ DOMAIN Dirs = 1 .. Len(Dirs) /\ Len(Dirs) \in Nat
      /\ walk.dir \in Nat /\ walk.todo = {}
  BY <1>1, ShapeOfSource DEF EnterDirectory
<1>3. /\ walk'.dir = d /\ walk'.found = walk.found
      /\ walk'.inventory = walk.inventory /\ walk'.skipped = walk.skipped
      /\ walk'.todo = IF Reached(Dirs[d]) THEN Listed(Dirs[d]) ELSE {}
  BY <1>1 DEF EnterDirectory
<1>4. Placed' = Placed /\ LeftOut' = LeftOut /\ Inventory' = Inventory
  BY <1>3 DEF Placed, LeftOut, Inventory
<1>5. scenario' = scenario /\ disk' = disk /\ touched' = touched
      /\ phase' \notin Unwalked
  BY DEF EnterDirectory, treeVars, ingestVars, Unwalked
<1>6. /\ Dirs' = Dirs
      /\ \A x : Reached(x)' <=> Reached(x)
      /\ \A x : FilesOf(x)' = FilesOf(x)
      /\ \A g : IsListed(g)' <=> IsListed(g)
  BY <1>5, SameTree
<1>7. \A f \in Seen : f \notin FilesOf(Dirs[d])
  <2>1. ASSUME NEW f \in Seen, f \in FilesOf(Dirs[d])
        PROVE  FALSE
    <3>1. PICK i \in 1 .. walk.dir : f \in FilesOf(Dirs[i])
      BY <2>1 DEF PlaceInv
    <3>2. i \in DOMAIN Dirs /\ i # d
      BY <1>1, <1>2
    <3> QED BY <1>1, <1>2, <2>1, <3>1, <3>2, OneDirectory
  <2> QED BY <2>1
<1>8. walk'.todo \subseteq FilesOf(Dirs[d])
  BY <1>3 DEF Listed
<1>9. Seen \cap walk'.todo = {}
  BY <1>7, <1>8
<1>10. \A f \in Seen \cup walk'.todo : \E i \in 1 .. d : f \in FilesOf(Dirs[i])
  BY <1>2, <1>8 DEF PlaceInv
<1>11. ASSUME NEW i \in DOMAIN Dirs, NEW f \in FilesOf(Dirs[i]) \ touched
       PROVE  f \in Seen \cup walk'.todo
                <=> i <= d /\ Reached(Dirs[i]) /\ IsListed(f)
  <2>1. f \in Seen <=> i <= walk.dir /\ Reached(Dirs[i]) /\ IsListed(f)
    BY <1>2, <1>11 DEF PlaceInv, EveryFileHasAPlace
  <2>2. CASE i = d
    <3>1. f \notin Seen
      BY <1>7, <2>2, <1>11
    <3>2. f \in walk'.todo <=> Reached(Dirs[i]) /\ IsListed(f)
      BY <1>3, <1>11, <2>2 DEF Listed
    <3> QED BY <1>2, <2>2, <3>1, <3>2
  <2>3. CASE i # d
    <3>1. f \notin FilesOf(Dirs[d])
      BY <1>1, <1>2, <1>11, <2>3, OneDirectory
    <3>2. i <= d <=> i <= walk.dir
      BY <1>2, <2>3
    <3> QED BY <1>8, <2>1, <3>1, <3>2
  <2> QED BY <2>2, <2>3
<1> QED
  BY <1>3, <1>4, <1>5, <1>6, <1>9, <1>10, <1>11 DEF PlaceInv, EveryFileHasAPlace

\* Where neither the walk nor what it has come to is disturbed.
LEMMA PlaceStays ==
  ASSUME PlaceInv, scenario' = scenario, walk' = walk, touched \subseteq touched',
         \A f \in Files \ touched' : disk'[f] = disk[f],
         scenario \in Scenarios,
         phase' \in Unwalked => phase \in Unwalked
  PROVE  PlaceInv'
<1>1. /\ Dirs' = Dirs
      /\ \A d : Reached(d)' <=> Reached(d)
      /\ \A d : FilesOf(d)' = FilesOf(d)
      /\ \A f \in Files \ touched' : IsListed(f)' <=> IsListed(f)
  BY SameTree
<1>2. \A i \in DOMAIN Dirs : FilesOf(Dirs[i]) \subseteq Files
  BY ShapeOfSource
<1>3. Placed' = Placed /\ LeftOut' = LeftOut /\ Inventory' = Inventory
  BY DEF Placed, LeftOut, Inventory
<1>4. \A i \in DOMAIN Dirs : \A f \in FilesOf(Dirs[i]) \ touched' :
        f \in Placed \cup LeftOut \cup walk.todo
          <=> i <= walk.dir /\ Reached(Dirs[i]) /\ IsListed(f)'
  BY <1>1, <1>2 DEF PlaceInv, EveryFileHasAPlace
<1> QED
  BY <1>1, <1>3, <1>4 DEF PlaceInv, EveryFileHasAPlace, NewWalk

\* Extraction writes where the walk has not begun.
LEMMA PlaceOfEntry ==
  ASSUME TypeInv, PlaceInv, ExtractEntry, walk' = walk
  PROVE  PlaceInv'
<1>1. scenario' = scenario /\ touched' = touched /\ phase \in Unwalked
      /\ phase' = phase
  BY DEF ExtractEntry, Unwalked
<1>2. walk = NewWalk
  BY <1>1 DEF PlaceInv
<1>3. Placed = {} /\ LeftOut = {} /\ walk.todo = {} /\ walk.dir = 0
  BY <1>2 DEF NewWalk, Placed, LeftOut, Inventory
<1>4. /\ Placed' = Placed /\ LeftOut' = LeftOut /\ Inventory' = Inventory
      /\ NewWalk' = NewWalk /\ Dirs' = Dirs
  BY <1>1 DEF Placed, LeftOut, Inventory, NewWalk, Dirs, Source
<1>5. \A i \in DOMAIN Dirs : ~(i <= 0)
  BY ShapeOfSource DEF TypeInv, TypeOK
<1> QED
  BY <1>1, <1>2, <1>3, <1>4, <1>5 DEF PlaceInv, EveryFileHasAPlace

LEMMA PlaceNext == TypeInv /\ PlaceInv /\ [Next]_vars => PlaceInv'
<1> SUFFICES ASSUME TypeInv, PlaceInv, [Next]_vars PROVE PlaceInv'
  OBVIOUS
<1>1. scenario' = scenario /\ scenario \in Scenarios
  BY OnlyDiscoveryWalks DEF TypeInv, TypeOK
<1>2. CASE Ingest /\ UNCHANGED <<walk, scanVars>>
  <2>1. CASE ExtractEntry
    BY <1>2, <2>1, PlaceOfEntry
  <2>2. CASE ~ExtractEntry
    <3>1. UNCHANGED treeVars /\ phase \in Unwalked
      BY <1>2, <2>2 DEF Ingest, AcceptDirectory, RefuseSource, TempDirFails,
         MakeTempDir, ValidateMembers, RejectMembers, ExtractionFails,
         EndExtraction, Unwalked
    <3> QED BY <1>1, <1>2, <3>1, PlaceStays DEF treeVars
  <2> QED BY <2>1, <2>2
<1>3. CASE Discover
  BY <1>3, PlaceOfDirectory, PlaceOfSkip, PlaceOfAdmit DEF Discover
<1>4. CASE RunScan
  <2>1. UNCHANGED treeVars /\ walk' = walk /\ phase' \notin Unwalked
    <3>1. CASE FileUnreadable \/ FileIsBinary \/ ScannerRaises \/ FileScanned
      BY <3>1 DEF FileUnreadable, FileIsBinary, ScannerRaises, FileScanned,
         NextItem, Unwalked
    <3>2. CASE HashBefore \/ EndDiscovery \/ Report \/ ScanCannotRun \/ Cleanup
      BY <3>2 DEF HashBefore, EndDiscovery, Report, ScanCannotRun, Cleanup,
         Discard, Unwalked
    <3> QED BY <1>4, <3>1, <3>2 DEF RunScan
  <2> QED BY <1>1, <2>1, PlaceStays DEF treeVars
<1>5. ASSUME NEW f \in Files, OwnerChanges(f)
      PROVE  PlaceInv'
  <2>1. /\ touched' = touched \cup {f} /\ walk' = walk /\ phase' = phase
        /\ \E state : disk' = [disk EXCEPT ![f] = state]
    BY <1>5 DEF OwnerChanges, Change, ingestVars
  <2>2. disk \in [Files -> State]
    BY DEF TypeInv, TypeOK
  <2>3. \A g \in Files \ touched' : disk'[g] = disk[g]
    BY <2>1, <2>2
  <2> QED BY <1>1, <2>1, <2>3, PlaceStays
<1>6. CASE Stop \/ UNCHANGED vars
  <2>1. UNCHANGED treeVars /\ walk' = walk
        /\ (phase' \in Unwalked => phase \in Unwalked)
    BY <1>6 DEF Stop, vars, ingestVars, Unwalked
  <2> QED BY <1>1, <2>1, PlaceStays DEF treeVars
<1> QED BY <1>2, <1>3, <1>4, <1>5, <1>6 DEF Next, Advance

\* Whatever the tree, the limits and the changes of the owner: no file is lost
\* by the walk, none has two places, and the counts of the report add up.
THEOREM PlacesAlways == Spec => []EveryFileHasAPlace
<1>1. PlaceInv => EveryFileHasAPlace
  BY DEF PlaceInv
<1> QED BY <1>1, PlaceInit, PlaceNext, TypeAlways, PTL DEF Spec

(***************************************************************************)
(* The promise of a scan.  The words of the contract are those of the      *)
(* scan, with the hash that was taken first for what was seen.             *)
(***************************************************************************)
LEMMA SameWords ==
  /\ Contract!Source = Source /\ Contract!Settings = Settings
  /\ Contract!Files = Files /\ Contract!Dirs = Dirs /\ Contract!DirSet = DirSet
  /\ Contract!IsArchive <=> IsArchive
  /\ Contract!ComputeSourceIntegrityHash = ComputeSourceIntegrityHash
  /\ \A d : (Contract!Entered(d) <=> Entered(d)) /\ Contract!FilesOf(d) = FilesOf(d)
  /\ \A f : Contract!Resolved(f) = Resolved(f) /\ (Contract!IsSymlink(f) <=> IsSymlink(f))
  /\ \A state : Contract!Size(state) = Size(state)
<1>1. /\ Contract!Source = Source /\ Contract!Settings = Settings
      /\ Contract!Files = Files /\ Contract!Dirs = Dirs /\ Contract!DirSet = DirSet
      /\ Contract!IsArchive <=> IsArchive
  BY DEF Contract!Source, Source, Contract!Settings, Settings, Contract!Files, Files,
     Contract!Dirs, Dirs, Contract!DirSet, DirSet, Contract!IsArchive, IsArchive
<1>2. \A d : (Contract!Entered(d) <=> Entered(d)) /\ Contract!FilesOf(d) = FilesOf(d)
  BY DEF Contract!Entered, Entered, Contract!FilesOf, FilesOf
<1>3. \A f : Contract!Resolved(f) = Resolved(f) /\ (Contract!IsSymlink(f) <=> IsSymlink(f))
  BY <1>1 DEF Contract!Resolved, Resolved, Contract!IsSymlink, IsSymlink
<1>4. \A state : Contract!Size(state) = Size(state)
  BY DEF Contract!Size, Size
<1>5. Contract!ComputeSourceIntegrityHash = ComputeSourceIntegrityHash
  BY DEF Contract!ComputeSourceIntegrityHash, ComputeSourceIntegrityHash,
     Contract!Hashed, Hashed, Contract!HashEntry, HashEntry, Contract!IsSymlink, IsSymlink,
     Contract!FilesOf, FilesOf, Contract!DirSet, DirSet, Contract!Dirs, Dirs,
     Contract!Entered, Entered, Contract!Source, Source, Contract!Absent, Absent
<1> QED BY <1>1, <1>2, <1>3, <1>4, <1>5

LEMMA SameCount == \A S : Contract!Cardinality(S) = Cardinality(S)
BY DEF Contract!Cardinality, Cardinality

LEMMA SameScan ==
  ASSUME NEW scanner, NEW text
  PROVE  Contract!Scan(scanner, text) = Scan(scanner, text)
BY DEF Contract!Scan, Scan, Contract!SecretExposure, SecretExposure,
   Contract!PiiExposure, PiiExposure, Contract!UnsafeLogging, UnsafeLogging,
   Contract!AuditGap, AuditGap, Contract!BroadPermission, BroadPermission,
   Contract!UnsafeSql, UnsafeSql, Contract!InsecureConfiguration,
   InsecureConfiguration, Contract!OncePerLine, OncePerLine, Contract!EachMatch,
   EachMatch, Contract!OperationsWithoutAudit, OperationsWithoutAudit,
   Contract!RecordsMissingFields, RecordsMissingFields, Contract!BodyEnd, BodyEnd,
   Contract!WordsFrom, WordsFrom, Contract!RawFinding, RawFinding,
   Contract!SecretRules, SecretRules, Contract!PiiRules, PiiRules,
   Contract!LoggingRules, LoggingRules, Contract!PermissionRules, PermissionRules,
   Contract!SqlRules, SqlRules, Contract!ConfigurationRules, ConfigurationRules,
   Contract!AuditDisabled, AuditDisabled, Contract!SensitiveOpWithoutAudit,
   SensitiveOpWithoutAudit, Contract!AuditRecordMissingFields,
   AuditRecordMissingFields, Contract!AuditFieldHints, AuditFieldHints,
   Contract!Rule, Rule

\* The scan looks at the source as it was when it was hashed.
Good ==
  /\ hashBefore # None
  /\ hashBefore = ComputeSourceIntegrityHash
  /\ Contract!LinksAreSeen

InEntered(f) == \E i \in DOMAIN Dirs : Entered(Dirs[i]) /\ f \in FilesOf(Dirs[i])

Was(f) == Contract!Was(f)

OpenedTo(f) == Contract!OpenedTo(f)

LEMMA WhatWas ==
  ASSUME TypeInv, Good, NEW f, InEntered(f)
  PROVE  Was(f) = IF disk[f].there THEN HashEntry(f) ELSE Absent
<1>1. f \in Hashed <=> disk[f].there
  BY DEF Hashed, DirSet, InEntered
<1>2. DOMAIN hashBefore = Hashed /\ (f \in Hashed => hashBefore[f] = HashEntry(f))
  BY DEF Good, ComputeSourceIntegrityHash
<1>3. Was(f) = IF f \in DOMAIN hashBefore THEN hashBefore[f] ELSE Absent
  BY DEF Was, Contract!Was, Contract!Absent, Absent
<1> QED BY <1>1, <1>2, <1>3

\* What the scan finds at a path now is what it found there then.
LEMMA SameReading ==
  ASSUME TypeInv, Good, NEW f \in Files, InEntered(f), ~NotFollowed(f)
  PROVE  /\ OpenedTo(f).readable <=> CanOpen(f)
         /\ CanOpen(f) => OpenedTo(f) = Opened(f)
<1> DEFINE g == Resolved(f)
<1>1. scenario \in Scenarios /\ disk \in [Files -> State]
  BY DEF TypeInv, TypeOK
<1>2. SourceShape(Source)
  BY <1>1, ScenariosAssumption DEF Source
<1>3. g \in Files /\ InEntered(g) /\ ~IsSymlink(g)
  <2>1. CASE Source.files[f].link = "no"
    BY <2>1 DEF Resolved, IsSymlink
  <2>2. CASE Source.files[f].link = "inside"
    <3>1. g = Source.files[f].target /\ g \in Files /\ Source.files[g].link = "no"
      BY <1>2, <2>2 DEF Resolved, SourceShape, Files
    <3>2. Settings.followSymlinks
      BY <2>2 DEF NotFollowed, IsSymlink
    <3>3. \E d \in DirSet : Entered(d) /\ g \in FilesOf(d)
      BY <2>2, <3>2, SameWords DEF Good, Contract!LinksAreSeen
    <3> QED BY <3>1, <3>3 DEF InEntered, DirSet, IsSymlink
  <2>3. Source.files[f].link \in {"no", "inside", "escapes"}
    BY <1>2 DEF SourceShape, Files
  <2> QED BY <2>1, <2>2, <2>3 DEF NotFollowed, IsSymlink
<1>4. OpenedTo(f) = Was(g)
  BY SameWords DEF OpenedTo, Contract!OpenedTo, Was
<1>5. Opened(f) = disk[g] /\ disk[g] \in State
  BY <1>1, <1>3 DEF Opened
<1> HIDE DEF g
<1>6. Was(g) = IF disk[g].there THEN HashEntry(g) ELSE Absent
  BY <1>3, WhatWas
<1>7. ~Absent.readable /\ ~[Absent EXCEPT !.there = TRUE].readable
  BY DEF Absent
<1>8. HashEntry(g) = IF ~disk[g].readable THEN [Absent EXCEPT !.there = TRUE] ELSE disk[g]
  BY <1>3 DEF HashEntry
<1>9. disk[g].readable \in BOOLEAN /\ disk[g].there \in BOOLEAN
  BY <1>5 DEF State
<1>10. CASE CanOpen(f)
  BY <1>4, <1>5, <1>6, <1>8, <1>9, <1>10 DEF CanOpen
<1>11. CASE ~CanOpen(f)
  BY <1>4, <1>5, <1>6, <1>7, <1>8, <1>9, <1>11 DEF CanOpen
<1> QED BY <1>10, <1>11

LEMMA WhatIsWalked ==
  ASSUME TypeInv, Good, NEW f
  PROVE  f \in Contract!Walked
           <=> \E i \in DOMAIN Dirs : Reached(Dirs[i]) /\ f \in Listed(Dirs[i])
<1>1. \A i \in DOMAIN Dirs : FilesOf(Dirs[i]) \subseteq Files
  BY ShapeOfSource DEF TypeInv, TypeOK
<1>2. f \in Contract!Walked
        <=> /\ f \in Files /\ Was(f).there /\ ~Source.files[f].ignored
            /\ \E i \in DOMAIN Dirs : Reached(Dirs[i]) /\ f \in FilesOf(Dirs[i])
  BY SameWords DEF Contract!Walked, Contract!Walkable, Was, DirSet, Reached
<1>3. ASSUME InEntered(f)
      PROVE  Was(f).there <=> disk[f].there
  <2>1. Was(f) = IF disk[f].there THEN HashEntry(f) ELSE Absent
    BY <1>3, WhatWas
  <2>2. /\ ~Absent.there /\ [Absent EXCEPT !.there = TRUE].there
        /\ [Absent EXCEPT !.there = TRUE, !.binary = TRUE].there
    BY DEF Absent
  <2> QED BY <2>1, <2>2 DEF HashEntry
<1>4. \A i \in DOMAIN Dirs : Reached(Dirs[i]) /\ f \in FilesOf(Dirs[i]) => InEntered(f)
  BY DEF Reached, InEntered
<1> QED BY <1>1, <1>2, <1>3, <1>4 DEF Listed, IsListed

\* A file is admitted by the walk if the contract admits it.
LEMMA NothingRefused ==
  ASSUME TypeInv, Good, NEW f \in Files, InEntered(f)
  PROVE  /\ Contract!Eligible(f) <=>
              /\ ~NotFollowed(f) /\ CanOpen(f) /\ Source.files[f].supported
              /\ Size(Opened(f)) <= Settings.maxFileSize
         /\ Contract!Eligible(f) => OpenedTo(f) = Opened(f)
<1>1. SourceShape(Source)
  BY ScenariosAssumption DEF Source, TypeInv, TypeOK
<1>2. Source.files[f].link \in {"no", "inside", "escapes"}
  BY <1>1 DEF SourceShape, Files
<1>3. NotFollowed(f) <=>
        ~(IsSymlink(f) => Settings.followSymlinks /\ Source.files[f].link = "inside")
  BY <1>2 DEF NotFollowed, IsSymlink
<1>4. Contract!Eligible(f) <=>
        /\ ~NotFollowed(f) /\ Source.files[f].supported /\ OpenedTo(f).readable
        /\ Size(OpenedTo(f)) <= Settings.maxFileSize
  BY <1>3, SameWords DEF Contract!Eligible, OpenedTo
<1> QED BY <1>4, SameReading

(***************************************************************************)
(* How far the scan is.                                                    *)
(***************************************************************************)
Hashing == {"discovering", "scanning", "scanned", "returning", "returned"}

\* The hash is there when it is needed, the report when it is returned, and
\* nothing is found before the scanners run.
Stages ==
  /\ phase \in Unwalked => hashBefore = None
  /\ phase \in Hashing => hashBefore # None
  /\ phase \notin {"returning", "returned", "stopped"} => report = None
  /\ phase \in {"scanning", "scanned"} => Discovered
  /\ phase \in Unscanned =>
       findings = {} /\ \A i \in Executions : executions[i] = NotRun

\* The item with this number has been before the scanner with that one.
DoneAt(at, i, k) == i < at.scanner \/ (i = at.scanner /\ k < at.item)

\* What the walk owes is in the directory it is in, no file is in the inventory
\* twice, and the scanners have been through all of it when they are done.
Ordered ==
  /\ walk.todo # {} =>
       walk.dir \in DOMAIN Dirs /\ walk.todo \subseteq FilesOf(Dirs[walk.dir])
  /\ \A j, k \in DOMAIN Inventory : Inventory[j].file = Inventory[k].file => j = k
  /\ phase = "scanned" =>
       \A i \in Executions, k \in DOMAIN Inventory : DoneAt(cursor, i, k)

\* A file that nobody has changed is as it was hashed.
HashesHold ==
  hashBefore # None =>
    \A f \in Files \ touched :
      /\ f \in DOMAIN hashBefore <=> f \in Hashed
      /\ f \in Hashed => hashBefore[f] = HashEntry(f)

StageInv == Stages /\ Ordered /\ HashesHold

LEMMA HashIsSomething ==
  ASSUME TypeInv
  PROVE  ComputeSourceIntegrityHash # None
<1>1. scenario \in Scenarios /\ ComputeSourceIntegrityHash \in [Hashed -> State]
      /\ Hashed \in SUBSET Files
  BY HashTyped DEF TypeInv, TypeOK
<1>2. None \notin [Hashed -> State]
  BY <1>1, NoneAssumption DEF Files, Source
<1> QED BY <1>1, <1>2

LEMMA StagesInit == Init => Stages
BY DEF Init, Stages, Unwalked, Hashing, Unscanned

LEMMA StagesNext == TypeInv /\ Stages /\ [Next]_vars => Stages'
<1> SUFFICES ASSUME TypeInv, Stages, [Next]_vars PROVE Stages'
  OBVIOUS
<1>0. scenario' = scenario
  BY OnlyDiscoveryWalks DEF TypeInv, TypeOK
<1>1. Discovered' <=> (walk'.dir = Len(Dirs) /\ walk'.todo = {})
  BY <1>0 DEF Discovered, Dirs, Source
<1> DEFINE Rest == /\ phase' \in Unwalked => hashBefore' = None
                   /\ phase' \in Hashing => hashBefore' # None
                   /\ phase' \notin {"returning", "returned", "stopped"} => report' = None
                   /\ phase' \in {"scanning", "scanned"} => Discovered'
                   /\ phase' \in Unscanned =>
                        findings' = {} /\ \A i \in Executions : executions'[i] = NotRun
<1>2. Rest => Stages'
  BY DEF Stages, NotRun
<1>3. CASE Ingest /\ UNCHANGED <<walk, scanVars>>
  <2>1. phase \in Unwalked /\ phase' \in Unwalked \cup {"raised"}
    BY <1>3 DEF Ingest, AcceptDirectory, RefuseSource, TempDirFails, MakeTempDir,
       ValidateMembers, RejectMembers, ExtractEntry, ExtractionFails, EndExtraction,
       Discard, Unwalked
  <2> QED BY <1>2, <1>3, <2>1 DEF Stages, scanVars, Unwalked, Hashing, Unscanned
<1>4. CASE Discover /\ UNCHANGED scanVars
  <2>1. phase = "discovering" /\ phase' = phase
    BY <1>4 DEF Discover, EnterDirectory, SkipFile, AdmitFile, ingestVars
  <2> QED BY <1>2, <1>4, <2>1 DEF Stages, scanVars, Unwalked, Hashing, Unscanned
<1>5. CASE HashBefore
  <2>1. /\ phase = "accepted" /\ phase' = "discovering"
        /\ hashBefore' = ComputeSourceIntegrityHash
        /\ UNCHANGED <<walk, executions, findings, report>>
    BY <1>5 DEF HashBefore
  <2> QED BY <1>2, <2>1, HashIsSomething DEF Stages, Unwalked, Hashing, Unscanned
<1>6. CASE EndDiscovery
  <2>1. phase = "discovering" /\ phase' \in {"scanning", "scanned"} /\ Discovered
        /\ UNCHANGED <<walk, scanVars>>
    BY <1>6 DEF EndDiscovery
  <2>2. Discovered'
    BY <1>1, <2>1 DEF Discovered
  <2> QED BY <1>2, <2>1, <2>2 DEF Stages, scanVars, Unwalked, Hashing, Unscanned
<1>7. CASE FileUnreadable \/ FileIsBinary \/ ScannerRaises \/ FileScanned
  <2>1. phase = "scanning" /\ phase' \in {"scanning", "scanned"}
        /\ UNCHANGED <<walk, hashBefore, report>>
    BY <1>7 DEF FileUnreadable, FileIsBinary, ScannerRaises, FileScanned, NextItem
  <2>2. Discovered'
    BY <1>1, <2>1 DEF Discovered, Stages
  <2> QED BY <1>2, <2>1, <2>2 DEF Stages, Unwalked, Hashing, Unscanned
<1>8. CASE Report
  <2>1. phase = "scanned" /\ phase' = "returning" /\ hashBefore' = hashBefore
    BY <1>8 DEF Report
  <2> QED BY <1>2, <2>1 DEF Stages, Unwalked, Hashing, Unscanned
<1>9. CASE ScanCannotRun
  <2>1. phase' = "raising" /\ UNCHANGED scanVars
        /\ phase \in {"accepted", "discovering", "scanned"}
    BY <1>9 DEF ScanCannotRun
  <2> QED BY <1>2, <2>1 DEF Stages, scanVars, Unwalked, Hashing, Unscanned
<1>10. CASE Cleanup
  <2>1. /\ UNCHANGED scanVars
        /\ \/ phase = "raising" /\ phase' = "raised"
           \/ phase = "returning" /\ phase' = "returned"
    BY <1>10 DEF Cleanup, Discard
  <2> QED BY <1>2, <2>1 DEF Stages, scanVars, Unwalked, Hashing, Unscanned
<1>11. CASE (\E f \in Files : OwnerChanges(f)) \/ UNCHANGED vars
  <2>1. UNCHANGED <<phase, walk, scanVars>>
    BY <1>11 DEF OwnerChanges, vars, ingestVars
  <2>2. phase' \in {"scanning", "scanned"} => Discovered'
    BY <1>1, <2>1 DEF Discovered, Stages
  <2> QED BY <1>2, <2>1, <2>2 DEF Stages, scanVars
<1>12. CASE Stop
  <2>1. phase' = "stopped" /\ UNCHANGED scanVars
    BY <1>12 DEF Stop
  <2> QED BY <1>2, <2>1 DEF Stages, scanVars, Unwalked, Hashing, Unscanned
<1> QED
  BY <1>3, <1>4, <1>5, <1>6, <1>7, <1>8, <1>9, <1>10, <1>11, <1>12
  DEF Next, Advance, RunScan

LEMMA OrderedInit == Init => Ordered
<1> SUFFICES ASSUME Init PROVE Ordered
  OBVIOUS
<1>1. walk.todo = {} /\ Inventory = <<>> /\ phase = "asked"
  BY DEF Init, NewWalk, Inventory
<1> QED BY <1>1 DEF Ordered

\* One more file of the walk: it is not in the inventory.
LEMMA OrderedOfAdmit ==
  ASSUME TypeInv, PlaceInv, Ordered, NEW f \in walk.todo, AdmitFile(f)
  PROVE  Ordered'
<1>1. walk \in [dir : 0 .. Len(Dirs), todo : SUBSET Files, found : Nat, bytes : Nat,
                truncated : BOOLEAN, inventory : Seq(Items), skipped : Seq(Skips)]
  BY DEF TypeInv, TypeOK
<1>2. PICK x : x = [file |-> f, state |-> Opened(f)]
  OBVIOUS
<1>3. /\ walk'.dir = walk.dir /\ walk'.todo = walk.todo \ {f}
      /\ walk'.inventory = Append(walk.inventory, x)
      /\ phase' = "discovering" /\ scenario' = scenario
  BY <1>1, <1>2 DEF AdmitFile, treeVars, ingestVars
<1>4. /\ DOMAIN Dirs' = DOMAIN Dirs /\ Dirs' = Dirs
      /\ \A d : FilesOf(d)' = FilesOf(d)
  BY <1>3, SameTree
<1>5. walk'.todo # {} =>
        walk'.dir \in DOMAIN Dirs' /\ walk'.todo \subseteq FilesOf(Dirs[walk.dir])'
  BY <1>3, <1>4 DEF Ordered
<1>6. PICK list \in Seq(Items) : list = Inventory
  BY <1>1 DEF Inventory
<1>7. x.file = f /\ \A k \in DOMAIN list : list[k].file # f
  BY <1>2, <1>6 DEF PlaceInv, Placed
<1>8. /\ DOMAIN Append(list, x) = 1 .. Len(list) + 1 /\ DOMAIN list = 1 .. Len(list)
      /\ Len(list) \in Nat
      /\ \A k \in DOMAIN list : Append(list, x)[k] = list[k]
      /\ Append(list, x)[Len(list) + 1] = x
  OBVIOUS
<1>9. \A j, k \in DOMAIN list : list[j].file = list[k].file => j = k
  BY <1>6 DEF Ordered
<1>10. ASSUME NEW j \in 1 .. Len(list) + 1, NEW k \in 1 .. Len(list) + 1,
              Append(list, x)[j].file = Append(list, x)[k].file
       PROVE  j = k
  <2>1. CASE j \in DOMAIN list /\ k \in DOMAIN list
    BY <1>8, <1>9, <1>10, <2>1
  <2>2. CASE j = Len(list) + 1 /\ k \in DOMAIN list
    BY <1>7, <1>8, <1>10, <2>2
  <2>3. CASE k = Len(list) + 1 /\ j \in DOMAIN list
    BY <1>7, <1>8, <1>10, <2>3
  <2>4. CASE j = Len(list) + 1 /\ k = Len(list) + 1
    BY <2>4
  <2> QED BY <1>8, <2>1, <2>2, <2>3, <2>4
<1>11. Inventory' = Append(list, x)
  BY <1>3, <1>6 DEF Inventory
<1> QED BY <1>3, <1>4, <1>5, <1>8, <1>10, <1>11 DEF Ordered

\* Where the cursor goes: the item it stood on is done, and nothing else.
LEMMA CursorGoesOn ==
  ASSUME TypeInv, phase = "scanning", NextItem
  PROVE  /\ \A i \in Executions, k \in DOMAIN Inventory :
              DoneAt(cursor', i, k)
                <=> DoneAt(cursor, i, k) \/ (i = cursor.scanner /\ k = cursor.item)
         /\ ~DoneAt(cursor, cursor.scanner, cursor.item)
         /\ cursor.scanner \in Executions /\ cursor.item \in DOMAIN Inventory
         /\ phase' = "scanned" =>
              \A i \in Executions, k \in DOMAIN Inventory : DoneAt(cursor', i, k)
<1>1. /\ cursor.scanner \in 1 .. Len(Scanners)
      /\ cursor.item \in 1 .. Len(Inventory)
      /\ Len(Scanners) \in Nat /\ Len(Inventory) \in Nat
      /\ DOMAIN Inventory = 1 .. Len(Inventory)
      /\ cursor = [scanner |-> cursor.scanner, item |-> cursor.item]
      /\ Executions = 1 .. Len(Scanners)
  <2>1. cursor \in [scanner : Executions, item : DOMAIN Inventory]
        /\ Inventory \in Seq(Items)
    BY DEF TypeInv, TypeOK, Inventory
  <2> QED BY <2>1, ShapeOfScanners
<1>2. phase' = "scanned" =>
        cursor.item = Len(Inventory) /\ cursor.scanner = Len(Scanners)
  BY DEF NextItem, LastItem
<1>3. CASE cursor.item < Len(Inventory)
  <2>1. cursor'.scanner = cursor.scanner /\ cursor'.item = cursor.item + 1
    BY <1>1, <1>3 DEF NextItem, AfterItem
  <2> QED BY <1>1, <1>2, <1>3, <2>1 DEF DoneAt
<1>4. CASE cursor.item = Len(Inventory)
  <2>1. cursor'.scanner = cursor.scanner + 1 /\ cursor'.item = 1
    BY <1>1, <1>4 DEF NextItem, AfterItem
  <2> QED BY <1>1, <1>2, <1>4, <2>1 DEF DoneAt
<1> QED BY <1>1, <1>3, <1>4

LEMMA OrderedNext == TypeInv /\ PlaceInv /\ Stages /\ Ordered /\ [Next]_vars => Ordered'
<1> SUFFICES ASSUME TypeInv, PlaceInv, Stages, Ordered, [Next]_vars PROVE Ordered'
  OBVIOUS
<1>0. scenario' = scenario /\ scenario \in Scenarios
  BY OnlyDiscoveryWalks DEF TypeInv, TypeOK
<1>1. Dirs' = Dirs /\ DOMAIN Dirs' = DOMAIN Dirs /\ \A d : FilesOf(d)' = FilesOf(d)
  BY <1>0, SameTree
<1>2. ASSUME walk' = walk,
             phase' = "scanned" =>
               \A i \in Executions, k \in DOMAIN Inventory : DoneAt(cursor', i, k)
      PROVE  Ordered'
  <2>1. Inventory' = Inventory /\ DOMAIN Inventory' = DOMAIN Inventory
    BY <1>2 DEF Inventory
  <2>2. DoneAt(cursor, 1, 1)' <=> DoneAt(cursor', 1, 1)
    BY DEF DoneAt
  <2> QED BY <1>1, <1>2, <2>1 DEF Ordered, DoneAt
<1>3. CASE Discover
  <2>1. CASE EnterDirectory
    <3>1. walk \in [dir : 0 .. Len(Dirs), todo : SUBSET Files, found : Nat, bytes : Nat,
                    truncated : BOOLEAN, inventory : Seq(Items), skipped : Seq(Skips)]
      BY DEF TypeInv, TypeOK
    <3>2. /\ walk'.dir = walk.dir + 1 /\ walk'.inventory = walk.inventory
          /\ walk'.todo = IF Reached(Dirs[walk.dir + 1]) THEN Listed(Dirs[walk.dir + 1])
                          ELSE {}
          /\ walk.dir < Len(Dirs) /\ phase' = "discovering"
      BY <2>1, <3>1 DEF EnterDirectory, ingestVars
    <3>3. walk.dir + 1 \in DOMAIN Dirs
      BY <1>0, <3>1, <3>2, ShapeOfSource
    <3>4. walk'.todo \subseteq FilesOf(Dirs[walk.dir + 1])
      BY <3>2 DEF Listed
    <3>5. Inventory' = Inventory /\ DOMAIN Inventory' = DOMAIN Inventory
      BY <3>2 DEF Inventory
    <3> QED BY <1>1, <3>2, <3>3, <3>4, <3>5 DEF Ordered
  <2>2. ASSUME NEW f \in walk.todo, SkipFile(f)
        PROVE  Ordered'
    <3>1. walk \in [dir : 0 .. Len(Dirs), todo : SUBSET Files, found : Nat, bytes : Nat,
                    truncated : BOOLEAN, inventory : Seq(Items), skipped : Seq(Skips)]
      BY DEF TypeInv, TypeOK
    <3>2. /\ walk'.dir = walk.dir /\ walk'.inventory = walk.inventory
          /\ walk'.todo = walk.todo \ {f} /\ phase' = "discovering"
      BY <2>2, <3>1 DEF SkipFile, ingestVars
    <3>3. Inventory' = Inventory /\ DOMAIN Inventory' = DOMAIN Inventory
      BY <3>2 DEF Inventory
    <3> QED BY <1>1, <3>2, <3>3 DEF Ordered
  <2>3. ASSUME NEW f \in walk.todo, AdmitFile(f)
        PROVE  Ordered'
    BY <2>3, OrderedOfAdmit
  <2> QED BY <1>3, <2>1, <2>2, <2>3 DEF Discover
<1>4. CASE FileUnreadable \/ FileIsBinary \/ ScannerRaises \/ FileScanned
  <2>1. phase = "scanning" /\ NextItem /\ walk' = walk
    BY <1>4 DEF FileUnreadable, FileIsBinary, ScannerRaises, FileScanned, NextItem
  <2>2. phase' = "scanned" =>
          \A i \in Executions, k \in DOMAIN Inventory : DoneAt(cursor', i, k)
    BY <2>1, CursorGoesOn
  <2> QED BY <1>2, <2>1, <2>2
<1>5. CASE EndDiscovery
  <2>1. walk' = walk /\ (phase' = "scanned" => Inventory = <<>> \/ Scanners = <<>>)
    BY <1>5 DEF EndDiscovery
  <2> QED BY <1>2, <2>1 DEF Executions
<1>6. CASE \/ Ingest /\ UNCHANGED <<walk, scanVars>>
           \/ HashBefore \/ Report \/ ScanCannotRun \/ Cleanup \/ Stop
  <2>1. walk' = walk /\ phase' # "scanned"
    BY <1>6 DEF Ingest, AcceptDirectory, RefuseSource, TempDirFails, MakeTempDir,
       ValidateMembers, RejectMembers, ExtractEntry, ExtractionFails, EndExtraction,
       HashBefore, Report, ScanCannotRun, Cleanup, Stop, Discard
  <2> QED BY <1>2, <2>1
<1>7. CASE (\E f \in Files : OwnerChanges(f)) \/ UNCHANGED vars
  <2>1. walk' = walk /\ phase' = phase /\ cursor' = cursor
    BY <1>7 DEF OwnerChanges, vars, ingestVars, scanVars
  <2>2. phase' = "scanned" =>
          \A i \in Executions, k \in DOMAIN Inventory : DoneAt(cursor', i, k)
    BY <2>1 DEF Ordered
  <2> QED BY <1>2, <2>1, <2>2
<1> QED
  BY <1>3, <1>4, <1>5, <1>6, <1>7 DEF Next, Advance, RunScan

LEMMA HashesInit == Init => HashesHold
BY DEF Init, HashesHold

\* Where nothing has changed the hash has the same entry.
LEMMA SameEntry ==
  ASSUME scenario' = scenario, NEW f, disk'[f] = disk[f]
  PROVE  (f \in Hashed' <=> f \in Hashed) /\ HashEntry(f)' = HashEntry(f)
<1>1. f \in Hashed <=> disk[f].there /\ \E d \in DirSet : Entered(d) /\ f \in FilesOf(d)
  BY DEF Hashed
<1>2. f \in Hashed' <=> disk'[f].there /\ \E d \in DirSet : Entered(d) /\ f \in FilesOf(d)
  BY DEF Hashed, DirSet, Dirs, Source, Entered, FilesOf
<1>3. HashEntry(f)' = HashEntry(f)
  BY DEF HashEntry, IsSymlink, Source, Absent
<1> QED BY <1>1, <1>2, <1>3

\* Extraction and the owner write to the disk, and the scan hashes it once.
LEMMA OnlyOwnersWrite ==
  ASSUME \/ Ingest /\ ~ExtractEntry /\ UNCHANGED <<walk, scanVars>>
         \/ Discover /\ UNCHANGED scanVars
         \/ RunScan /\ ~HashBefore
         \/ Stop \/ UNCHANGED vars
  PROVE  UNCHANGED treeVars /\ hashBefore' = hashBefore
<1>1. CASE Ingest /\ ~ExtractEntry /\ UNCHANGED <<walk, scanVars>>
  BY <1>1 DEF Ingest, AcceptDirectory, RefuseSource, TempDirFails, MakeTempDir,
     ValidateMembers, RejectMembers, ExtractionFails, EndExtraction, scanVars
<1>2. CASE RunScan /\ ~HashBefore
  BY <1>2 DEF RunScan, EndDiscovery, FileUnreadable, FileIsBinary, ScannerRaises,
     FileScanned, NextItem, Report, ScanCannotRun, Cleanup, scanVars
<1>3. CASE Discover /\ UNCHANGED scanVars
  BY <1>3 DEF Discover, EnterDirectory, SkipFile, AdmitFile, scanVars
<1>4. CASE Stop \/ UNCHANGED vars
  BY <1>4 DEF Stop, vars, scanVars
<1> QED BY <1>1, <1>2, <1>3, <1>4

LEMMA HashesNext == TypeInv /\ Stages /\ HashesHold /\ [Next]_vars => HashesHold'
<1> SUFFICES ASSUME TypeInv, Stages, HashesHold, [Next]_vars PROVE HashesHold'
  OBVIOUS
<1>0. scenario' = scenario /\ scenario \in Scenarios
  BY OnlyDiscoveryWalks DEF TypeInv, TypeOK
<1>1. Files' = Files
  BY <1>0, SameTree
<1>2. ASSUME NEW f, disk'[f] = disk[f]
      PROVE  (f \in Hashed' <=> f \in Hashed) /\ HashEntry(f)' = HashEntry(f)
  BY <1>0, <1>2, SameEntry
<1>3. ASSUME hashBefore' = hashBefore, touched \subseteq touched',
             \A f \in Files \ touched' : disk'[f] = disk[f]
      PROVE  HashesHold'
  <2>1. ASSUME hashBefore # None, NEW f \in Files \ touched'
        PROVE  /\ f \in DOMAIN hashBefore <=> f \in Hashed'
               /\ f \in Hashed' => hashBefore[f] = HashEntry(f)'
    <3>1. (f \in Hashed' <=> f \in Hashed) /\ HashEntry(f)' = HashEntry(f)
      BY <1>2, <1>3, <2>1
    <3> QED BY <1>3, <2>1, <3>1 DEF HashesHold
  <2> QED BY <1>1, <1>3, <2>1 DEF HashesHold
<1>4. CASE HashBefore
  <2>1. hashBefore' = ComputeSourceIntegrityHash /\ UNCHANGED treeVars
    BY <1>4 DEF HashBefore
  <2>2. \A f : /\ f \in DOMAIN ComputeSourceIntegrityHash <=> f \in Hashed
               /\ f \in Hashed => ComputeSourceIntegrityHash[f] = HashEntry(f)
    BY DEF ComputeSourceIntegrityHash
  <2>3. \A f : (f \in Hashed' <=> f \in Hashed) /\ HashEntry(f)' = HashEntry(f)
    BY <1>2, <2>1 DEF treeVars
  <2> QED BY <1>1, <2>1, <2>2, <2>3 DEF HashesHold
<1>5. CASE ExtractEntry /\ UNCHANGED <<walk, scanVars>>
  <2>1. hashBefore' = None
    BY <1>5 DEF ExtractEntry, scanVars, Stages, Unwalked
  <2> QED BY <2>1 DEF HashesHold
<1>6. CASE \E f \in Files : OwnerChanges(f)
  <2>1. PICK f \in Files : OwnerChanges(f)
    BY <1>6
  <2>2. /\ touched' = touched \cup {f} /\ hashBefore' = hashBefore
        /\ \E state : disk' = [disk EXCEPT ![f] = state]
    BY <2>1 DEF OwnerChanges, Change, scanVars
  <2>3. disk \in [Files -> State]
    BY DEF TypeInv, TypeOK
  <2>4. \A g \in Files \ touched' : disk'[g] = disk[g]
    BY <2>2, <2>3
  <2> QED BY <1>3, <2>2, <2>4
<1>7. CASE \/ Ingest /\ ~ExtractEntry /\ UNCHANGED <<walk, scanVars>>
           \/ Discover /\ UNCHANGED scanVars
           \/ RunScan /\ ~HashBefore
           \/ Stop \/ UNCHANGED vars
  <2>1. UNCHANGED treeVars /\ hashBefore' = hashBefore
    BY <1>7, OnlyOwnersWrite
  <2> QED BY <1>3, <2>1 DEF treeVars
<1> QED BY <1>4, <1>5, <1>6, <1>7 DEF Next, Advance

\* A source that is as it was hashed after a step was so before it, since a
\* file changes at most once.
LEMMA GoodBefore ==
  ASSUME TypeInv, StageInv, [Next]_vars, hashBefore # None, Good'
  PROVE  Good /\ hashBefore' = hashBefore
<1>1. scenario' = scenario /\ scenario \in Scenarios
  BY OnlyDiscoveryWalks DEF TypeInv, TypeOK
<1>2. Contract!LinksAreSeen' <=> Contract!LinksAreSeen
  BY <1>1 DEF Contract!LinksAreSeen, Contract!Files, Contract!Settings, Contract!Source,
     Contract!DirSet, Contract!Dirs, Contract!Entered, Contract!Resolved, Contract!FilesOf
<1>3. Contract!LinksAreSeen
  BY <1>2 DEF Good
<1>4. CASE UNCHANGED treeVars /\ hashBefore' = hashBefore
  <2>1. ComputeSourceIntegrityHash' = ComputeSourceIntegrityHash
    BY <1>4 DEF treeVars, ComputeSourceIntegrityHash, Hashed, HashEntry, DirSet, Dirs, Source,
       Entered, FilesOf, IsSymlink, Absent
  <2> QED BY <1>3, <1>4, <2>1 DEF Good
<1>5. CASE \E f \in Files : OwnerChanges(f)
  <2>1. PICK f \in Files : OwnerChanges(f)
    BY <1>5
  <2>2. /\ f \notin touched /\ hashBefore' = hashBefore
        /\ \E state : disk' = [disk EXCEPT ![f] = state]
    BY <2>1 DEF OwnerChanges, Change, scanVars
  <2>3. \A g \in Files \ {f} : disk'[g] = disk[g]
    BY <2>2 DEF TypeInv, TypeOK
  <2>4. /\ \A g : g \in DOMAIN hashBefore <=> g \in Hashed'
        /\ \A g \in Hashed' : hashBefore[g] = HashEntry(g)'
    <3>1. PICK h : h = ComputeSourceIntegrityHash'
      OBVIOUS
    <3>2. DOMAIN h = Hashed' /\ \A g \in Hashed' : h[g] = HashEntry(g)'
      BY <3>1 DEF ComputeSourceIntegrityHash
    <3>3. hashBefore = h
      BY <2>2, <3>1 DEF Good
    <3> QED BY <3>2, <3>3
  <2>5. ASSUME NEW g \in Files
        PROVE  /\ g \in DOMAIN hashBefore <=> g \in Hashed
               /\ g \in Hashed => hashBefore[g] = HashEntry(g)
    <3>1. CASE g = f
      BY <2>2, <3>1 DEF StageInv, HashesHold
    <3>2. CASE g # f
      BY <1>1, <2>3, <2>4, <3>2, SameEntry
    <3> QED BY <3>1, <3>2
  <2>6. Hashed \subseteq Files /\ DOMAIN hashBefore \subseteq Files
        /\ hashBefore \in [DOMAIN hashBefore -> State]
    BY <1>1, HashTyped DEF TypeInv, TypeOK
  <2>7. DOMAIN hashBefore = Hashed /\ \A g \in Hashed : hashBefore[g] = HashEntry(g)
    BY <2>5, <2>6
  <2>8. hashBefore = [g \in Hashed |-> HashEntry(g)]
    BY <2>6, <2>7
  <2> QED BY <1>3, <2>2, <2>8 DEF Good, ComputeSourceIntegrityHash
<1>6. CASE HashBefore \/ (ExtractEntry /\ UNCHANGED <<walk, scanVars>>)
  BY <1>6 DEF HashBefore, ExtractEntry, StageInv, Stages, Unwalked
<1>7. CASE \/ Ingest /\ ~ExtractEntry /\ UNCHANGED <<walk, scanVars>>
           \/ Discover /\ UNCHANGED scanVars
           \/ RunScan /\ ~HashBefore
           \/ Stop \/ UNCHANGED vars
  <2>1. UNCHANGED treeVars /\ hashBefore' = hashBefore
    BY <1>7, OnlyOwnersWrite
  <2> QED BY <1>4, <2>1
<1> QED BY <1>5, <1>6, <1>7 DEF Next, Advance

(***************************************************************************)
(* The walk and the contract.                                              *)
(***************************************************************************)
\* What the walk has come to, or is about to, is what there is to walk in the
\* directories so far,
ComeTo(files, dir) ==
  \A f : f \in files <=> f \in Contract!Walked /\ \E i \in 1 .. dir : f \in FilesOf(Dirs[i])

\* an initial part of it in the order of the contract,
InOrder(files) ==
  \A f \in files : \A g \in Contract!Walked : Contract!Precedes(g, f) => g \in files

\* placed as the contract would,
PlacedRightly(files, placed) ==
  \A f \in files : f \in placed <=> Contract!Admits(placed, f)

\* with so many bytes,
BytesPlaced(placed, bytes) ==
  IsFiniteSet(Contract!Contents(placed)) /\ Cardinality(Contract!Contents(placed)) = bytes

\* and it is told when a limit on the whole scan has kept something out.
MissingIsTold(left, truncated) ==
  \A f \in left : Contract!Eligible(f) => truncated

WalkStory(placed, left, todo, dir, bytes, truncated) ==
  /\ ComeTo(placed \cup left \cup todo, dir)
  /\ InOrder(placed \cup left)
  /\ PlacedRightly(placed \cup left, placed)
  /\ BytesPlaced(placed, bytes)
  /\ MissingIsTold(left, truncated)

\* The contract looks at the source when it was hashed only.
LEMMA SameStory ==
  ASSUME scenario' = scenario, hashBefore' = hashBefore,
         NEW placed, NEW left, NEW todo, NEW dir, NEW bytes, NEW truncated
  PROVE  WalkStory(placed, left, todo, dir, bytes, truncated)'
           <=> WalkStory(placed, left, todo, dir, bytes, truncated)
<1>1. \A f : Contract!OpenedTo(f)' = Contract!OpenedTo(f)
  BY DEF Contract!OpenedTo, Contract!Was, Contract!Resolved, Contract!Absent, Contract!Source
<1>2. Contract!Walked' = Contract!Walked
  BY DEF Contract!Walked, Contract!Files, Contract!Walkable, Contract!Was, Contract!DirSet,
     Contract!Dirs, Contract!Entered, Contract!FilesOf, Contract!Settings, Contract!Source,
     Contract!Absent
<1>3. \A f, g : Contract!Precedes(f, g)' <=> Contract!Precedes(f, g)
  BY DEF Contract!Precedes, Contract!Dirs, Contract!Source
<1>4. \A files : Contract!Contents(files)' = Contract!Contents(files)
  BY <1>1 DEF Contract!Contents
<1>5. \A f, files : Contract!Before(f, files)' = Contract!Before(f, files)
  BY <1>3 DEF Contract!Before
<1>6. Settings' = Settings /\ Contract!Settings' = Contract!Settings /\ Dirs' = Dirs
      /\ Source' = Source /\ Contract!Source' = Contract!Source
  BY DEF Settings, Contract!Settings, Dirs, Source, Contract!Source
<1>7. \A f : Contract!Eligible(f)' <=> Contract!Eligible(f)
  BY <1>1, <1>6 DEF Contract!Eligible, Contract!Size, Contract!IsSymlink
<1>8. ASSUME NEW files, NEW f
      PROVE  Contract!Admits(files, f)' <=> Contract!Admits(files, f)
  <2>1. Contract!Before(f, Contract!Walked)' = Contract!Before(f, Contract!Walked)
    BY <1>2, <1>3 DEF Contract!Before
  <2>2. Contract!Contents(Contract!Before(f, files))' = Contract!Contents(Contract!Before(f, files))
    BY <1>1, <1>3 DEF Contract!Before, Contract!Contents
  <2> QED BY <1>1, <1>6, <1>7, <2>1, <2>2 DEF Contract!Admits, Contract!Size
<1>9. ComeTo(placed \cup left \cup todo, dir)' <=> ComeTo(placed \cup left \cup todo, dir)
  BY <1>2, <1>6 DEF ComeTo, FilesOf
<1>10. InOrder(placed \cup left)' <=> InOrder(placed \cup left)
  BY <1>2, <1>3 DEF InOrder
<1>11. PlacedRightly(placed \cup left, placed)' <=> PlacedRightly(placed \cup left, placed)
  BY <1>8 DEF PlacedRightly
<1>12. BytesPlaced(placed, bytes)' <=> BytesPlaced(placed, bytes)
  BY <1>4 DEF BytesPlaced
<1>13. MissingIsTold(left, truncated)' <=> MissingIsTold(left, truncated)
  BY <1>7 DEF MissingIsTold
<1> QED BY <1>9, <1>10, <1>11, <1>12, <1>13 DEF WalkStory

\* Before the first file there is nothing to tell, whatever the hash.
LEMMA StoryBegins == WalkStory({}, {}, {}, 0, 0, FALSE)'
<1>1. Contract!Contents({})' = {}
  BY DEF Contract!Contents
<1>2. BytesPlaced({}, 0)'
  BY <1>1, FS_EmptySet DEF BytesPlaced
<1> QED BY <1>2 DEF WalkStory, ComeTo, InOrder, PlacedRightly, MissingIsTold

\* The order of the contract is that of the places.
LEMMA PrecedesAt ==
  ASSUME scenario \in Scenarios, NEW i \in DOMAIN Dirs, NEW j \in DOMAIN Dirs,
         NEW k \in DOMAIN Dirs[i].files, NEW l \in DOMAIN Dirs[j].files
  PROVE  Contract!Precedes(Dirs[i].files[k], Dirs[j].files[l])
           <=> i < j \/ (i = j /\ k < l)
<1> DEFINE f == Dirs[i].files[k]
           g == Dirs[j].files[l]
<1>1. Contract!Precedes(f, g)
        <=> \E a, b \in DOMAIN Dirs :
              \E m \in DOMAIN Dirs[a].files, n \in DOMAIN Dirs[b].files :
                /\ f = Dirs[a].files[m] /\ g = Dirs[b].files[n]
                /\ a < b \/ (a = b /\ m < n)
  BY SameWords DEF Contract!Precedes
<1>2. \A a, b \in DOMAIN Dirs :
        \A m \in DOMAIN Dirs[a].files, n \in DOMAIN Dirs[b].files :
          Dirs[a].files[m] = Dirs[b].files[n] => a = b /\ m = n
  BY ScenariosAssumption DEF SourceShape, Dirs, Source
<1>3. ASSUME Contract!Precedes(f, g)
      PROVE  i < j \/ (i = j /\ k < l)
  <2>1. PICK a, b \in DOMAIN Dirs :
          \E m \in DOMAIN Dirs[a].files, n \in DOMAIN Dirs[b].files :
            /\ f = Dirs[a].files[m] /\ g = Dirs[b].files[n]
            /\ a < b \/ (a = b /\ m < n)
    BY <1>1, <1>3
  <2>2. PICK m \in DOMAIN Dirs[a].files, n \in DOMAIN Dirs[b].files :
            /\ f = Dirs[a].files[m] /\ g = Dirs[b].files[n]
            /\ a < b \/ (a = b /\ m < n)
    BY <2>1
  <2>3. a = i /\ m = k
    BY <1>2, <2>2
  <2>4. b = j /\ n = l
    BY <1>2, <2>2
  <2> QED BY <2>2, <2>3, <2>4
<1> QED BY <1>1, <1>3

\* The file that the walk comes to next is the first it has not come to.
LEMMA NextInOrder ==
  ASSUME TypeInv, PlaceInv, StageInv,
         ComeTo(Placed \cup LeftOut \cup walk.todo, walk.dir), InOrder(Placed \cup LeftOut),
         NEW f \in walk.todo, ComesNext(f)
  PROVE  /\ f \in Contract!Walked /\ f \notin Placed \cup LeftOut
         /\ Contract!Before(f, Contract!Walked) = Placed \cup LeftOut
         /\ ~Contract!Precedes(f, f)
         /\ \A g \in Placed \cup LeftOut : ~Contract!Precedes(f, g)
<1> DEFINE names == Dirs[walk.dir].files
<1>1. scenario \in Scenarios /\ walk.dir \in DOMAIN Dirs
      /\ walk.todo \subseteq FilesOf(Dirs[walk.dir])
      /\ DOMAIN Dirs = 1 .. Len(Dirs) /\ Len(Dirs) \in Nat
  BY ShapeOfSource DEF TypeInv, TypeOK, StageInv, Ordered
<1>2. names \in Seq(Files) /\ DOMAIN names = 1 .. Len(names) /\ Len(names) \in Nat
  BY <1>1, ShapeOfSource
<1>3. PICK k \in DOMAIN names :
        names[k] = f /\ \A j \in 1 .. k - 1 : names[j] \notin walk.todo
  BY DEF ComesNext
<1>4. PICK come : come = Placed \cup LeftOut
  OBVIOUS
<1>5. /\ \A g : g \in come \cup walk.todo
                 <=> g \in Contract!Walked /\ \E i \in 1 .. walk.dir : g \in FilesOf(Dirs[i])
      /\ \A g \in come : \A h \in Contract!Walked : Contract!Precedes(h, g) => h \in come
      /\ come \cap walk.todo = {}
  BY <1>4 DEF ComeTo, InOrder, PlaceInv
<1>6. f \in Contract!Walked /\ f \notin come
  BY <1>5
<1>7. \A i \in DOMAIN Dirs : \A l \in DOMAIN Dirs[i].files :
        /\ Contract!Precedes(Dirs[i].files[l], f) <=> i < walk.dir \/ (i = walk.dir /\ l < k)
        /\ Contract!Precedes(f, Dirs[i].files[l]) <=> walk.dir < i \/ (i = walk.dir /\ k < l)
  BY <1>1, <1>3, PrecedesAt
<1>8. ~Contract!Precedes(f, f)
  BY <1>1, <1>2, <1>3, <1>7
<1>9. \A g \in come : ~Contract!Precedes(f, g)
  BY <1>5, <1>6
<1>10. \A g \in Contract!Walked :
         \E i \in DOMAIN Dirs : \E l \in DOMAIN Dirs[i].files : g = Dirs[i].files[l]
  BY SameWords DEF Contract!Walked, Contract!Walkable, DirSet, FilesOf
<1>11. ASSUME NEW g \in Contract!Walked
       PROVE  Contract!Precedes(g, f) <=> g \in come
  <2>1. PICK i \in DOMAIN Dirs : \E l \in DOMAIN Dirs[i].files : g = Dirs[i].files[l]
    BY <1>10
  <2>2. PICK l \in DOMAIN Dirs[i].files : g = Dirs[i].files[l]
    BY <2>1
  <2>3. g \in FilesOf(Dirs[i]) /\ l \in Nat
    <3>1. Dirs[i].files \in Seq(Files)
      BY <1>1, ShapeOfSource
    <3>2. DOMAIN Dirs[i].files = 1 .. Len(Dirs[i].files)
      BY <3>1
    <3> QED BY <2>2, <3>2 DEF FilesOf
  <2>4. ASSUME Contract!Precedes(g, f)
        PROVE  g \in come
    <3>1. i < walk.dir \/ (i = walk.dir /\ l < k)
      BY <1>7, <2>2, <2>4
    <3>2. g \in come \cup walk.todo
      <4>1. i \in 1 .. walk.dir
        BY <1>1, <3>1
      <4> QED BY <1>5, <2>3, <4>1
    <3>3. ASSUME g \in walk.todo
          PROVE  FALSE
      <4>1. g \in FilesOf(Dirs[walk.dir])
        BY <1>1, <3>3
      <4>2. i = walk.dir
        BY <1>1, <2>3, <4>1, OneDirectory
      <4>3. l < k
        BY <1>1, <3>1, <4>2
      <4> QED BY <1>2, <1>3, <2>2, <2>3, <3>3, <4>2, <4>3
    <3> QED BY <3>2, <3>3
  <2>5. ASSUME g \in come, ~Contract!Precedes(g, f)
        PROVE  FALSE
    <3>1. PICK m \in 1 .. walk.dir : g \in FilesOf(Dirs[m])
      BY <1>5, <2>5
    <3>2. m \in DOMAIN Dirs
      BY <1>1, <3>1
    <3>3. m = i
      BY <1>1, <2>3, <3>1, <3>2, OneDirectory
    <3>4. i = walk.dir /\ ~(l < k)
      BY <1>1, <1>7, <2>2, <2>5, <3>1, <3>3
    <3>5. l # k
      BY <1>3, <1>6, <2>2, <2>5, <3>4
    <3>6. Contract!Precedes(f, g)
      BY <1>2, <1>3, <1>7, <2>2, <2>3, <3>4, <3>5
    <3> QED BY <1>9, <2>5, <3>6
  <2> QED BY <2>4, <2>5
<1>12. Contract!Before(f, Contract!Walked) = come
  BY <1>5, <1>11 DEF Contract!Before
<1> QED BY <1>4, <1>6, <1>8, <1>9, <1>12

\* The lines of one file.
LinesOf(f) == {<<f, l>> : l \in DOMAIN OpenedTo(f).text}

LEMMA BytesOfOne ==
  ASSUME NEW placed, NEW bytes \in Nat, BytesPlaced(placed, bytes),
         NEW f, f \notin placed, OpenedTo(f).text \in Seq(Line)
  PROVE  BytesPlaced(placed \cup {f}, bytes + Size(OpenedTo(f)))
<1> DEFINE n == Len(OpenedTo(f).text)
<1>1. n \in Nat /\ DOMAIN OpenedTo(f).text = 1 .. n
  OBVIOUS
<1>2. IsFiniteSet(1 .. n) /\ Cardinality(1 .. n) = n
  <2>1. \A k \in Nat : IsFiniteSet(1 .. k) /\ Cardinality(1 .. k) = k
    <3>1. \A k \in Nat : IsFiniteSet(1 .. k)
                         /\ Cardinality(1 .. k) = IF 1 > k THEN 0 ELSE k - 1 + 1
      BY FS_Interval
    <3> QED BY <3>1
  <2> HIDE DEF n
  <2> QED BY <1>1, <2>1
<1>3. IsFiniteSet(LinesOf(f)) /\ Cardinality(LinesOf(f)) = n
  <2> DEFINE at == [l \in 1 .. n |-> <<f, l>>]
  <2>1. at \in Bijection(1 .. n, LinesOf(f))
    <3>1. at \in [1 .. n -> LinesOf(f)]
      BY <1>1 DEF LinesOf
    <3>2. \A a, b \in 1 .. n : a # b => at[a] # at[b]
      OBVIOUS
    <3>3. \A x \in LinesOf(f) : \E l \in 1 .. n : at[l] = x
      BY <1>1 DEF LinesOf
    <3> HIDE DEF at, n
    <3> QED BY <3>1, <3>2, <3>3, Fun_IsBij
  <2> HIDE DEF at, n
  <2> QED BY <1>2, <2>1, FS_Bijection DEF ExistsBijection
<1>4. Contract!Contents(placed \cup {f}) = Contract!Contents(placed) \cup LinesOf(f)
  BY DEF Contract!Contents, LinesOf, OpenedTo
<1>5. Contract!Contents(placed) \cap LinesOf(f) = {}
  BY DEF Contract!Contents, LinesOf
<1>6. Size(OpenedTo(f)) = n
  BY DEF Size
<1> HIDE DEF n
<1>7. IsFiniteSet(Contract!Contents(placed)) /\ Cardinality(Contract!Contents(placed)) = bytes
  BY DEF BytesPlaced
<1>8. PICK C, L : C = Contract!Contents(placed) /\ L = LinesOf(f)
  OBVIOUS
<1>9. IsFiniteSet(C \cup L) /\ Cardinality(C \cup L) = bytes + n
  <2>1. /\ IsFiniteSet(C \cup L)
        /\ Cardinality(C \cup L) = Cardinality(C) + Cardinality(L) - Cardinality(C \cap L)
    BY <1>3, <1>7, <1>8, FS_Union
  <2>2. Cardinality(C \cap L) = 0
    BY <1>5, <1>8, FS_EmptySet
  <2> QED BY <1>1, <1>3, <1>7, <1>8, <2>1, <2>2
<1> QED BY <1>4, <1>6, <1>8, <1>9 DEF BytesPlaced

\* What is admitted does not depend on what comes later.
LEMMA LaterIsNothing ==
  ASSUME NEW placed, NEW f, NEW g, ~Contract!Precedes(f, g)
  PROVE  Contract!Admits(placed \cup {f}, g) <=> Contract!Admits(placed, g)
<1>1. Contract!Before(g, placed \cup {f}) = Contract!Before(g, placed)
  BY DEF Contract!Before
<1> QED BY <1>1 DEF Contract!Admits

\* One file more, placed or left out as the contract has it.
LEMMA StoryOfOne ==
  ASSUME NEW placed, NEW left, NEW todo, NEW dir, NEW bytes \in Nat, NEW truncated,
         WalkStory(placed, left, todo, dir, bytes, truncated), NEW f \in todo,
         f \notin placed \cup left,
         Contract!Before(f, Contract!Walked) = placed \cup left,
         ~Contract!Precedes(f, f),
         \A g \in placed \cup left : ~Contract!Precedes(f, g)
  PROVE  /\ Contract!Admits(placed, f) /\ OpenedTo(f).text \in Seq(Line) =>
              WalkStory(placed \cup {f}, left, todo \ {f}, dir,
                        bytes + Size(OpenedTo(f)), truncated)
         /\ \A told : /\ ~Contract!Admits(placed, f)
                      /\ truncated => told
                      /\ Contract!Eligible(f) => told
                      => WalkStory(placed, left \cup {f}, todo \ {f}, dir, bytes, told)
<1>1. PICK come : come = placed \cup left
  OBVIOUS
<1>2. /\ ComeTo(come \cup todo, dir) /\ InOrder(come) /\ PlacedRightly(come, placed)
      /\ BytesPlaced(placed, bytes) /\ MissingIsTold(left, truncated)
      /\ Contract!Before(f, Contract!Walked) = come /\ f \notin come
      /\ \A g \in come : ~Contract!Precedes(f, g)
  BY <1>1 DEF WalkStory
<1>3. (come \cup {f}) \cup (todo \ {f}) = come \cup todo
  OBVIOUS
<1>4. ComeTo((come \cup {f}) \cup (todo \ {f}), dir)
  BY <1>2, <1>3
<1>5. InOrder(come \cup {f})
  BY <1>2 DEF InOrder, Contract!Before
<1>6. ASSUME Contract!Admits(placed, f), OpenedTo(f).text \in Seq(Line)
      PROVE  WalkStory(placed \cup {f}, left, todo \ {f}, dir,
                       bytes + Size(OpenedTo(f)), truncated)
  <2>1. (placed \cup {f}) \cup left = come \cup {f}
        /\ (placed \cup {f}) \cup left \cup (todo \ {f}) = (come \cup {f}) \cup (todo \ {f})
    BY <1>1
  <2>2. \A g \in come \cup {f} :
          Contract!Admits(placed \cup {f}, g) <=> Contract!Admits(placed, g)
    BY <1>2, LaterIsNothing
  <2>3. PlacedRightly(come \cup {f}, placed \cup {f})
    BY <1>2, <1>6, <2>2 DEF PlacedRightly
  <2>4. BytesPlaced(placed \cup {f}, bytes + Size(OpenedTo(f)))
    BY <1>1, <1>2, <1>6, BytesOfOne
  <2> QED BY <1>2, <1>4, <1>5, <2>1, <2>3, <2>4 DEF WalkStory
<1>7. ASSUME NEW told, ~Contract!Admits(placed, f), truncated => told,
             Contract!Eligible(f) => told
      PROVE  WalkStory(placed, left \cup {f}, todo \ {f}, dir, bytes, told)
  <2>1. placed \cup (left \cup {f}) = come \cup {f}
        /\ placed \cup (left \cup {f}) \cup (todo \ {f}) = (come \cup {f}) \cup (todo \ {f})
    BY <1>1
  <2>2. PlacedRightly(come \cup {f}, placed)
    BY <1>1, <1>2, <1>7 DEF PlacedRightly
  <2>3. MissingIsTold(left \cup {f}, told)
    BY <1>2, <1>7 DEF MissingIsTold
  <2> QED BY <1>2, <1>4, <1>5, <2>1, <2>2, <2>3 DEF WalkStory
<1> QED BY <1>6, <1>7

LEMMA OpenedWas ==
  ASSUME TypeInv, hashBefore # None, NEW f
  PROVE  OpenedTo(f) \in State
<1>1. hashBefore \in [DOMAIN hashBefore -> State]
  BY DEF TypeInv, TypeOK
<1>2. Absent \in State
  <2>1. <<>> \in Seq(Line)
    OBVIOUS
  <2> QED BY <2>1 DEF Absent, State
<1>3. \A g : Contract!Was(g) = IF g \in DOMAIN hashBefore THEN hashBefore[g] ELSE Absent
  BY DEF Contract!Was, Contract!Absent, Absent
<1> QED BY <1>1, <1>2, <1>3 DEF OpenedTo, Contract!OpenedTo

\* The walk admits what the contract admits, and calls itself truncated where
\* it leaves out what could be read.
LEMMA WhatIsAdmitted ==
  ASSUME TypeInv, PlaceInv, StageInv, Good,
         WalkStory(Placed, LeftOut, walk.todo, walk.dir, walk.bytes, walk.truncated),
         NEW f \in walk.todo, ComesNext(f)
  PROVE  /\ Contract!Admits(Placed, f) <=> Refusal(f) = {}
         /\ Contract!Eligible(f) => Refusal(f) \subseteq Truncating
         /\ Contract!Admits(Placed, f) =>
              OpenedTo(f).text \in Seq(Line) /\ Size(OpenedTo(f)) = Size(Opened(f))
<1>1. /\ f \in Contract!Walked /\ f \notin Placed \cup LeftOut
      /\ Contract!Before(f, Contract!Walked) = Placed \cup LeftOut
  BY NextInOrder DEF WalkStory
<1>2. f \in Files /\ InEntered(f)
  <2>1. \E i \in DOMAIN Dirs : Reached(Dirs[i]) /\ f \in Listed(Dirs[i])
    BY <1>1, WhatIsWalked
  <2> QED BY <2>1 DEF Reached, Listed, InEntered, TypeInv, TypeOK
<1>3. /\ Contract!Eligible(f) <=>
           /\ ~NotFollowed(f) /\ CanOpen(f) /\ Source.files[f].supported
           /\ Size(Opened(f)) <= Settings.maxFileSize
      /\ Contract!Eligible(f) => OpenedTo(f) = Opened(f)
  BY <1>2, NothingRefused
<1>4. Opened(f) \in State
  BY <1>2, ShapeOfSource DEF Opened, TypeInv, TypeOK
<1>5. Size(Opened(f)) \in Nat /\ Opened(f).text \in Seq(Line)
  BY <1>4, SizeIsNat DEF State
<1>6. /\ walk.found \in Nat /\ walk.bytes \in Nat /\ Settings.maxCount \in Nat
      /\ Settings.maxFileSize \in Nat /\ Settings.maxTotalSize \in Nat
  BY ShapeOfSource DEF TypeInv, TypeOK
<1>7. Cardinality(Contract!Before(f, Contract!Walked)) = walk.found
  <2>1. Cardinality(Placed \cup LeftOut)
          = Cardinality(Placed) + Cardinality(LeftOut) - Cardinality(Placed \cap LeftOut)
    BY FS_Union DEF PlaceInv
  <2>2. Cardinality(Placed \cap LeftOut) = 0
    BY FS_EmptySet DEF PlaceInv, EveryFileHasAPlace
  <2>3. /\ Cardinality(Placed) = Len(Inventory) /\ Cardinality(LeftOut) = Len(walk.skipped)
        /\ walk.found = Len(Inventory) + Len(walk.skipped)
    BY DEF PlaceInv, EveryFileHasAPlace
  <2>4. Len(Inventory) \in Nat /\ Len(walk.skipped) \in Nat
    BY DEF TypeInv, TypeOK, Inventory
  <2> QED BY <1>1, <2>1, <2>2, <2>3, <2>4
<1>8. Cardinality(Contract!Contents(Contract!Before(f, Placed))) = walk.bytes
  <2>1. Contract!Before(f, Placed) = Placed
    BY <1>1 DEF Contract!Before
  <2> QED BY <2>1 DEF WalkStory, BytesPlaced
<1>9. Contract!Admits(Placed, f) <=>
        /\ Contract!Eligible(f) /\ walk.found < Settings.maxCount
        /\ walk.bytes + Size(OpenedTo(f)) <= Settings.maxTotalSize
  <2>1. Contract!Settings = Settings /\ Contract!Size(OpenedTo(f)) = Size(OpenedTo(f))
    BY SameWords
  <2>2. PICK before, read : before = Contract!Cardinality(Contract!Before(f, Contract!Walked))
                            /\ read = Contract!Cardinality(Contract!Contents(Contract!Before(f, Placed)))
    OBVIOUS
  <2>3. Contract!Admits(Placed, f) <=>
          /\ Contract!Eligible(f) /\ before < Contract!Settings.maxCount
          /\ read + Contract!Size(OpenedTo(f)) <= Contract!Settings.maxTotalSize
    BY ONLY <2>2 DEF Contract!Admits, OpenedTo
  <2>4. before = walk.found /\ read = walk.bytes
    BY ONLY <1>7, <1>8, <2>2, SameCount
  <2>5. Contract!Settings.maxCount = Settings.maxCount
        /\ Contract!Settings.maxTotalSize = Settings.maxTotalSize
    BY ONLY <2>1
  <2>6. OpenedTo(f) \in State
    BY OpenedWas DEF Good
  <2>7. Size(OpenedTo(f)) \in Nat
    BY <2>6, SizeIsNat
  <2> QED BY ONLY <1>6, <2>1, <2>3, <2>4, <2>5, <2>7
<1>10. OverCount <=> ~(walk.found < Settings.maxCount)
  BY <1>6 DEF OverCount
<1>11. OverTotal(f) <=> ~(walk.bytes + Size(Opened(f)) <= Settings.maxTotalSize)
  BY <1>5, <1>6 DEF OverTotal
<1>12. Size(Opened(f)) > Settings.maxFileSize <=> ~(Size(Opened(f)) <= Settings.maxFileSize)
  BY <1>5, <1>6
<1>13. Refusal(f) = {} <=>
         /\ ~OverCount /\ ~NotFollowed(f) /\ CanOpen(f)
         /\ ~(Size(Opened(f)) > Settings.maxFileSize)
         /\ ~OverTotal(f) /\ Source.files[f].supported
  BY DEF Refusal, CanOpen
<1>14. Contract!Eligible(f) => Refusal(f) \subseteq Truncating
  BY <1>3, <1>12 DEF Refusal, CanOpen, Truncating
<1>15. Contract!Admits(Placed, f) <=> Refusal(f) = {}
  BY <1>3, <1>9, <1>10, <1>11, <1>12, <1>13
<1> QED BY <1>3, <1>5, <1>9, <1>14, <1>15

\* The walk goes as the contract has it, as long as the source is what it was.
StoryInv ==
  Good =>
    \A placed, left, todo, dir, bytes, truncated :
      /\ placed = Placed /\ left = LeftOut /\ todo = walk.todo
      /\ dir = walk.dir /\ bytes = walk.bytes /\ truncated = walk.truncated
      => WalkStory(placed, left, todo, dir, bytes, truncated)

LEMMA StoryInit == Init => StoryInv
BY DEF Init, StoryInv, Good

LEMMA StoryOfDirectory ==
  ASSUME TypeInv, PlaceInv, StageInv, Good,
         WalkStory(Placed, LeftOut, walk.todo, walk.dir, walk.bytes, walk.truncated),
         EnterDirectory
  PROVE  WalkStory(Placed, LeftOut, walk'.todo, walk'.dir, walk.bytes, walk.truncated)
<1>1. walk \in [dir : 0 .. Len(Dirs), todo : SUBSET Files, found : Nat, bytes : Nat,
                truncated : BOOLEAN, inventory : Seq(Items), skipped : Seq(Skips)]
      /\ scenario \in Scenarios
  BY DEF TypeInv, TypeOK
<1>2. PICK d : d = walk.dir + 1
  OBVIOUS
<1>3. /\ walk.todo = {} /\ walk'.dir = d /\ walk.dir < Len(Dirs)
      /\ walk'.todo = IF Reached(Dirs[d]) THEN Listed(Dirs[d]) ELSE {}
  BY <1>1, <1>2 DEF EnterDirectory
<1>4. d \in DOMAIN Dirs /\ DOMAIN Dirs = 1 .. Len(Dirs) /\ Len(Dirs) \in Nat
      /\ walk.dir \in Nat
  BY <1>1, <1>2, <1>3, ShapeOfSource
<1>5. PICK come : come = Placed \cup LeftOut
  OBVIOUS
<1>6. \A f : f \in come
               <=> f \in Contract!Walked /\ \E i \in 1 .. walk.dir : f \in FilesOf(Dirs[i])
  BY <1>3, <1>5 DEF WalkStory, ComeTo
<1>7. ASSUME NEW f
      PROVE  f \in walk'.todo <=> f \in Contract!Walked /\ f \in FilesOf(Dirs[d])
  <2>1. f \in Contract!Walked
          <=> \E i \in DOMAIN Dirs : Reached(Dirs[i]) /\ f \in Listed(Dirs[i])
    BY WhatIsWalked
  <2>2. \A i \in DOMAIN Dirs : f \in Listed(Dirs[i]) /\ f \in FilesOf(Dirs[d]) => i = d
    BY <1>1, <1>4, OneDirectory DEF Listed
  <2>3. f \in Listed(Dirs[d]) => f \in FilesOf(Dirs[d])
    BY DEF Listed
  <2> QED BY <1>3, <1>4, <2>1, <2>2, <2>3
<1>8. \A f : (\E i \in 1 .. d : f \in FilesOf(Dirs[i]))
               <=> f \in FilesOf(Dirs[d]) \/ \E i \in 1 .. walk.dir : f \in FilesOf(Dirs[i])
  <2>1. 1 .. d = (1 .. walk.dir) \cup {d}
    BY <1>2, <1>4
  <2> QED BY <2>1
<1>9. ComeTo(come \cup walk'.todo, d)
  BY <1>6, <1>7, <1>8 DEF ComeTo
<1> QED BY <1>3, <1>5, <1>9 DEF WalkStory

LEMMA StoryOfFile ==
  ASSUME TypeInv, PlaceInv, StageInv, Good,
         WalkStory(Placed, LeftOut, walk.todo, walk.dir, walk.bytes, walk.truncated),
         NEW f \in walk.todo, SkipFile(f) \/ AdmitFile(f)
  PROVE  WalkStory(Placed', LeftOut', walk'.todo, walk'.dir, walk'.bytes, walk'.truncated)
<1>1. walk \in [dir : 0 .. Len(Dirs), todo : SUBSET Files, found : Nat, bytes : Nat,
                truncated : BOOLEAN, inventory : Seq(Items), skipped : Seq(Skips)]
  BY DEF TypeInv, TypeOK
<1>2. ComesNext(f)
  BY DEF SkipFile, AdmitFile
<1>3. /\ Contract!Admits(Placed, f) <=> Refusal(f) = {}
      /\ Contract!Eligible(f) => Refusal(f) \subseteq Truncating
      /\ Contract!Admits(Placed, f) =>
           OpenedTo(f).text \in Seq(Line) /\ Size(OpenedTo(f)) = Size(Opened(f))
  BY <1>2, WhatIsAdmitted
<1>4. /\ f \in Contract!Walked /\ f \notin Placed \cup LeftOut
      /\ Contract!Before(f, Contract!Walked) = Placed \cup LeftOut
      /\ ~Contract!Precedes(f, f)
      /\ \A g \in Placed \cup LeftOut : ~Contract!Precedes(f, g)
  BY <1>2, NextInOrder DEF WalkStory
<1>5. /\ Contract!Admits(Placed, f) /\ OpenedTo(f).text \in Seq(Line) =>
           WalkStory(Placed \cup {f}, LeftOut, walk.todo \ {f}, walk.dir,
                     walk.bytes + Size(OpenedTo(f)), walk.truncated)
      /\ \A told : /\ ~Contract!Admits(Placed, f)
                   /\ walk.truncated => told
                   /\ Contract!Eligible(f) => told
                   => WalkStory(Placed, LeftOut \cup {f}, walk.todo \ {f}, walk.dir,
                                walk.bytes, told)
  <2>1. walk.bytes \in Nat
    BY <1>1
  <2> QED BY <1>4, <2>1, StoryOfOne
<1>6. CASE AdmitFile(f)
  <2>1. walk' = [walk EXCEPT
          !.todo = @ \ {f}, !.found = @ + 1, !.bytes = @ + Size(Opened(f)),
          !.inventory = Append(@, [file |-> f, state |-> Opened(f)])]
        /\ Refusal(f) = {}
    BY <1>6 DEF AdmitFile
  <2>2. PICK x : x = [file |-> f, state |-> Opened(f)]
    OBVIOUS
  <2>3. x \in Items
    <3>1. Opened(f) \in State
      BY <1>1, ShapeOfSource DEF Opened, TypeInv, TypeOK
    <3> QED BY <1>1, <2>2, <3>1 DEF Items
  <2>4. /\ walk'.todo = walk.todo \ {f} /\ walk'.dir = walk.dir
        /\ walk'.bytes = walk.bytes + Size(Opened(f)) /\ walk'.truncated = walk.truncated
        /\ walk'.inventory = Append(walk.inventory, x) /\ walk'.skipped = walk.skipped
    BY <1>1, <2>1, <2>2
  <2>5. Placed' = Placed \cup {f} /\ LeftOut' = LeftOut
    <3>1. NamesIn(Append(walk.inventory, x)) = NamesIn(walk.inventory) \cup {x.file}
      BY <1>1, <2>3, NamesInLonger
    <3>2. x.file = f
      BY <2>2
    <3> QED BY <2>4, <3>1, <3>2 DEF NamesIn, Placed, LeftOut, Inventory
  <2>6. Size(OpenedTo(f)) = Size(Opened(f)) /\ Contract!Admits(Placed, f)
        /\ OpenedTo(f).text \in Seq(Line)
    BY <1>3, <2>1
  <2>7. WalkStory(Placed \cup {f}, LeftOut, walk.todo \ {f}, walk.dir,
                  walk.bytes + Size(Opened(f)), walk.truncated)
    BY <1>5, <2>6
  <2> QED BY <2>4, <2>5, <2>7
<1>7. CASE SkipFile(f)
  <2>1. PICK reason \in Refusal(f) :
          walk' = [walk EXCEPT !.todo = @ \ {f}, !.found = @ + 1,
                               !.truncated = @ \/ reason \in Truncating,
                               !.skipped = Recorded(f, reason)]
    BY <1>7 DEF SkipFile
  <2>2. PICK x : x = [file |-> f, reason |-> reason]
    OBVIOUS
  <2>3. x \in Skips
    BY <1>1, <2>2 DEF Refusal, Skips, SkipReasons
  <2>4. PICK told : told = (walk.truncated \/ reason \in Truncating)
    OBVIOUS
  <2>5. /\ walk'.todo = walk.todo \ {f} /\ walk'.dir = walk.dir
        /\ walk'.bytes = walk.bytes /\ walk'.truncated = told
        /\ walk'.skipped = Append(walk.skipped, x) /\ walk'.inventory = walk.inventory
    BY <1>1, <2>1, <2>2, <2>4 DEF Recorded
  <2>6. Placed' = Placed /\ LeftOut' = LeftOut \cup {f}
    <3>1. NamesIn(Append(walk.skipped, x)) = NamesIn(walk.skipped) \cup {x.file}
      BY <1>1, <2>3, NamesInLonger
    <3>2. x.file = f
      BY <2>2
    <3> QED BY <2>5, <3>1, <3>2 DEF NamesIn, Placed, LeftOut, Inventory
  <2>7. /\ ~Contract!Admits(Placed, f) /\ (walk.truncated => told)
        /\ (Contract!Eligible(f) => told)
    BY <1>3, <2>1, <2>4
  <2>8. WalkStory(Placed, LeftOut \cup {f}, walk.todo \ {f}, walk.dir, walk.bytes, told)
    BY <1>5, <2>7
  <2> QED BY <2>5, <2>6, <2>8
<1> QED BY <1>6, <1>7

LEMMA StoryNext ==
  ASSUME TypeInv, PlaceInv, StageInv, StoryInv, [Next]_vars
  PROVE  StoryInv'
<1> SUFFICES ASSUME Good',
                    NEW placed, NEW left, NEW todo, NEW dir, NEW bytes, NEW truncated,
                    placed = Placed', left = LeftOut', todo = walk'.todo,
                    dir = walk'.dir, bytes = walk'.bytes, truncated = walk'.truncated
             PROVE  WalkStory(placed, left, todo, dir, bytes, truncated)'
  BY DEF StoryInv
<1>1. scenario' = scenario
  BY OnlyDiscoveryWalks DEF TypeInv, TypeOK
<1>2. CASE hashBefore = None
  <2>1. hashBefore' # None
    BY DEF Good
  <2>2. HashBefore
    BY <1>2, <2>1, OnlyOwnersWrite DEF Next, Advance, OwnerChanges, ExtractEntry, scanVars
  <2>3. walk' = walk /\ walk = NewWalk
    BY <2>2 DEF HashBefore, PlaceInv, Unwalked
  <2>4. Placed = {} /\ LeftOut = {} /\ Placed' = Placed /\ LeftOut' = LeftOut
    BY <2>3 DEF NewWalk, Placed, LeftOut, Inventory
  <2>5. placed = {} /\ left = {} /\ todo = {} /\ dir = 0 /\ bytes = 0 /\ truncated = FALSE
    BY <2>3, <2>4 DEF NewWalk
  <2> QED BY <2>5, StoryBegins
<1>3. CASE hashBefore # None
  <2>1. Good /\ hashBefore' = hashBefore
    BY <1>3, GoodBefore
  <2>2. WalkStory(Placed, LeftOut, walk.todo, walk.dir, walk.bytes, walk.truncated)
    BY <2>1 DEF StoryInv
  <2>3. WalkStory(placed, left, todo, dir, bytes, truncated)
    <3>1. CASE EnterDirectory
      <4>1. WalkStory(Placed, LeftOut, walk'.todo, walk'.dir, walk.bytes, walk.truncated)
        BY <2>1, <2>2, <3>1, StoryOfDirectory
      <4>2. /\ walk'.bytes = walk.bytes /\ walk'.truncated = walk.truncated
            /\ walk'.inventory = walk.inventory /\ walk'.skipped = walk.skipped
        BY <3>1 DEF EnterDirectory, TypeInv, TypeOK
      <4>3. Placed' = Placed /\ LeftOut' = LeftOut
        BY <4>2 DEF Placed, LeftOut, Inventory
      <4> QED BY <4>1, <4>2, <4>3
    <3>2. ASSUME NEW f \in walk.todo, SkipFile(f) \/ AdmitFile(f)
          PROVE  WalkStory(placed, left, todo, dir, bytes, truncated)
      BY <2>1, <2>2, <3>2, StoryOfFile
    <3>3. CASE walk' = walk
      <4>1. Placed' = Placed /\ LeftOut' = LeftOut
        BY <3>3 DEF Placed, LeftOut, Inventory
      <4> QED BY <2>2, <3>3, <4>1
    <3>4. Discover \/ walk' = walk
      BY OnlyDiscoveryWalks
    <3> QED BY <3>1, <3>2, <3>3, <3>4 DEF Discover
  <2> QED BY <1>1, <2>1, <2>3, SameStory
<1> QED BY <1>2, <1>3

(***************************************************************************)
(* The scanners and the contract.                                          *)
(***************************************************************************)
\* What a scanner finds in a file as it was hashed.
Told(f, scanner) ==
  IF OpenedTo(f).binary THEN {} ELSE FindingsIn(f, scanner, OpenedTo(f).text)

\* A scanner fails on files that it has been through, and of those on which it
\* does not fail there is all that it finds in them, and nothing else.
ScanStory(found, runs, at, inventory) ==
  /\ \A i \in Executions : \A f \in runs[i].errored :
       \E k \in DOMAIN inventory : inventory[k].file = f /\ DoneAt(at, i, k)
  /\ \A x : x \in found <=>
       \E i \in Executions : \E k \in DOMAIN inventory :
         /\ DoneAt(at, i, k) /\ inventory[k].file \notin runs[i].errored
         /\ x \in Told(inventory[k].file, Scanners[i])

ReadInv ==
  Good /\ phase \in {"scanning", "scanned"} =>
    \A found, runs, at, inventory :
      /\ found = findings /\ runs = executions /\ at = cursor /\ inventory = Inventory
      => ScanStory(found, runs, at, inventory)

LEMMA SameScanStory ==
  ASSUME scenario' = scenario, hashBefore' = hashBefore,
         NEW found, NEW runs, NEW at, NEW inventory
  PROVE  ScanStory(found, runs, at, inventory)' <=> ScanStory(found, runs, at, inventory)
<1>1. \A f : Contract!OpenedTo(f)' = Contract!OpenedTo(f)
  BY DEF Contract!OpenedTo, Contract!Was, Contract!Resolved, Contract!Absent, Contract!Source
<1>2. \A f : DomainsOf(f)' = DomainsOf(f)
  BY DEF DomainsOf, Source
<1>3. \A f, scanner : Told(f, scanner)' = Told(f, scanner)
  BY <1>1, <1>2 DEF Told, OpenedTo, FindingsIn, Normalized
<1> QED BY <1>3 DEF ScanStory, DoneAt

LEMMA ReadInit == Init => ReadInv
BY DEF Init, ReadInv

\* A file that was placed is read as it was hashed.
LEMMA ReadAsHashed ==
  ASSUME TypeInv, PlaceInv, StageInv, StoryInv, Good, NEW f \in Placed
  PROVE  /\ CanOpen(f) /\ OpenedTo(f) = Opened(f)
         /\ f \in Contract!Walked /\ Contract!Eligible(f)
         /\ \A scanner : Told(f, scanner) =
              IF Opened(f).binary THEN {}
              ELSE FindingsIn(f, scanner, ReadText(Opened(f)))
<1>1. WalkStory(Placed, LeftOut, walk.todo, walk.dir, walk.bytes, walk.truncated)
  BY DEF StoryInv
<1>2. f \in Contract!Walked /\ Contract!Admits(Placed, f)
  BY <1>1 DEF WalkStory, ComeTo, PlacedRightly
<1>3. Contract!Eligible(f)
  BY <1>2 DEF Contract!Admits
<1>4. f \in Files /\ InEntered(f)
  <2>1. \E i \in DOMAIN Dirs : Reached(Dirs[i]) /\ f \in Listed(Dirs[i])
    BY <1>2, WhatIsWalked
  <2>2. f \in Files
    BY <1>2, SameWords DEF Contract!Walked
  <2> QED BY <2>1, <2>2 DEF Reached, Listed, InEntered
<1>5. /\ CanOpen(f) /\ OpenedTo(f) = Opened(f)
      /\ Size(Opened(f)) <= Settings.maxFileSize
  BY <1>3, <1>4, NothingRefused
<1>6. Opened(f) \in State
  BY <1>4, ShapeOfSource DEF Opened, TypeInv, TypeOK
<1>7. ReadText(Opened(f)) = Opened(f).text
  <2>1. Settings.maxFileSize \in Nat /\ Size(Opened(f)) \in Nat
    BY <1>6, SizeIsNat, ShapeOfSource DEF TypeInv, TypeOK
  <2>2. Settings.maxFileSize <= ReadLimit /\ ReadLimit \in Nat
    BY BoundsAssumption DEF Settings, TypeInv, TypeOK
  <2>3. Size(Opened(f)) <= ReadLimit
    BY <1>5, <2>1, <2>2
  <2> QED BY <1>6, <2>3, TextIsRead
<1> QED BY <1>2, <1>3, <1>5, <1>7 DEF Told

\* From one item to the next in a list that has each file once.
OneMore(at, after, i, k, inventory) ==
  /\ ~DoneAt(at, i, k)
  /\ \A j \in Executions, l \in DOMAIN inventory :
       DoneAt(after, j, l) <=> DoneAt(at, j, l) \/ (j = i /\ l = k)
  /\ \A j, l \in DOMAIN inventory : inventory[j].file = inventory[l].file => j = l

Fails(runs, after, i, f) ==
  \A j \in Executions :
    after[j].errored = IF j = i THEN runs[j].errored \cup {f} ELSE runs[j].errored

FailsNot(runs, after) == \A j \in Executions : after[j].errored = runs[j].errored

\* One file more: a scanner fails on it, or tells what it finds in it.
LEMMA ScanStoryOfOne ==
  ASSUME NEW found, NEW runs, NEW at, NEW inventory, NEW after,
         ScanStory(found, runs, at, inventory),
         NEW i \in Executions, NEW k \in DOMAIN inventory,
         NEW f, f = inventory[k].file,
         OneMore(at, after, i, k, inventory), NEW runs2
  PROVE  /\ Fails(runs, runs2, i, f) => ScanStory(found, runs2, after, inventory)
         /\ FailsNot(runs, runs2) =>
              ScanStory(found \cup Told(f, Scanners[i]), runs2, after, inventory)
<1>0. /\ ~DoneAt(at, i, k)
      /\ \A j \in Executions, l \in DOMAIN inventory :
           DoneAt(after, j, l) <=> DoneAt(at, j, l) \/ (j = i /\ l = k)
      /\ \A j, l \in DOMAIN inventory : inventory[j].file = inventory[l].file => j = l
  BY DEF OneMore
<1>1. f \notin runs[i].errored
  <2>1. f \in runs[i].errored =>
          \E l \in DOMAIN inventory : inventory[l].file = f /\ DoneAt(at, i, l)
    BY DEF ScanStory
  <2> QED BY <1>0, <2>1
<1>2. \A j \in Executions : \A g \in runs[j].errored :
        \E l \in DOMAIN inventory : inventory[l].file = g /\ DoneAt(after, j, l)
  BY <1>0 DEF ScanStory
<1>3. \A x : x \in found <=>
        \E j \in Executions : \E l \in DOMAIN inventory :
          /\ DoneAt(at, j, l) /\ inventory[l].file \notin runs[j].errored
          /\ x \in Told(inventory[l].file, Scanners[j])
  BY DEF ScanStory
<1>4. ASSUME \A j \in Executions : runs2[j].errored =
                IF j = i THEN runs[j].errored \cup {f} ELSE runs[j].errored
      PROVE  ScanStory(found, runs2, after, inventory)
  <2>1. \A j \in Executions : \A g \in runs2[j].errored :
          \E l \in DOMAIN inventory : inventory[l].file = g /\ DoneAt(after, j, l)
    <3>1. inventory[k].file = f /\ DoneAt(after, i, k)
      BY <1>0
    <3>2. ASSUME NEW j \in Executions, NEW g \in runs2[j].errored
          PROVE  g \in runs[j].errored \/ (j = i /\ g = f)
      BY <1>4, <3>2
    <3> QED BY <1>2, <3>1, <3>2
  <2>2. \A j \in Executions, l \in DOMAIN inventory :
          DoneAt(after, j, l) /\ inventory[l].file \notin runs2[j].errored
            <=> DoneAt(at, j, l) /\ inventory[l].file \notin runs[j].errored
    BY <1>0, <1>4
  <2> QED BY <1>3, <2>1, <2>2 DEF ScanStory
<1>5. ASSUME \A j \in Executions : runs2[j].errored = runs[j].errored
      PROVE  ScanStory(found \cup Told(f, Scanners[i]), runs2, after, inventory)
  <2>1. \A j \in Executions : \A g \in runs2[j].errored :
          \E l \in DOMAIN inventory : inventory[l].file = g /\ DoneAt(after, j, l)
    BY <1>2, <1>5
  <2>2. \A j \in Executions, l \in DOMAIN inventory :
          DoneAt(after, j, l) /\ inventory[l].file \notin runs2[j].errored
            <=> \/ DoneAt(at, j, l) /\ inventory[l].file \notin runs[j].errored
                \/ j = i /\ l = k
    BY <1>0, <1>1, <1>5
  <2>3. ASSUME NEW x
        PROVE  x \in found \cup Told(f, Scanners[i]) <=>
                 \E j \in Executions : \E l \in DOMAIN inventory :
                   /\ DoneAt(after, j, l) /\ inventory[l].file \notin runs2[j].errored
                   /\ x \in Told(inventory[l].file, Scanners[j])
    BY <1>3, <2>2
  <2> QED BY <2>1, <2>3 DEF ScanStory
<1> QED BY <1>4, <1>5 DEF Fails, FailsNot

LEMMA ReadOfFile ==
  ASSUME TypeInv, PlaceInv, StageInv, StoryInv, ReadInv, Good,
         FileUnreadable \/ FileIsBinary \/ ScannerRaises \/ FileScanned
  PROVE  ScanStory(findings', executions', cursor', Inventory)
<1>1. phase = "scanning" /\ NextItem
  BY DEF FileUnreadable, FileIsBinary, ScannerRaises, FileScanned
<1>2. ScanStory(findings, executions, cursor, Inventory)
  BY <1>1 DEF ReadInv
<1>3. PICK i, k : i = cursor.scanner /\ k = cursor.item
  OBVIOUS
<1>4. /\ \A j \in Executions, l \in DOMAIN Inventory :
           DoneAt(cursor', j, l) <=> DoneAt(cursor, j, l) \/ (j = i /\ l = k)
      /\ ~DoneAt(cursor, i, k) /\ i \in Executions /\ k \in DOMAIN Inventory
  BY <1>1, <1>3, CursorGoesOn
<1>5. PICK f : f = Inventory[k].file
  OBVIOUS
<1>6. Current = f /\ CurrentScanner = Scanners[i]
  BY <1>3, <1>5 DEF Current, CurrentScanner
<1>7. f \in Placed
  BY <1>4, <1>5 DEF Placed
<1>8. /\ CanOpen(f)
      /\ Told(f, Scanners[i]) = IF Opened(f).binary THEN {}
                                ELSE FindingsIn(f, Scanners[i], ReadText(Opened(f)))
  BY <1>7, ReadAsHashed
<1>9. \A j, l \in DOMAIN Inventory : Inventory[j].file = Inventory[l].file => j = l
  BY DEF StageInv, Ordered
<1>10. ASSUME NEW runs
       PROVE  /\ Fails(executions, runs, i, f) =>
                   ScanStory(findings, runs, cursor', Inventory)
              /\ FailsNot(executions, runs) =>
                   ScanStory(findings \cup Told(f, Scanners[i]), runs, cursor', Inventory)
  <2>1. PICK inventory, after : inventory = Inventory /\ after = cursor'
    OBVIOUS
  <2>2. OneMore(cursor, after, i, k, inventory)
    BY <1>4, <1>9, <2>1 DEF OneMore
  <2> QED BY <1>2, <1>4, <1>5, <2>1, <2>2, ScanStoryOfOne
<1>11. executions \in [Executions -> [processed : SUBSET Files, errored : SUBSET Files]]
  BY DEF TypeInv, TypeOK
<1>12. CASE FileUnreadable \/ ScannerRaises
  <2>1. executions' = [executions EXCEPT ![i].errored = @ \cup {f}] /\ findings' = findings
    BY <1>3, <1>6, <1>12 DEF FileUnreadable, ScannerRaises, Errored
  <2>2. \A j \in Executions : executions'[j].errored =
          IF j = i THEN executions[j].errored \cup {f} ELSE executions[j].errored
    BY <1>11, <2>1
  <2> QED BY <1>10, <2>1, <2>2 DEF Fails
<1>13. CASE FileIsBinary
  <2>1. executions' = executions /\ findings' = findings /\ Opened(f).binary
    BY <1>6, <1>13 DEF FileIsBinary
  <2>2. Told(f, Scanners[i]) = {}
    BY <1>8, <2>1
  <2>3. ScanStory(findings \cup Told(f, Scanners[i]), executions', cursor', Inventory)
    BY <1>10, <2>1 DEF FailsNot
  <2>4. findings' = findings \cup Told(f, Scanners[i])
    BY <2>1, <2>2
  <2> QED BY <2>3, <2>4
<1>14. CASE FileScanned
  <2>1. /\ executions' = [executions EXCEPT ![i].processed = @ \cup {f}]
        /\ findings' = findings \cup FindingsIn(f, Scanners[i], ReadText(Opened(f)))
        /\ ~Opened(f).binary
    BY <1>3, <1>6, <1>14 DEF FileScanned
  <2>2. \A j \in Executions : executions'[j].errored = executions[j].errored
    BY <1>11, <2>1
  <2>3. findings' = findings \cup Told(f, Scanners[i])
    BY <1>8, <2>1
  <2> QED BY <1>10, <2>2, <2>3 DEF FailsNot
<1> QED BY <1>12, <1>13, <1>14

\* Before the scanners run nothing is found and no scanner has failed.
LEMMA ReadBegins ==
  ASSUME TypeInv, phase = "discovering", Stages,
         Inventory = <<>> \/ Scanners = <<>> \/ phase' = "scanning"
  PROVE  ScanStory(findings, executions, cursor, Inventory)
<1>1. findings = {} /\ \A i \in Executions : executions[i].errored = {}
  BY DEF Stages, Unscanned, NotRun
<1>2. cursor.scanner = 1 /\ cursor.item = 1
  BY DEF TypeInv, Unscanned
<1>3. Executions = 1 .. Len(Scanners) /\ Len(Scanners) \in Nat
      /\ DOMAIN Inventory = 1 .. Len(Inventory) /\ Len(Inventory) \in Nat
  BY ShapeOfScanners DEF TypeInv, TypeOK, Inventory
<1>4. \A i \in Executions : \A k \in DOMAIN Inventory : ~DoneAt(cursor, i, k)
  BY <1>2, <1>3 DEF DoneAt
<1> QED BY <1>1, <1>4 DEF ScanStory

LEMMA ReadNext ==
  ASSUME TypeInv, PlaceInv, StageInv, StoryInv, ReadInv, [Next]_vars
  PROVE  ReadInv'
<1> SUFFICES ASSUME Good', phase' \in {"scanning", "scanned"},
                    NEW found, NEW runs, NEW at, NEW inventory,
                    found = findings', runs = executions', at = cursor',
                    inventory = Inventory'
             PROVE  ScanStory(found, runs, at, inventory)'
  BY DEF ReadInv
<1>1. scenario' = scenario
  BY OnlyDiscoveryWalks DEF TypeInv, TypeOK
<1>2. ASSUME phase \notin {"discovering", "scanning", "scanned"}
      PROVE  FALSE
  BY <1>2 DEF Next, Advance, RunScan, Ingest, AcceptDirectory, RefuseSource, TempDirFails,
     MakeTempDir, ValidateMembers, RejectMembers, ExtractEntry, ExtractionFails,
     EndExtraction, Discover, EnterDirectory, SkipFile, AdmitFile, ingestVars, HashBefore,
     EndDiscovery, FileUnreadable, FileIsBinary, ScannerRaises, FileScanned, Report,
     ScanCannotRun, Cleanup, Discard, Stop, OwnerChanges, vars
<1>3. hashBefore # None
  BY <1>2 DEF StageInv, Stages, Hashing
<1>4. Good /\ hashBefore' = hashBefore
  BY <1>3, GoodBefore
<1>5. ScanStory(findings', executions', cursor', Inventory)
  <2>1. CASE EndDiscovery
    <3>1. phase = "discovering" /\ UNCHANGED <<findings, executions, cursor>>
          /\ (Inventory = <<>> \/ Scanners = <<>> \/ phase' = "scanning")
      BY <2>1 DEF EndDiscovery, scanVars
    <3>2. ScanStory(findings, executions, cursor, Inventory)
      BY <3>1, ReadBegins DEF StageInv
    <3> QED BY <3>1, <3>2
  <2>2. CASE FileUnreadable \/ FileIsBinary \/ ScannerRaises \/ FileScanned
    BY <1>4, <2>2, ReadOfFile
  <2>3. CASE (\E f \in Files : OwnerChanges(f)) \/ UNCHANGED vars
    <3>1. UNCHANGED <<phase, findings, executions, cursor>>
      BY <2>3 DEF OwnerChanges, ingestVars, scanVars, vars
    <3> QED BY <1>4, <3>1 DEF ReadInv
  <2>4. CASE \/ Ingest /\ UNCHANGED <<walk, scanVars>>
             \/ Discover /\ UNCHANGED scanVars
             \/ HashBefore \/ Report \/ ScanCannotRun \/ Cleanup \/ Stop
    <3>1. phase' \notin {"scanning", "scanned"}
      BY <2>4 DEF Ingest, AcceptDirectory, RefuseSource, TempDirFails,
         MakeTempDir, ValidateMembers, RejectMembers, ExtractEntry, ExtractionFails,
         EndExtraction, Discover, EnterDirectory, SkipFile, AdmitFile, ingestVars,
         HashBefore, Report, ScanCannotRun, Cleanup, Discard, Stop
    <3> QED BY <3>1
  <2> QED BY <2>1, <2>2, <2>3, <2>4 DEF Next, Advance, RunScan
<1>6. Inventory' = Inventory
  <2>1. CASE Discover
    <3>1. phase' = "discovering"
      BY <2>1 DEF Discover, EnterDirectory, SkipFile, AdmitFile, ingestVars
    <3> QED BY <3>1
  <2> QED BY <2>1, OnlyDiscoveryWalks DEF Inventory
<1>7. ScanStory(found, runs, at, inventory)
  BY <1>5, <1>6
<1> QED BY <1>1, <1>4, <1>7, SameScanStory

PromiseInv == TypeInv /\ PlaceInv /\ StageInv /\ StoryInv /\ ReadInv

LEMMA PromiseAlways == Spec => []PromiseInv
<1>1. Init => PromiseInv
  BY TypeInit, PlaceInit, StagesInit, OrderedInit, HashesInit, StoryInit, ReadInit
  DEF PromiseInv, StageInv
<1>2. PromiseInv /\ [Next]_vars => PromiseInv'
  BY TypeNext, PlaceNext, StagesNext, OrderedNext, HashesNext, StoryNext, ReadNext
  DEF PromiseInv, StageInv
<1> QED BY <1>1, <1>2, PTL DEF Spec

(***************************************************************************)
(* The report and the contract.                                            *)
(***************************************************************************)
\* When the walk is over it has come to all that there is to walk.
LEMMA AllIsWalked ==
  ASSUME PromiseInv, Good, Discovered
  PROVE  /\ Contract!Walked = Placed \cup LeftOut
         /\ Contract!Admission(Placed)
         /\ ~walk.truncated => {f \in Contract!Walked : Contract!Eligible(f)} = Placed
<1>1. WalkStory(Placed, LeftOut, walk.todo, walk.dir, walk.bytes, walk.truncated)
  BY DEF PromiseInv, StoryInv
<1>2. walk.todo = {} /\ walk.dir = Len(Dirs) /\ DOMAIN Dirs = 1 .. Len(Dirs)
  BY ShapeOfSource DEF Discovered, PromiseInv, TypeInv, TypeOK
<1>3. \A f : f \in Placed \cup LeftOut
               <=> f \in Contract!Walked /\ \E i \in DOMAIN Dirs : f \in FilesOf(Dirs[i])
  BY <1>1, <1>2 DEF WalkStory, ComeTo
<1>4. \A f \in Contract!Walked : \E i \in DOMAIN Dirs : f \in FilesOf(Dirs[i])
  BY SameWords DEF Contract!Walked, Contract!Walkable, DirSet
<1>5. Contract!Walked = Placed \cup LeftOut
  BY <1>3, <1>4
<1>6. Contract!Admission(Placed)
  BY <1>1, <1>5 DEF WalkStory, PlacedRightly, Contract!Admission
<1>7. \A f \in Placed : Contract!Eligible(f)
  BY ReadAsHashed DEF PromiseInv
<1>8. \A f \in LeftOut : Contract!Eligible(f) => walk.truncated
  BY <1>1 DEF WalkStory, MissingIsTold
<1> QED BY <1>5, <1>6, <1>7, <1>8

LEMMA FailuresTell ==
  ASSUME NEW i \in Executions, NEW f
  PROVE  [by |-> Scanners[i], file |-> f] \in Failures <=> f \in executions[i].errored
<1>1. \A j \in Executions : Scanners[j] = Scanners[i] => j = i
  BY ScannersAssumption DEF Executions
<1>2. \A z : z \in Failures
        <=> \E j \in Executions : \E g \in executions[j].errored :
              z = [by |-> Scanners[j], file |-> g]
  BY DEF Failures
<1>3. \A j, g : [by |-> Scanners[i], file |-> f] = [by |-> Scanners[j], file |-> g]
                  <=> Scanners[i] = Scanners[j] /\ f = g
  OBVIOUS
<1> QED BY <1>1, <1>2, <1>3

\* What a scanner finds in a file, as places in its text.
RawsOf(f, scanner) ==
  IF OpenedTo(f).binary THEN {} ELSE Scan(scanner, OpenedTo(f).text)

LEMMA ToldIsRaw ==
  \A f, scanner, x :
    x \in Told(f, scanner)
      <=> \E raw \in RawsOf(f, scanner) : x = Normalized(f, scanner, DomainsOf(f), raw)
BY DEF Told, RawsOf, FindingsIn

LEMMA RawsHaveHomes ==
  ASSUME TypeInv, hashBefore # None, NEW f, NEW i \in Executions
  PROVE  /\ \A raw \in RawsOf(f, Scanners[i]) : Home(raw.rule.id) = Scanners[i]
         /\ Scanners[i] # "unsupported_sensitive_file"
<1>1. OpenedTo(f).text \in Seq(Line)
  BY OpenedWas DEF State
<1>2. Scanners[i] \in ContentNames
  BY ScannersAssumption DEF Executions, ContentNames
<1>3. "unsupported_sensitive_file" \notin ContentNames
  BY DEF ContentNames, ContentScanners
<1> QED BY <1>1, <1>2, <1>3, ScanFinds DEF RawsOf

\* When the scanners are done there is what each finds in the files it read.
LEMMA WhatIsFound ==
  ASSUME PromiseInv, Good, phase = "scanned"
  PROVE  \A x : x \in findings
           <=> \E i \in Executions : \E f \in Placed \ executions[i].errored :
                 \E raw \in RawsOf(f, Scanners[i]) :
                   x = Normalized(f, Scanners[i], DomainsOf(f), raw)
<1>1. ScanStory(findings, executions, cursor, Inventory)
  BY DEF PromiseInv, ReadInv
<1>2. \A i \in Executions, k \in DOMAIN Inventory : DoneAt(cursor, i, k)
  BY DEF PromiseInv, StageInv, Ordered
<1>3. \A x : x \in findings
        <=> \E i \in Executions : \E k \in DOMAIN Inventory :
              /\ Inventory[k].file \notin executions[i].errored
              /\ x \in Told(Inventory[k].file, Scanners[i])
  BY <1>1, <1>2 DEF ScanStory
<1>4. \A f : f \in Placed <=> \E k \in DOMAIN Inventory : f = Inventory[k].file
  BY DEF Placed
<1>5. \A x : x \in findings
        <=> \E i \in Executions : \E f \in Placed \ executions[i].errored :
              x \in Told(f, Scanners[i])
  BY <1>3, <1>4
<1> QED BY <1>5, ToldIsRaw

PlaceOf(x) == Contract!Place(x.file, x.scanner, x.raw)

\* What the contract calls for, in the words of the scan.
LEMMA WhatIsCalledFor ==
  ASSUME PromiseInv, Good, phase = "scanned"
  PROVE  \A p : p \in Contract!Reference(Placed, Failures)
                  <=> \E x \in findings : p = PlaceOf(x)
<1> DEFINE Raws(f, scanner) == IF Contract!OpenedTo(f).binary THEN {}
                               ELSE Contract!Scan(scanner, Contract!OpenedTo(f).text)
           Read(scanner) == {g \in Placed : [by |-> scanner, file |-> g] \notin Failures}
           Of(f, scanner) == {Contract!Place(f, scanner, raw) : raw \in Raws(f, scanner)}
           By(scanner) == UNION {Of(f, scanner) : f \in Read(scanner)}
<1>0. \A f, scanner : Raws(f, scanner) = RawsOf(f, scanner)
  BY SameScan DEF RawsOf, OpenedTo
<1>1. \A p : p \in Contract!Reference(Placed, Failures)
        <=> \E i \in Executions : \E f \in Placed :
              /\ [by |-> Scanners[i], file |-> f] \notin Failures
              /\ \E raw \in RawsOf(f, Scanners[i]) : p = Contract!Place(f, Scanners[i], raw)
  <2>1. Contract!Reference(Placed, Failures) =
          UNION {By(scanner) : scanner \in {Scanners[i] : i \in DOMAIN Scanners}}
    BY DEF Contract!Reference
  <2>2. \A scanner, p : p \in By(scanner) <=> \E f \in Read(scanner) : p \in Of(f, scanner)
    <3> HIDE DEF Of, Read
    <3> QED BY DEF By
  <2>3. \A f, scanner, p : p \in Of(f, scanner)
          <=> \E raw \in RawsOf(f, scanner) : p = Contract!Place(f, scanner, raw)
    <3> HIDE DEF Raws
    <3> QED BY <1>0
  <2>4. \A f, scanner : f \in Read(scanner)
          <=> f \in Placed /\ [by |-> scanner, file |-> f] \notin Failures
    OBVIOUS
  <2> HIDE DEF By, Of, Read, Raws
  <2>5. \A p : p \in Contract!Reference(Placed, Failures)
                <=> \E i \in DOMAIN Scanners : p \in By(Scanners[i])
    BY <2>1
  <2>6. \A scanner, p : p \in By(scanner)
          <=> \E f \in Placed : /\ [by |-> scanner, file |-> f] \notin Failures
                               /\ p \in Of(f, scanner)
    BY <2>2, <2>4
  <2>7. \A scanner, p : p \in By(scanner)
          <=> \E f \in Placed :
                /\ [by |-> scanner, file |-> f] \notin Failures
                /\ \E raw \in RawsOf(f, scanner) : p = Contract!Place(f, scanner, raw)
    BY <2>3, <2>6
  <2> DEFINE Has(i, p) ==
               \E f \in Placed :
                 /\ [by |-> Scanners[i], file |-> f] \notin Failures
                 /\ \E raw \in RawsOf(f, Scanners[i]) : p = Contract!Place(f, Scanners[i], raw)
  <2>8. \A i, p : p \in By(Scanners[i]) <=> Has(i, p)
    BY <2>7
  <2>9. \A p : p \in Contract!Reference(Placed, Failures)
                <=> \E i \in Executions : Has(i, p)
    <3> HIDE DEF Has
    <3> QED BY <2>5, <2>8 DEF Executions
  <2> QED BY <2>9
<1> HIDE DEF By, Of, Read, Raws
<1>2. \A p : p \in Contract!Reference(Placed, Failures)
        <=> \E i \in Executions : \E f \in Placed \ executions[i].errored :
              \E raw \in RawsOf(f, Scanners[i]) : p = Contract!Place(f, Scanners[i], raw)
  BY <1>1, FailuresTell
<1>3. \A f, scanner, raw :
        PlaceOf(Normalized(f, scanner, DomainsOf(f), raw)) = Contract!Place(f, scanner, raw)
  BY DEF PlaceOf, Normalized
<1>4. \A x : x \in findings
        <=> \E i \in Executions : \E f \in Placed \ executions[i].errored :
              \E raw \in RawsOf(f, Scanners[i]) :
                x = Normalized(f, Scanners[i], DomainsOf(f), raw)
  BY WhatIsFound
<1>5. ASSUME NEW p, p \in Contract!Reference(Placed, Failures)
      PROVE  \E x \in findings : p = PlaceOf(x)
  <2>1. PICK i \in Executions : \E f \in Placed \ executions[i].errored :
          \E raw \in RawsOf(f, Scanners[i]) : p = Contract!Place(f, Scanners[i], raw)
    BY <1>2, <1>5
  <2>2. PICK f \in Placed \ executions[i].errored :
          \E raw \in RawsOf(f, Scanners[i]) : p = Contract!Place(f, Scanners[i], raw)
    BY <2>1
  <2>3. PICK raw \in RawsOf(f, Scanners[i]) : p = Contract!Place(f, Scanners[i], raw)
    BY <2>2
  <2>4. Normalized(f, Scanners[i], DomainsOf(f), raw) \in findings
    BY <1>4
  <2> QED BY <1>3, <2>3, <2>4
<1>6. ASSUME NEW x \in findings
      PROVE  PlaceOf(x) \in Contract!Reference(Placed, Failures)
  <2>1. PICK i \in Executions : \E f \in Placed \ executions[i].errored :
          \E raw \in RawsOf(f, Scanners[i]) :
            x = Normalized(f, Scanners[i], DomainsOf(f), raw)
    BY <1>4
  <2> QED BY <1>2, <1>3, <2>1
<1> QED BY <1>5, <1>6

\* Of each place that the contract calls for the report has one finding.
LEMMA ReportTells ==
  ASSUME PromiseInv, Good, phase = "scanned",
         NEW told, \A x : x \in told <=> /\ x \in Deduplicate(findings \cup ScanSkippedFiles)
                                         /\ x.scanner # "unsupported_sensitive_file"
  PROVE  /\ \A p : p \in Contract!Reference(Placed, Failures) <=> \E x \in told : p = PlaceOf(x)
         /\ \A x, y \in told : PlaceOf(x) = PlaceOf(y) => x = y
         /\ IsFiniteSet(told)
<1>1. PICK all, one : all = findings \cup ScanSkippedFiles /\ one = Deduplicate(all)
  OBVIOUS
<1>2. /\ one \subseteq all
      /\ \A g \in all : \E x \in one : SamePlace(x, g)
      /\ \A x, y \in one : SamePlace(x, y) => x = y
  BY <1>1, OnePlace
<1>3. \A x \in findings : /\ Home(x.raw.rule.id) = x.scanner
                          /\ x.scanner # "unsupported_sensitive_file"
  <2>1. ASSUME NEW x \in findings
        PROVE  Home(x.raw.rule.id) = x.scanner /\ x.scanner # "unsupported_sensitive_file"
    <3>1. PICK i \in Executions : \E f \in Placed \ executions[i].errored :
            \E raw \in RawsOf(f, Scanners[i]) :
              x = Normalized(f, Scanners[i], DomainsOf(f), raw)
      BY WhatIsFound
    <3>2. PICK f \in Placed \ executions[i].errored :
            \E raw \in RawsOf(f, Scanners[i]) :
              x = Normalized(f, Scanners[i], DomainsOf(f), raw)
      BY <3>1
    <3>3. PICK raw \in RawsOf(f, Scanners[i]) :
            x = Normalized(f, Scanners[i], DomainsOf(f), raw)
      BY <3>2
    <3>4. x.scanner = Scanners[i] /\ x.raw = raw
      BY <3>3 DEF Normalized
    <3>5. /\ Home(raw.rule.id) = Scanners[i]
          /\ Scanners[i] # "unsupported_sensitive_file"
      BY RawsHaveHomes DEF PromiseInv, Good
    <3> QED BY <3>4, <3>5
  <2> QED BY <2>1
<1>4. \A x \in ScanSkippedFiles :
        /\ x.scanner = "unsupported_sensitive_file"
        /\ Home(x.raw.rule.id) = "unsupported_sensitive_file"
  <2>1. Home("SKIP-001") = "unsupported_sensitive_file"
    BY DEF Home, SecretIds, PiiIds, LoggingIds, AuditIds, PermissionIds, SqlIds,
       ConfigurationIds
  <2>2. \A skip : /\ SkipFinding(skip).scanner = "unsupported_sensitive_file"
                  /\ SkipFinding(skip).raw.rule.id = "SKIP-001"
    BY DEF SkipFinding, Normalized, RawFinding, Rule
  <2>3. \A x \in ScanSkippedFiles : \E skip : x = SkipFinding(skip)
    BY DEF ScanSkippedFiles
  <2> QED BY <2>1, <2>2, <2>3
<1>5. \A x : x \in told <=> x \in one /\ x \in findings
  BY <1>1, <1>2, <1>3, <1>4
<1>6. \A x, y : PlaceOf(x) = PlaceOf(y)
                  <=> SamePlace(x, y) /\ x.scanner = y.scanner
  BY DEF PlaceOf, Contract!Place, SamePlace
<1>7. ASSUME NEW g \in findings
      PROVE  \E x \in told : PlaceOf(x) = PlaceOf(g)
  <2>1. PICK x \in one : SamePlace(x, g)
    BY <1>1, <1>2
  <2>2. Home(x.raw.rule.id) = Home(g.raw.rule.id)
    BY <2>1 DEF SamePlace
  <2>3. x \in findings
    BY <1>1, <1>2, <1>3, <1>4, <2>2
  <2>4. x.scanner = g.scanner
    BY <1>3, <2>2, <2>3
  <2> QED BY <1>5, <1>6, <2>1, <2>3, <2>4
<1>8. \A p : p \in Contract!Reference(Placed, Failures) <=> \E x \in told : p = PlaceOf(x)
  BY <1>5, <1>7, WhatIsCalledFor
<1>9. IsFiniteSet(told)
  <2>1. told \in SUBSET findings
    BY <1>5
  <2> QED BY <2>1, FS_Subset DEF PromiseInv, TypeInv
<1> QED BY <1>2, <1>5, <1>6, <1>8, <1>9

LEMMA ReportIsHonest ==
  ASSUME PromiseInv, Good, phase = "scanned", NEW summary,
         summary = Summary(Deduplicate(findings \cup ScanSkippedFiles), TRUE)
  PROVE  Contract!Honest(summary)
<1>1. PICK one : one = Deduplicate(findings \cup ScanSkippedFiles)
  OBVIOUS
<1>2. /\ summary.findings = one /\ summary.failures = Failures
      /\ summary.filesScanned = Len(Inventory)
      /\ summary.filesSkipped = Len(walk.skipped)
      /\ summary.status = "completed" => ~walk.truncated
  BY <1>1 DEF Summary, Status
<1>3. PICK told : told = Contract!OfContents(summary)
  OBVIOUS
<1>4. \A x : x \in told <=> x \in one /\ x.scanner # "unsupported_sensitive_file"
  BY <1>2, <1>3 DEF Contract!OfContents
<1>5. PICK called : called = Contract!Reference(Placed, Failures)
  OBVIOUS
<1>6. /\ \A p : p \in called <=> \E x \in told : p = PlaceOf(x)
      /\ \A x, y \in told : PlaceOf(x) = PlaceOf(y) => x = y
      /\ IsFiniteSet(told)
  BY <1>1, <1>4, <1>5, ReportTells
<1>7. {Contract!Place(x.file, x.scanner, x.raw) : x \in told} = called
  BY <1>6 DEF PlaceOf
<1>8. Cardinality(told) = Cardinality(called)
  <2> DEFINE at == [x \in told |-> PlaceOf(x)]
  <2>1. at \in [told -> called]
    BY <1>6
  <2>2. \A x, y \in told : x # y => at[x] # at[y]
    BY <1>6
  <2>3. \A p \in called : \E x \in told : at[x] = p
    BY <1>6
  <2>4. at \in Bijection(told, called)
    <3> HIDE DEF at
    <3> QED BY <2>1, <2>2, <2>3, Fun_IsBij
  <2> HIDE DEF at
  <2> QED BY <1>6, <2>4, FS_Bijection DEF ExistsBijection
<1>9. Discovered
  BY DEF PromiseInv, StageInv, Stages
<1>10. /\ Contract!Walked = Placed \cup LeftOut
       /\ Contract!Admission(Placed)
       /\ ~walk.truncated => {f \in Contract!Walked : Contract!Eligible(f)} = Placed
  BY <1>9, AllIsWalked
<1>11. PICK placed, left : placed = Placed /\ left = LeftOut
  OBVIOUS
<1>12. /\ Cardinality(placed) = Len(Inventory) /\ Cardinality(left) = Len(walk.skipped)
       /\ placed \cap left = {} /\ IsFiniteSet(placed) /\ IsFiniteSet(left)
  BY <1>11 DEF PromiseInv, PlaceInv, EveryFileHasAPlace
<1>13. Cardinality(placed \cup left) = Len(Inventory) + Len(walk.skipped)
  <2>1. Cardinality(placed \cup left)
          = Cardinality(placed) + Cardinality(left) - Cardinality(placed \cap left)
    BY <1>12, FS_Union
  <2>2. Cardinality(placed \cap left) = 0
    BY <1>12, FS_EmptySet
  <2>3. Len(Inventory) \in Nat /\ Len(walk.skipped) \in Nat
    BY DEF PromiseInv, TypeInv, TypeOK, Inventory
  <2> QED BY <1>12, <2>1, <2>2, <2>3
<1>14. Contract!TellsWhatWasRead(summary, Placed)
  <2>1. /\ {Contract!Place(x.file, x.scanner, x.raw) : x \in Contract!OfContents(summary)}
             = Contract!Reference(Placed, summary.failures)
    BY <1>2, <1>3, <1>5, <1>7
  <2>2. Contract!Cardinality(Contract!OfContents(summary))
          = Contract!Cardinality(Contract!Reference(Placed, summary.failures))
    BY <1>2, <1>3, <1>5, <1>8, SameCount
  <2>3. /\ summary.filesScanned = Contract!Cardinality(Placed)
        /\ summary.filesScanned + summary.filesSkipped = Contract!Cardinality(Contract!Walked)
    BY <1>2, <1>10, <1>11, <1>12, <1>13, SameCount
  <2> QED BY <2>1, <2>2, <2>3 DEF Contract!TellsWhatWasRead
<1>15. Contract!NothingMissed(summary, Placed)
  BY <1>2, <1>10 DEF Contract!NothingMissed
<1>16. Placed \in SUBSET Contract!Walked
  BY <1>10
<1> QED BY <1>10, <1>14, <1>15, <1>16 DEF Contract!Honest

\* The report is the answer that the contract asks for.
LEMMA ReportAnswers ==
  ASSUME PromiseInv, Report
  PROVE  Contract!Answer
<1>1. /\ phase = "scanned" /\ phase' = "returning" /\ report = None /\ hashBefore # None
      /\ UNCHANGED <<treeVars, hashBefore>>
  BY DEF Report, PromiseInv, StageInv, Stages, Hashing
<1>2. PICK verified \in BOOLEAN : verified = (hashBefore = ComputeSourceIntegrityHash)
  OBVIOUS
<1>3. PICK summary : summary = report'
  OBVIOUS
<1>4. summary = Summary(Deduplicate(findings \cup ScanSkippedFiles), verified)
  BY <1>2, <1>3 DEF Report
<1>5. summary \in ReportOn(Files)
  BY <1>2, <1>4, ReportTyped DEF PromiseInv
<1>6. summary \notin {None, Raised}
  <2>1. scenario \in Scenarios
    BY DEF PromiseInv, TypeInv, TypeOK
  <2>2. None \notin ReportOn(Files) /\ Raised \notin ReportOn(Files)
    BY <2>1, NoneAssumption, RaisedAssumption DEF Files, Source
  <2> QED BY <1>5, <2>2
<1>7. summary.verified = verified /\ summary.failures = Failures
      /\ summary.status = Status(verified, Failures # {}, walk.truncated)
  BY <1>4 DEF Summary
<1>8. /\ summary.verified <=> summary.status # "failed"
      /\ summary.status = "completed" => summary.failures = {}
  BY <1>7 DEF Status
<1>9. summary.verified <=> hashBefore = Contract!ComputeSourceIntegrityHash
  BY <1>2, <1>7, SameWords
<1>10. ASSUME summary.verified, Contract!LinksAreSeen
       PROVE  Contract!Honest(summary)
  <2>1. Good
    BY <1>1, <1>2, <1>7, <1>10 DEF Good
  <2>2. summary = Summary(Deduplicate(findings \cup ScanSkippedFiles), TRUE)
    BY <1>2, <1>4, <1>7, <1>10
  <2> QED BY <1>1, <2>1, <2>2, ReportIsHonest
<1>11. PICK answer : answer = (IF phase = "raised" THEN Raised ELSE report)'
  OBVIOUS
<1>12. answer = summary /\ (IF phase = "raised" THEN Raised ELSE report) = None
  BY <1>1, <1>3, <1>11
<1>13. UNCHANGED <<scenario, disk, touched, hashBefore>>
  BY <1>1 DEF treeVars
<1> QED
  BY <1>1, <1>6, <1>8, <1>9, <1>10, <1>11, <1>12, <1>13 DEF Contract!Answer, Contract!treeVars

Answered == IF phase = "raised" THEN Raised ELSE report

\* A step that leaves the source, the hash and the answer alone is none of the
\* contract.
LEMMA NothingPromised ==
  ASSUME UNCHANGED treeVars, hashBefore' = hashBefore, Answered' = Answered
  PROVE  UNCHANGED Contract!contractVars
BY DEF Answered, treeVars, Contract!contractVars, Contract!treeVars

LEMMA AnswerStays ==
  ASSUME report' = report, phase' = "raised" <=> phase = "raised"
  PROVE  Answered' = Answered
BY DEF Answered

LEMMA RefusalAnswers ==
  ASSUME PromiseInv, phase' = "raised", phase \notin {"returning", "returned", "stopped", "raised"},
         UNCHANGED <<treeVars, hashBefore>>
  PROVE  Contract!Refuse
<1>1. report = None
  BY DEF PromiseInv, StageInv, Stages
<1> QED BY <1>1 DEF Contract!Refuse, Contract!treeVars, treeVars

LEMMA PromiseInit == Init => Contract!Init
<1> SUFFICES ASSUME Init PROVE Contract!Init
  OBVIOUS
<1>1. Contract!Source = Source
  BY SameWords
<1>2. /\ scenario \in Scenarios /\ disk = Source.disk /\ touched = {}
      /\ phase = "asked" /\ hashBefore = None /\ report = None
  BY DEF Init
<1> QED BY <1>1, <1>2 DEF Contract!Init

LEMMA PromiseOfIngest ==
  ASSUME PromiseInv, Ingest, UNCHANGED <<walk, scanVars>>
  PROVE  [Contract!Next]_Contract!contractVars
<1>1. /\ phase \in Unwalked /\ phase' \in Unwalked \cup {"raised"}
      /\ phase \notin {"returning", "returned", "stopped", "raised"}
      /\ hashBefore' = hashBefore /\ report' = report /\ hashBefore = None
  <2>1. phase \in Unwalked /\ phase' \in Unwalked \cup {"raised"}
    BY DEF Ingest, AcceptDirectory, RefuseSource, TempDirFails, MakeTempDir,
       ValidateMembers, RejectMembers, ExtractEntry, ExtractionFails, EndExtraction,
       Discard, Unwalked
  <2> QED BY <2>1 DEF Unwalked, scanVars, PromiseInv, StageInv, Stages
<1>2. CASE ExtractEntry
  <2>1. Answered' = Answered
    BY <1>1, <1>2, AnswerStays DEF ExtractEntry
  <2>2. scenario' = scenario /\ touched' = touched
    BY <1>2 DEF ExtractEntry
  <2>3. CASE disk' = disk
    BY <1>1, <2>1, <2>2, <2>3, NothingPromised DEF treeVars
  <2>4. CASE disk' # disk
    <3>1. Contract!SourceChanges
      BY <1>1, <2>1, <2>2, <2>4 DEF Contract!SourceChanges, Answered
    <3> QED BY <3>1 DEF Contract!Next
  <2> QED BY <2>3, <2>4
<1>3. CASE ~ExtractEntry
  <2>1. UNCHANGED treeVars
    BY <1>3, OnlyOwnersWrite
  <2>2. CASE phase' = "raised"
    <3>1. Contract!Refuse
      BY <1>1, <2>1, <2>2, RefusalAnswers
    <3> QED BY <3>1 DEF Contract!Next
  <2>3. CASE phase' # "raised"
    BY <1>1, <2>1, <2>3, AnswerStays, NothingPromised
  <2> QED BY <2>2, <2>3
<1> QED BY <1>2, <1>3

LEMMA PromiseOfScan ==
  ASSUME PromiseInv, RunScan
  PROVE  [Contract!Next]_Contract!contractVars
<1>1. CASE HashBefore
  <2>1. /\ phase = "accepted" /\ phase' = "discovering" /\ report' = report
        /\ hashBefore' = ComputeSourceIntegrityHash /\ UNCHANGED treeVars
        /\ hashBefore = None /\ report = None
    BY <1>1 DEF HashBefore, PromiseInv, StageInv, Stages, Unwalked
  <2>2. Contract!ComputeSourceIntegrityHash = ComputeSourceIntegrityHash
    BY SameWords
  <2>3. Contract!Begin
    BY <2>1, <2>2 DEF Contract!Begin, Contract!treeVars, treeVars
  <2> QED BY <2>3 DEF Contract!Next
<1>2. CASE Report
  BY <1>2, ReportAnswers DEF Contract!Next
<1>3. CASE Cleanup
  <2>1. UNCHANGED treeVars /\ hashBefore' = hashBefore
    BY <1>3 DEF Cleanup, scanVars
  <2>2. CASE phase = "raising"
    <3>1. phase' = "raised"
      BY <1>3, <2>2 DEF Cleanup, Discard
    <3>2. Contract!Refuse
      BY <2>1, <2>2, <3>1, RefusalAnswers
    <3> QED BY <3>2 DEF Contract!Next
  <2>3. CASE phase = "returning"
    <3>1. phase' = "returned" /\ report' = report
      BY <1>3, <2>3 DEF Cleanup, Discard, scanVars
    <3> QED BY <2>1, <2>3, <3>1, AnswerStays, NothingPromised
  <2> QED BY <1>3, <2>2, <2>3 DEF Cleanup
<1>4. CASE EndDiscovery \/ FileUnreadable \/ FileIsBinary \/ ScannerRaises \/ FileScanned
           \/ ScanCannotRun
  <2>1. /\ UNCHANGED treeVars /\ hashBefore' = hashBefore /\ report' = report
        /\ phase # "raised" /\ phase' # "raised"
    BY <1>4 DEF EndDiscovery, FileUnreadable, FileIsBinary, ScannerRaises, FileScanned,
       NextItem, ScanCannotRun, scanVars
  <2> QED BY <2>1, AnswerStays, NothingPromised
<1> QED BY <1>1, <1>2, <1>3, <1>4 DEF RunScan

\* Every step of the scan is a step of the contract, or none.
LEMMA PromiseNext ==
  ASSUME PromiseInv, [Next]_vars
  PROVE  [Contract!Next]_Contract!contractVars
<1>1. CASE Ingest /\ UNCHANGED <<walk, scanVars>>
  BY <1>1, PromiseOfIngest
<1>2. CASE RunScan
  BY <1>2, PromiseOfScan
<1>3. CASE \/ Discover /\ UNCHANGED scanVars
           \/ Stop
           \/ UNCHANGED vars
  <2>1. UNCHANGED treeVars /\ hashBefore' = hashBefore
    BY <1>3, OnlyOwnersWrite
  <2>2. report' = report /\ (phase' = "raised" <=> phase = "raised")
    BY <1>3 DEF Discover, EnterDirectory, SkipFile, AdmitFile, Stop, vars, ingestVars,
       scanVars, Ended
  <2> QED BY <2>1, <2>2, AnswerStays, NothingPromised
<1>4. CASE \E f \in Files : OwnerChanges(f)
  <2>1. PICK f \in Files : OwnerChanges(f)
    BY <1>4
  <2>2. PICK state \in Source.changes[f] \ {disk[f]} : disk' = [disk EXCEPT ![f] = state]
    BY <2>1 DEF OwnerChanges, Change
  <2>3. disk' # disk
    BY <2>2 DEF PromiseInv, TypeInv, TypeOK
  <2>4. /\ scenario' = scenario /\ ~IsArchive /\ hashBefore' = hashBefore
        /\ phase' = phase /\ report' = report
    BY <2>1 DEF OwnerChanges, Change, ingestVars, scanVars
  <2>5. ~Contract!IsArchive
    BY <2>4, SameWords
  <2>6. Contract!SourceChanges
    BY <2>3, <2>4, <2>5 DEF Contract!SourceChanges
  <2> QED BY <2>6 DEF Contract!Next
<1> QED BY <1>1, <1>2, <1>3, <1>4 DEF Next, Advance

\* The scan keeps its promise: whatever the source, the settings and the
\* scanners, and whichever files change meanwhile, each at most once, run_scan
\* answers with what the scanners find in the files that the settings admit, or
\* says that the source is not what it was.  It promises nothing of the findings
\* when a link that it follows leads where the hash does not look.
THEOREM ScanKeepsPromise == Spec => ImplementsContract
<1>1. PromiseInv /\ [Next]_vars => [Contract!Next]_Contract!contractVars
  BY PromiseNext
<1>2. Spec => []PromiseInv
  BY PromiseAlways
<1> QED BY <1>1, <1>2, PromiseInit, PTL DEF Spec, ImplementsContract, Contract!Spec
=============================================================================
