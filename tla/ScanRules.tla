------------------------------ MODULE ScanRules ------------------------------
(***************************************************************************)
(* The content scanners (scanners/rules/*.py) as functions of a text.  A   *)
(* text is a sequence of lines.  Of a line the scanners see the matches of *)
(* their patterns, the nth of a rule on that line being a match of its     *)
(* own, and the words that the audit heuristics look for.                  *)
(***************************************************************************)
EXTENDS Naturals, Sequences, FiniteSets

CONSTANT BodyWindowLines   \* _BODY_WINDOW_LINES of the audit scanner, 25

ASSUME BodyWindowAssumption == BodyWindowLines \in Nat \ {0}

Rule(id, severity, confidence) ==
  [id |-> id, severity |-> severity, confidence |-> confidence]

SecretRules == {Rule("SECRET-001", "HIGH", "MEDIUM")}

PiiRules ==
  {Rule("PII-EMAIL", "LOW", "LOW"), Rule("PII-PHONE", "LOW", "LOW"),
   Rule("PII-CARD_LIKE", "HIGH", "LOW"),
   Rule("PII-NATIONAL_ID_SHAPED", "HIGH", "LOW"),
   Rule("PII-DATE_OF_BIRTH", "MEDIUM", "LOW"),
   Rule("PII-ACCOUNT_NUMBER_FIELD", "HIGH", "LOW")}

\* One rule; the keyword that the call mentions makes it this severe.
LoggingRules ==
  {Rule("LOG-001", severity, "LOW") : severity \in {"CRITICAL", "HIGH", "MEDIUM"}}

PermissionRules ==
  {Rule("PERM-001", "CRITICAL", "MEDIUM"), Rule("PERM-006", "MEDIUM", "MEDIUM")}
    \cup {Rule(id, "HIGH", "MEDIUM") :
            id \in {"PERM-002", "PERM-003", "PERM-004", "PERM-005"}}

SqlRules ==
  {Rule("SQL-003", "MEDIUM", "MEDIUM")}
    \cup {Rule(id, "HIGH", "MEDIUM") :
            id \in {"SQL-001", "SQL-002", "SQL-004", "SQL-005"}}

ConfigurationRules ==
  {Rule("CFG-003", "CRITICAL", "MEDIUM")}
    \cup {Rule(id, "HIGH", "MEDIUM") : id \in {"CFG-002", "CFG-004", "CFG-007"}}
    \cup {Rule(id, "MEDIUM", "MEDIUM") : id \in {"CFG-001", "CFG-005", "CFG-006"}}
    \cup {Rule(id, "LOW", "MEDIUM") : id \in {"CFG-008", "CFG-009"}}

AuditDisabled == Rule("AUDIT-001", "HIGH", "HIGH")

SensitiveOpWithoutAudit == Rule("AUDIT-002", "MEDIUM", "LOW")

AuditRecordMissingFields == Rule("AUDIT-003", "LOW", "LOW")

\* Rules whose findings are matches; the other two of the audit scanner
\* report what they do not find.
MatchingRules ==
  SecretRules \cup PiiRules \cup LoggingRules \cup PermissionRules
    \cup SqlRules \cup ConfigurationRules \cup {AuditDisabled}

Match == [rule : MatchingRules, nth : {1, 2}]

AuditFieldHints ==
  {"user", "actor", "action", "timestamp", "correlation_id", "request_id"}

Words == {"sensitive_op", "audit_call", "audit"} \cup AuditFieldHints

Line == [matches : SUBSET Match, words : SUBSET Words]

\* nth tells apart what one rule reports twice of one line.
RawFinding(rule, first, last, nth) ==
  [rule |-> rule, first |-> first, last |-> last, nth |-> nth]

EachMatch(rules, text) ==
  UNION {{RawFinding(m.rule, l, l, m.nth) :
            m \in {x \in text[l].matches : x.rule \in rules}} : l \in DOMAIN text}

OncePerLine(rules, text) ==
  {[finding EXCEPT !.nth = 1] : finding \in EachMatch(rules, text)}

WordsFrom(text, l) ==
  UNION {text[k].words : k \in {i \in DOMAIN text : l <= i /\ i < l + BodyWindowLines}}

\* The last line reported; the one after the window that is searched.
BodyEnd(text, l) ==
  IF l + BodyWindowLines < Len(text) THEN l + BodyWindowLines ELSE Len(text)

OperationsWithoutAudit(text) ==
  {RawFinding(SensitiveOpWithoutAudit, l, BodyEnd(text, l), 1) :
     l \in {i \in DOMAIN text : /\ "sensitive_op" \in text[i].words
                                /\ "audit_call" \notin WordsFrom(text, i)}}

RecordsMissingFields(text) ==
  {RawFinding(AuditRecordMissingFields, l, BodyEnd(text, l), 1) :
     l \in {i \in DOMAIN text :
              /\ "audit" \in text[i].words
              /\ Cardinality(AuditFieldHints \cap WordsFrom(text, i)) < 2}}

SecretExposure(text) == OncePerLine(SecretRules, text)

PiiExposure(text) == OncePerLine(PiiRules, text)

UnsafeLogging(text) == EachMatch(LoggingRules, text)

AuditGap(text) ==
  EachMatch({AuditDisabled}, text) \cup OperationsWithoutAudit(text)
    \cup RecordsMissingFields(text)

BroadPermission(text) == EachMatch(PermissionRules, text)

UnsafeSql(text) == EachMatch(SqlRules, text)

InsecureConfiguration(text) == EachMatch(ConfigurationRules, text)

\* get_content_scanners, in their order.
ContentScanners ==
  <<"secret_exposure", "pii_exposure", "unsafe_logging", "audit_gap",
    "broad_permissions", "unsafe_sql", "insecure_configuration">>

Scan(scanner, text) ==
  CASE scanner = "secret_exposure" -> SecretExposure(text)
    [] scanner = "pii_exposure" -> PiiExposure(text)
    [] scanner = "unsafe_logging" -> UnsafeLogging(text)
    [] scanner = "audit_gap" -> AuditGap(text)
    [] scanner = "broad_permissions" -> BroadPermission(text)
    [] scanner = "unsafe_sql" -> UnsafeSql(text)
    [] scanner = "insecure_configuration" -> InsecureConfiguration(text)
=============================================================================
