----------------------- MODULE LifecycleReadersProofs -----------------------
(***************************************************************************)
(* Proofs about what others make of the tables: what the assistant tells   *)
(* of an assessment, and the abstract record that the tables implement.    *)
(***************************************************************************)
EXTENDS LifecycleDecisionsProofs

(***************************************************************************)
(* The inductive invariant of the assistant.                               *)
(***************************************************************************)
AgentActions ==
  {"explain_finding", "summarize_domain", "answer_question", "executive_summary"}

\* A context that is not cut short has everything that it is about.
ContextWhole(request, context) ==
  ~context.truncated =>
    /\ request.action = "explain_finding" => context.findings = {request.about}
    /\ request.action = "summarize_domain" =>
         context.findings = InDomain(Findings(request.scan), request.about)
    /\ request.action = "answer_question" =>
         context.findings = Findings(request.scan)
    /\ request.action = "executive_summary" =>
         context.scores = {} \/ {row.domain : row \in context.scores} = Domains

\* A summary is made of rows of its own domain.
ContextOfDomain(request, context) ==
  request.action = "summarize_domain" =>
    \A row \in context.scores : row.scan = request.scan /\ row.domain = request.about

AnswersTo(p, page) ==
  {i \in Answers : /\ audit[i].actor = p
                   /\ audit[i].scan = page.request.scan
                   /\ audit[i].about = page.response}

\* The overrides that a summary shows come before its answer.
SummaryRecorded(p, page) ==
  page.request.action = "summarize_domain" =>
    \A row \in page.context.scores : row.overrideOf # NoScore =>
      \E i \in OverridesOf(page.request.scan, page.request.about),
         j \in AnswersTo(p, page) :
        audit[i].about.new = row.at /\ i < j

\* What a page has, at each step on the way to the answer.
PageTells(p, page) ==
  /\ page.step # "waiting" => page.request.action \in AgentActions
  /\ page.step = "score_read" =>
       /\ page.score.scan = page.request.scan
       /\ page.score.domain = page.request.about
  /\ page.step \in {"asked", "shown"} =>
       /\ ContextWhole(page.request, page.context)
       /\ ContextOfDomain(page.request, page.context)
  /\ page.step = "shown" =>
       /\ page.response = Answer(page.request)
       /\ AnswersTo(p, page) # {}
       /\ SummaryRecorded(p, page)

PagesTell == \A p \in Askers : \A page \in {ask[p]} : PageTells(p, page)

(***************************************************************************)
(* Contexts.                                                               *)
(***************************************************************************)
LEMMA KeptWhole ==
  ASSUME NEW available, IsFiniteSet(available), NEW limit \in Nat,
         NEW kept \in Kept(available, limit), ~TruncatedByCount(available, limit)
  PROVE  kept = available
<1>1. Cardinality(available) \in Nat
  BY FS_CardinalityType
<1>2. kept \in SUBSET available /\ Cardinality(kept) = Cardinality(available)
  BY <1>1 DEF Kept, TruncatedByCount
<1> QED BY <1>2, FS_Subset

LEMMA LimitIsNatural ==
  ASSUME NEW setting \in AgentSettings
  PROVE  setting.maxItems \in Nat
BY AssistantAssumption DEF Setting

\* The score rows of a scan that has any are of every domain.
LEMMA RowsCoverDomains ==
  ASSUME LifecycleInv, NEW s \in Scans, NEW row \in RowsOf(s)
  PROVE  {r.domain : r \in RowsOf(s)} = Domains
<1>1. RowsOf(s) \subseteq ScoreRow
  BY DEF LifecycleInv, TablesTyped, RowsOf
<1>2. \A d \in Domains : \E r \in EngineRows(s) : r.domain = d
  <2>1. ~Stored(s) /\ ~Unsaved(s)
    BY DEF LifecycleInv, Stored, Unsaved, RowsOfScans, RowsOf
  <2> QED BY <2>1 DEF LifecycleInv, Progress, ProgressOf, Scored, Evaluated, HasScores
<1>3. EngineRows(s) \subseteq RowsOf(s)
  BY DEF EngineRows, RowsOf
<1> QED BY <1>1, <1>2, <1>3 DEF ScoreRow

LEMMA TablesTell ==
  ASSUME UNCHANGED tables, NEW p, NEW page, PageTells(p, page)
  PROVE  PageTells(p, page)'
BY DEF tables, PageTells, ContextWhole, ContextOfDomain, AnswersTo, Answers,
       SummaryRecorded, OverridesOf, Trail, Findings

LEMMA AskedTells ==
  ASSUME NEW p, NEW request, request.action \in AgentActions, NEW context,
         ContextWhole(request, context), ContextOfDomain(request, context)
  PROVE  PageTells(p, Asked(request, context))
BY DEF PageTells, Asked

\* A page that does not turn stays as right as it was.
LEMMA PageTellsStays ==
  ASSUME LifecycleInv, [Next]_vars, NEW p, NEW page, PageTells(p, page),
         page.step # "waiting" => page.request.scan \in scans
  PROVE  PageTells(p, page)'
<1>1. /\ \A i \in DOMAIN audit : i \in DOMAIN audit' /\ audit'[i] = audit[i]
      /\ \A s \in scans : Findings(s)' = Findings(s)
  BY NothingIsForgotten
<1>2. AnswersTo(p, page) \subseteq AnswersTo(p, page)'
  BY <1>1 DEF AnswersTo, Answers
<1>3. \A s, d : OverridesOf(s, d) \subseteq OverridesOf(s, d)'
  BY <1>1 DEF OverridesOf, Trail
<1>4. \A s, d : \A i \in OverridesOf(s, d) : audit'[i] = audit[i]
  BY <1>1 DEF OverridesOf, Trail
<1>5. SummaryRecorded(p, page) => SummaryRecorded(p, page)'
  BY <1>2, <1>3, <1>4 DEF SummaryRecorded
<1>6. page.step # "waiting" /\ ContextWhole(page.request, page.context)
        => ContextWhole(page.request, page.context)'
  BY <1>1 DEF ContextWhole
<1> QED BY <1>2, <1>5, <1>6 DEF PageTells, ContextOfDomain

\* An answer that is recorded is on the trail after all that it shows.
LEMMA RecordedTells ==
  ASSUME LifecycleInv, OverridesOnTrail, NEW p \in Askers, RecordAnswer(p),
         NEW page, page = ask[p], PageTells(p, page)
  PROVE  PageTells(p, [step |-> "shown", request |-> page.request,
                       context |-> page.context,
                       response |-> Answer(page.request)])'
<1>0. /\ TablesTyped /\ page.step = "asked"
      /\ page.context.scores \subseteq scores
  BY DEF LifecycleInv, RecordAnswer, AskAt, PagesTyped, PageGrounded, ContextTyped
<1>1. PICK next : next = [step |-> "shown", request |-> page.request,
                          context |-> page.context,
                          response |-> Answer(page.request)]
  OBVIOUS
<1>2. PICK e : e = AgentEvent(p, Answer(page.request))
  OBVIOUS
<1>3. Record(e) /\ UNCHANGED <<findings, scores>>
  BY <1>2 DEF RecordAnswer
<1>4. PICK K : K = Len(audit) + 1
  OBVIOUS
<1>5. /\ audit'[K] = e /\ K \in DOMAIN audit'
      /\ \A i \in DOMAIN audit : i \in DOMAIN audit' /\ audit'[i] = audit[i] /\ i < K
  <2>1. /\ Len(audit) \in Nat /\ DOMAIN audit = 1 .. Len(audit)
        /\ DOMAIN audit' = 1 .. (Len(audit) + 1)
        /\ \A i \in DOMAIN audit : audit'[i] = audit[i]
        /\ audit'[Len(audit) + 1] = e
    BY <1>0, <1>3, TrailIsAppended
  <2> QED BY <1>4, <2>1
<1>6. /\ e.type = "AGENT_ACTION" /\ e.actor = p /\ e.scan = page.request.scan
      /\ e.about = Answer(page.request)
  BY <1>2 DEF AgentEvent
<1>7. K \in AnswersTo(p, next)'
  BY <1>1, <1>5, <1>6 DEF AnswersTo, Answers
<1>8. SummaryRecorded(p, next)'
  <2>1. SUFFICES ASSUME next.request.action = "summarize_domain",
                        NEW row \in next.context.scores, row.overrideOf # NoScore
        PROVE  \E i \in OverridesOf(next.request.scan, next.request.about)' :
                 audit'[i].about.new = row.at /\ i < K
    BY <1>7 DEF SummaryRecorded
  <2>2. /\ row \in scores /\ row.scan = next.request.scan
        /\ row.domain = next.request.about
    BY <1>0, <1>1, <2>1 DEF PageTells, ContextOfDomain
  <2>3. PICK i \in OverridesOf(row.scan, row.domain) : audit[i].about.new = row.at
    BY <2>1, <2>2 DEF OverridesOnTrail, RowHasOverride, RecordedAt
  <2>4. i \in DOMAIN audit
    BY DEF OverridesOf, Trail
  <2>5. i \in OverridesOf(row.scan, row.domain)'
    BY <1>5, <2>3, <2>4 DEF OverridesOf, Trail
  <2> QED BY <1>5, <2>2, <2>3, <2>4, <2>5
<1>9. /\ ContextWhole(next.request, next.context)'
      /\ ContextOfDomain(next.request, next.context)'
      /\ next.request.action \in AgentActions
  BY <1>0, <1>1, <1>3 DEF PageTells, ContextWhole, ContextOfDomain, Findings
<1>10. next.step = "shown" /\ next.response = Answer(next.request)
  BY <1>1
<1> QED BY <1>1, <1>7, <1>8, <1>9, <1>10 DEF PageTells

\* Every step of a page leaves it right, whatever it had read before.
LEMMA AskerStepTells ==
  ASSUME LifecycleInv, OverridesOnTrail, NEW p \in Askers, AskerStep(p),
         NEW page, page = ask[p], PageTells(p, page),
         NEW next, next = ask'[p]
  PROVE  PageTells(p, next)'
<1>0. PagesTyped /\ TablesTyped /\ RowsOfScans /\ scans \subseteq Scans
  BY DEF LifecycleInv, TablesTyped
<1>1. ASSUME NEW q, Turn(p, q) PROVE next = q
  BY <1>0, <1>1, PageTurns
<1>2. ASSUME NEW request, request.action \in AgentActions, NEW context,
             ContextWhole(request, context), ContextOfDomain(request, context),
             Turn(p, Asked(request, context)), UNCHANGED tables
      PROVE  PageTells(p, next)'
  BY <1>1, <1>2, AskedTells, TablesTell
<1>3. CASE ExplainFinding(p)
  <2>1. PICK s \in scans, setting \in AgentSettings : \E f \in Findings(s) :
          Turn(p, Asked(Request(s, setting, "explain_finding", f),
                        Context({}, {f}, FALSE)))
    BY <1>3 DEF ExplainFinding
  <2>2. PICK f \in Findings(s) :
          Turn(p, Asked(Request(s, setting, "explain_finding", f),
                        Context({}, {f}, FALSE)))
    BY <2>1
  <2>3. PICK request, context : /\ request = Request(s, setting, "explain_finding", f)
                                /\ context = Context({}, {f}, FALSE)
    OBVIOUS
  <2>4. /\ request.action \in AgentActions
        /\ ContextWhole(request, context) /\ ContextOfDomain(request, context)
    BY <2>3 DEF Request, Context, AgentActions, ContextWhole, ContextOfDomain
  <2> QED BY <1>2, <1>3, <2>2, <2>3, <2>4 DEF ExplainFinding
<1>4. CASE SummarizeDomain(p)
  <2>1. PICK s \in scans, setting \in AgentSettings, d \in Domains :
          \E row \in ScoresOf(s, d) :
            Turn(p, [step |-> "score_read", score |-> row,
                     request |-> Request(s, setting, "summarize_domain", d)])
    BY <1>4 DEF SummarizeDomain
  <2>2. PICK row \in ScoresOf(s, d) :
          Turn(p, [step |-> "score_read", score |-> row,
                   request |-> Request(s, setting, "summarize_domain", d)])
    BY <2>1
  <2>3. next = [step |-> "score_read", score |-> row,
                request |-> Request(s, setting, "summarize_domain", d)]
    BY <1>1, <2>2
  <2>4. PageTells(p, next)
    BY <2>3 DEF PageTells, Request, AgentActions, ScoresOf
  <2> QED BY <1>4, <2>4, TablesTell DEF SummarizeDomain
<1>5. CASE ReadDomainFindings(p)
  <2> DEFINE request == page.request
             available == InDomain(Findings(request.scan), request.about)
             limit == request.setting.maxItems
  <2>1. /\ page.step = "score_read" /\ RequestTyped(request)
        /\ request.action = "summarize_domain"
    BY <1>0, <1>5 DEF ReadDomainFindings, AskAt, PagesTyped, PageGrounded
  <2>2. PICK kept \in Kept(available, limit) :
          Turn(p, Asked(request, Context({page.score}, kept,
                                         TruncatedByCount(available, limit))))
    BY <1>5 DEF ReadDomainFindings
  <2>3. IsFiniteSet(available) /\ limit \in Nat
    BY <1>0, <2>1, FS_Subset, LimitIsNatural DEF InDomain, RequestTyped, RowsOfScans
  <2>4. PICK context : context = Context({page.score}, kept,
                                         TruncatedByCount(available, limit))
    OBVIOUS
  <2>5. ~context.truncated => context.findings = available
    BY <2>3, <2>4, KeptWhole DEF Context
  <2>6. context.scores = {page.score}
    BY <2>4 DEF Context
  <2>7. request.action \in AgentActions /\ ContextWhole(request, context)
    BY <2>1, <2>5 DEF AgentActions, ContextWhole
  <2>8. ContextOfDomain(request, context)
    BY <2>1, <2>6 DEF ContextOfDomain, PageTells
  <2>9. Turn(p, Asked(request, context)) /\ UNCHANGED tables
    BY <1>5, <2>2, <2>4 DEF ReadDomainFindings
  <2> HIDE DEF request
  <2> QED BY <1>2, <2>7, <2>8, <2>9
<1>6. CASE AnswerQuestion(p)
  <2>1. PICK s \in scans, setting \in AgentSettings :
          \E kept \in Kept(Findings(s), setting.maxItems) :
            Turn(p, Asked(Request(s, setting, "answer_question", "a safe question"),
                          Context({}, kept,
                                  TruncatedByCount(Findings(s), setting.maxItems))))
    BY <1>6 DEF AnswerQuestion
  <2>2. PICK kept \in Kept(Findings(s), setting.maxItems) :
          Turn(p, Asked(Request(s, setting, "answer_question", "a safe question"),
                        Context({}, kept,
                                TruncatedByCount(Findings(s), setting.maxItems))))
    BY <2>1
  <2>3. PICK request, context :
          /\ request = Request(s, setting, "answer_question", "a safe question")
          /\ context = Context({}, kept, TruncatedByCount(Findings(s), setting.maxItems))
    OBVIOUS
  <2>4. IsFiniteSet(Findings(s)) /\ setting.maxItems \in Nat
    BY <1>0, LimitIsNatural DEF RowsOfScans
  <2>5. ~context.truncated => context.findings = Findings(s)
    BY <2>3, <2>4, KeptWhole DEF Context
  <2>6. request.action = "answer_question" /\ request.scan = s
    BY <2>3 DEF Request
  <2>7. request.action \in AgentActions /\ ContextWhole(request, context)
    BY <2>5, <2>6 DEF AgentActions, ContextWhole
  <2>8. ContextOfDomain(request, context)
    BY <2>6 DEF ContextOfDomain
  <2>9. Turn(p, Asked(request, context)) /\ UNCHANGED tables
    BY <1>6, <2>2, <2>3 DEF AnswerQuestion
  <2> QED BY <1>2, <2>7, <2>8, <2>9
<1>7. CASE ExecutiveSummary(p)
  <2>1. PICK s \in scans, setting \in AgentSettings :
          \E kept \in Kept(RowsOf(s), setting.maxItems) :
            Turn(p, Asked(Request(s, setting, "executive_summary", "every domain"),
                          Context(kept, {},
                                  TruncatedByCount(RowsOf(s), setting.maxItems))))
    BY <1>7 DEF ExecutiveSummary, RowsOf
  <2>2. PICK kept \in Kept(RowsOf(s), setting.maxItems) :
          Turn(p, Asked(Request(s, setting, "executive_summary", "every domain"),
                        Context(kept, {},
                                TruncatedByCount(RowsOf(s), setting.maxItems))))
    BY <2>1
  <2>3. PICK request, context :
          /\ request = Request(s, setting, "executive_summary", "every domain")
          /\ context = Context(kept, {}, TruncatedByCount(RowsOf(s), setting.maxItems))
    OBVIOUS
  <2>4. IsFiniteSet(RowsOf(s)) /\ setting.maxItems \in Nat
    BY <1>0, LimitIsNatural, FS_Subset DEF RowsOfScans, RowsOf
  <2>5. ~context.truncated => context.scores = RowsOf(s)
    BY <2>3, <2>4, KeptWhole DEF Context
  <2>6. RowsOf(s) = {} \/ {row.domain : row \in RowsOf(s)} = Domains
    BY <1>0, RowsCoverDomains
  <2>7. request.action = "executive_summary"
    BY <2>3 DEF Request
  <2>8. request.action \in AgentActions /\ ContextWhole(request, context)
    BY <2>5, <2>6, <2>7 DEF AgentActions, ContextWhole
  <2>9. ContextOfDomain(request, context)
    BY <2>7 DEF ContextOfDomain
  <2>10. Turn(p, Asked(request, context)) /\ UNCHANGED tables
    BY <1>7, <2>2, <2>3 DEF ExecutiveSummary
  <2> QED BY <1>2, <2>8, <2>9, <2>10
<1>8. CASE RecordAnswer(p)
  <2>1. PICK shown : shown = [step |-> "shown", request |-> page.request,
                              context |-> page.context,
                              response |-> Answer(page.request)]
    OBVIOUS
  <2>2. Turn(p, shown)
    BY <1>8, <2>1 DEF RecordAnswer
  <2>3. next = shown
    BY <1>1, <2>2
  <2> QED BY <1>8, <2>1, <2>3, RecordedTells
<1>9. CASE AskFails(p)
  <2>1. next = Waiting /\ UNCHANGED tables
    BY <1>1, <1>9 DEF AskFails
  <2>2. PageTells(p, next)
    BY <2>1 DEF Waiting, PageTells
  <2> QED BY <2>1, <2>2, TablesTell
<1> QED BY <1>3, <1>4, <1>5, <1>6, <1>7, <1>8, <1>9 DEF AskerStep

\* A page turns by a step of its own.
LEMMA PageChanges ==
  ASSUME LifecycleInv, [Next]_vars, NEW p \in Askers
  PROVE  ask'[p] = ask[p] \/ AskerStep(p)
<1>1. ASSUME NEW q \in Askers \ {p}, NEW page, Turn(q, page)
      PROVE  ask'[p] = ask[p]
  BY <1>1, PageTurns DEF LifecycleInv
<1>2. ASSUME NEW q \in Askers \ {p}, AskerStep(q)
      PROVE  ask'[p] = ask[p]
  <2>1. \E page : Turn(q, page)
    BY <1>2 DEF AskerStep, ExplainFinding, SummarizeDomain, ReadDomainFindings,
                AnswerQuestion, ExecutiveSummary, RecordAnswer, AskFails
  <2> QED BY <1>1, <2>1
<1>3. CASE UNCHANGED ask
  BY <1>3
<1>4. CASE \E q \in Askers : AskerStep(q)
  BY <1>2, <1>4
<1> QED BY <1>3, <1>4 DEF Next, vars

LEMMA PagesTellStep ==
  ASSUME DecisionsInv, PagesTell, [Next]_vars
  PROVE  PagesTell'
<1>1. SUFFICES ASSUME NEW p \in Askers, NEW next, next = ask'[p]
      PROVE  PageTells(p, next)'
  BY DEF PagesTell
<1>2. PICK page : page = ask[p]
  OBVIOUS
<1>3. /\ PageTells(p, page)
      /\ page.step # "waiting" => page.request.scan \in scans
  BY <1>2 DEF PagesTell, DecisionsInv, LifecycleInv, PagesTyped, PageGrounded, RequestTyped
<1>4. CASE next = page
  BY <1>3, <1>4, PageTellsStays DEF DecisionsInv
<1>5. CASE AskerStep(p)
  BY <1>1, <1>2, <1>3, <1>5, AskerStepTells DEF DecisionsInv
<1> QED BY <1>1, <1>2, <1>4, <1>5, PageChanges DEF DecisionsInv

(***************************************************************************)
(* What the assistant tells.                                               *)
(***************************************************************************)
\* At all times every page has of its request what its step calls for.
THEOREM PagesAlwaysTell == Spec => []PagesTell
<1>1. Init => PagesTell
  BY DEF Init, AssistantInit, PagesTell, PageTells, Waiting
<1>2. DecisionsInv /\ PagesTell /\ [Next]_vars => PagesTell'
  BY PagesTellStep
<1> QED BY DecisionsInvariant, <1>1, <1>2, PTL DEF Spec

\* A provider other than the local mode is tried if everything allows it.
LEMMA ProvidersAllowed ==
  ASSUME NEW request
  PROVE  LET setting == request.setting
             response == Answer(request)
         IN  /\ response.provider # Local <=>
                  /\ setting.enabled /\ setting.external
                  /\ setting.provider \in ProviderNames \cap setting.flags \cap setting.keys
             /\ response.success <=> response.provider = Local
BY DEF Answer, Fallback, Response, GetAgentProvider, GetProvider, Local, ProviderNames

\* Whoever reads an answer finds it on the trail under their name, and it
\* says which provider was tried, one only that every setting allows.
THEOREM AnswersAreAlwaysOnTrail == Spec => []AnswersAreOnTrail
<1>1. ASSUME PagesTell PROVE AnswersAreOnTrail
  <2>1. SUFFICES ASSUME NEW p \in Askers, NEW page, page = ask[p], page.step = "shown"
        PROVE  LET setting == page.request.setting
                   response == page.response
               IN  /\ TheirAnswers(p) # {}
                   /\ response.provider # Local <=>
                        /\ setting.enabled /\ setting.external
                        /\ setting.provider \in
                             ProviderNames \cap setting.flags \cap setting.keys
                   /\ response.success <=> response.provider = Local
    BY DEF AnswersAreOnTrail, Shown, AskAt
  <2>2. page.response = Answer(page.request) /\ AnswersTo(p, page) # {}
    BY <1>1, <2>1 DEF PagesTell, PageTells
  <2>3. TheirAnswers(p) # {}
    BY <2>1, <2>2 DEF TheirAnswers, AnswersTo
  <2> QED BY <2>2, <2>3, ProvidersAllowed
<1> QED BY PagesAlwaysTell, <1>1, PTL

\* A summary of a domain that shows an override comes after that override on
\* the trail, though it was read before in a session of its own.
THEOREM SummariesAreAlwaysOnTrail == Spec => []SummariesAreOnTrail
<1>1. ASSUME PagesTell PROVE SummariesAreOnTrail
  <2>1. SUFFICES ASSUME NEW p \in Askers, NEW page, page = ask[p], page.step = "shown",
                        page.request.action = "summarize_domain",
                        NEW row \in page.context.scores, row.overrideOf # NoScore
        PROVE  \E i \in OverridesOf(page.request.scan, page.request.about),
                  j \in TheirAnswers(p) : audit[i].about.new = row.at /\ i < j
    BY DEF SummariesAreOnTrail, Shown, AskAt
  <2>2. SummaryRecorded(p, page)
    BY <1>1, <2>1 DEF PagesTell, PageTells
  <2>3. TheirAnswers(p) = AnswersTo(p, page)
    BY <2>1 DEF TheirAnswers, AnswersTo
  <2> QED BY <2>1, <2>2, <2>3 DEF SummaryRecorded
<1> QED BY PagesAlwaysTell, <1>1, PTL

\* An answer that leaves out a finding or a domain that it is about says so,
\* whatever the item limit and whatever was stored since it was read.
THEOREM OmissionsAreAlwaysTold == Spec => []OmissionsAreTold
<1>1. ASSUME PagesTell PROVE OmissionsAreTold
  <2>1. SUFFICES ASSUME NEW p \in Askers, NEW page, page = ask[p], page.step = "shown",
                        ~page.context.truncated
        PROVE  CASE page.request.action = "explain_finding" ->
                      page.context.findings = {page.request.about}
                 [] page.request.action = "summarize_domain" ->
                      page.context.findings =
                        InDomain(Findings(page.request.scan), page.request.about)
                 [] page.request.action = "answer_question" ->
                      page.context.findings = Findings(page.request.scan)
                 [] page.request.action = "executive_summary" ->
                      page.context.scores # {} =>
                        {row.domain : row \in page.context.scores} = Domains
    BY DEF OmissionsAreTold, Shown, AskAt
  <2>2. page.request.action \in AgentActions /\ ContextWhole(page.request, page.context)
    BY <1>1, <2>1 DEF PagesTell, PageTells
  <2> QED BY <2>1, <2>2 DEF ContextWhole, AgentActions
<1> QED BY PagesAlwaysTell, <1>1, PTL

(***************************************************************************)
(* The abstract record.                                                    *)
(***************************************************************************)
LEMMA EvaluationsOfSomeDomain ==
  ASSUME NEW fs, NEW mapped
  PROVE  EvaluateAllDomains(fs, mapped) # {}
<1>1. PICK d \in Domains : TRUE
  BY DomainsAssumption
<1>2. PICK c \in ControlsForDomain(d) : TRUE
  BY SomeControlForDomain
<1>3. EvaluateDomain(InDomain(fs, d), d, d \in mapped) # {}
  BY <1>2 DEF EvaluateDomain
<1> QED BY <1>3 DEF EvaluateAllDomains

LEMMA StageOfTables ==
  ASSUME LifecycleInv, NEW s \in Scans
  PROVE  /\ Unsaved(s) => Stage(s) = "absent"
         /\ Stored(s) => Stage(s) = "stored"
         /\ Scored(s) => Stage(s) = "judged"
         /\ Evaluated(s) /\ Trail("ASSESSMENT_COMPLETED", s) = {} => Stage(s) = "evaluated"
         /\ Trail("ASSESSMENT_COMPLETED", s) # {} => Stage(s) = "concluded"
<1>1. Trail("ASSESSMENT_COMPLETED", s) # {} => Evaluated(s)
  BY DEF LifecycleInv, Completion, CompletionOf
<1>2. Evaluated(s) => evaluations[s] # {}
  BY EvaluationsOfSomeDomain DEF Evaluated
<1>3. HasScores(s) => ScoredDomains(s) # {}
  BY DomainsAssumption DEF HasScores, ScoredDomains, ScoresOf, EngineRows
<1>4. ScoredDomains(s) # {} => s \in scans /\ RowsOf(s) # {}
  BY DEF ScoredDomains, ScoresOf, RowsOf, LifecycleInv, RowsOfScans
<1> QED BY <1>1, <1>2, <1>3, <1>4 DEF Stage, Unsaved, Stored, Scored, Evaluated

\* A scan whose rows no step touches stays at its stage and keeps its verdicts.
LEMMA StageStays ==
  ASSUME NEW s, s \in scans' <=> s \in scans, evaluations'[s] = evaluations[s],
         ScoredDomains(s)' = ScoredDomains(s),
         Trail("ASSESSMENT_COMPLETED", s)' = Trail("ASSESSMENT_COMPLETED", s)
  PROVE  Stage(s)' = Stage(s)
BY DEF Stage

LEMMA VerdictStays ==
  ASSUME NEW s, \A d : ScoresOf(s, d)' = ScoresOf(s, d)
  PROVE  Verdict(s)' = Verdict(s) /\ ScoredDomains(s)' = ScoredDomains(s)
BY DEF Verdict, EffectiveScore, ScoredDomains

LEMMA RecordInit == Init => TheRecord!Init
<1> SUFFICES ASSUME Init PROVE TheRecord!Init
  OBVIOUS
<1>1. /\ scans = {} /\ scores = {} /\ audit = <<>>
      /\ findings = [s \in Scans |-> <<>>] /\ evaluations = [s \in Scans |-> {}]
  BY DEF Init, PipelineInit
<1>2. ASSUME NEW s \in Scans PROVE Stage(s) = "absent" /\ Verdict(s) = <<>>
  <2>1. ScoredDomains(s) = {}
    BY <1>1 DEF ScoredDomains, ScoresOf
  <2>2. Trail("ASSESSMENT_COMPLETED", s) = {}
    BY <1>1 DEF Trail
  <2> QED BY <1>1, <2>1, <2>2 DEF Stage, Verdict
<1> QED BY <1>1, <1>2 DEF TheRecord!Init

\* The score in force of a scored domain is one of its rows.
LEMMA VerdictsTyped ==
  ASSUME TablesTyped', ScoresOrdered', NEW s \in Scans
  PROVE  Verdict(s)' \in [ScoredDomains(s)' -> Categories]
<1>1. ASSUME NEW d \in ScoredDomains(s)'
      PROVE  EffectiveScore(s, d)'.category \in Categories
  <2>1. PICK rows : rows = ScoresOf(s, d)'
    OBVIOUS
  <2>2. /\ \A row \in rows : row \in ScoreRow /\ row.overrideOf < row.at
        /\ \A a, b \in rows : a.at = b.at => a = b
        /\ \E top \in rows : \A row \in rows : row.at <= top.at
    BY <1>1, <2>1 DEF ScoresOf, TablesTyped, ScoresOrdered
  <2>3. PICK top \in rows : \A row \in rows : row.at <= top.at
    BY <2>2
  <2>4. top.at \notin Superseded(rows)
    BY <2>2, <2>3 DEF Superseded, ScoreRow
  <2>5. Latest({row \in rows : row.at \notin Superseded(rows)}) \in rows
    BY <2>3, <2>4 DEF Latest
  <2>6. EffectiveScore(s, d)' \in rows
    BY <2>1, <2>5 DEF EffectiveScore
  <2> QED BY <2>2, <2>6 DEF ScoreRow
<1> QED BY <1>1 DEF Verdict

\* A step of one run leaves the record of every other scan.
LEMMA OtherRecordsStay ==
  ASSUME LifecycleInv, [Next]_vars, NEW r \in Scans, NEW s \in Scans \ {r},
         Save(r) \/ ScoreAndGenerate(r) \/ Evaluate(r) \/ Complete(r),
         UNCHANGED op
  PROVE  Stage(s)' = Stage(s) /\ Verdict(s)' = Verdict(s)
<1>0. TablesTyped
  BY DEF LifecycleInv
<1>1. s \in scans' <=> s \in scans
  BY DEF Save, ScoreAndGenerate, Evaluate, Complete, Report
<1>2. evaluations'[s] = evaluations[s]
  BY <1>0 DEF Save, ScoreAndGenerate, Evaluate, Complete, Report, TablesTyped
<1>3. \A d : ScoresOf(s, d)' = ScoresOf(s, d)
  <2>1. CASE ScoreAndGenerate(r)
    BY <2>1, NewRowsTyped, NothingIsForgotten DEF ScoresOf
  <2>2. CASE scores' = scores
    BY <2>2 DEF ScoresOf
  <2> QED BY <2>1, <2>2 DEF Save, Evaluate, Complete, Report
<1>4. Trail("ASSESSMENT_COMPLETED", s)' = Trail("ASSESSMENT_COMPLETED", s)
  <2>1. CASE Complete(r)
    <3>1. PICK e : Record(e) /\ e.scan = r
      BY <2>1 DEF Complete, Report, SystemEvent
    <3> QED BY <1>0, <3>1, TrailOfKind
  <2>2. CASE audit' = audit
    BY <2>2 DEF Trail
  <2> QED BY <2>1, <2>2 DEF Save, ScoreAndGenerate, Evaluate
<1> QED BY <1>1, <1>2, <1>3, <1>4, StageStays, VerdictStays

\* The record of one scan moves to a stage, and the verdicts stay.
LEMMA StageMoves ==
  ASSUME NEW r \in Scans, NEW from, NEW to, Stage(r) = from, Stage(r)' = to,
         Verdict(r)' = Verdict(r),
         \A s \in Scans \ {r} : Stage(s)' = Stage(s) /\ Verdict(s)' = Verdict(s)
  PROVE  /\ [s \in Scans |-> Stage(s)][r] = from
         /\ [s \in Scans |-> Stage(s)]' = [[s \in Scans |-> Stage(s)] EXCEPT ![r] = to]
         /\ [s \in Scans |-> Verdict(s)]' = [s \in Scans |-> Verdict(s)]
OBVIOUS

LEMMA SaveStores ==
  ASSUME LifecycleInv, [Next]_vars, NEW r \in Scans, Save(r), UNCHANGED op
  PROVE  TheRecord!Store(r)
<1>0. TablesTyped /\ RunsTyped /\ ProgressOf(r)
  BY DEF LifecycleInv, Progress
<1>1. Unsaved(r)
  BY <1>0 DEF ProgressOf, Save, At
<1>2. Stage(r) = "absent"
  BY <1>1, StageOfTables
<1>3. Stored(r)'
  BY <1>0, <1>1 DEF Stored, Unsaved, Save, RowsOf, LifecycleInv, RowsOfScans
<1>4. /\ \A d : ScoresOf(r, d)' = ScoresOf(r, d)
      /\ Trail("ASSESSMENT_COMPLETED", r) = {} /\ audit' = audit
  BY <1>1 DEF Save, ScoresOf, LifecycleInv, RowsOfScans, Unsaved, Trail
<1>5. Stage(r)' = "stored"
  <2>1. ScoredDomains(r)' = {}
    BY <1>3 DEF Stored, RowsOf, ScoredDomains, ScoresOf
  <2>2. Trail("ASSESSMENT_COMPLETED", r)' = {}
    BY <1>4 DEF Trail
  <2> QED BY <1>3, <2>1, <2>2 DEF Stage, Stored
<1>6. \A s \in Scans \ {r} : Stage(s)' = Stage(s) /\ Verdict(s)' = Verdict(s)
  BY OtherRecordsStay
<1>7. Verdict(r)' = Verdict(r)
  BY <1>4, VerdictStays
<1>8. /\ run[r].found \in SUBSET ScanFindings
      /\ findings' = [findings EXCEPT ![r] =
           [f \in run[r].found |-> [status |-> "PENDING", reviewer |-> "nobody"]]]
  BY <1>0 DEF RunsTyped, Run, Save, Unreviewed
<1> QED BY <1>2, <1>5, <1>6, <1>7, <1>8, StageMoves DEF TheRecord!Store

LEMMA EvaluateEvaluates ==
  ASSUME LifecycleInv, [Next]_vars, NEW r \in Scans, Evaluate(r), UNCHANGED op
  PROVE  TheRecord!Evaluate(r)
<1>0. TablesTyped /\ ProgressOf(r) /\ CompletionOf(r)
  BY DEF LifecycleInv, Progress, Completion
<1>1. Scored(r) /\ Trail("ASSESSMENT_COMPLETED", r) = {}
  BY <1>0 DEF ProgressOf, CompletionOf, Evaluate, At
<1>2. Stage(r) = "judged"
  BY <1>1, StageOfTables
<1>3. Stage(r)' = "evaluated"
  <2>1. evaluations'[r] # {}
    BY <1>0, EvaluationsOfSomeDomain DEF Evaluate, TablesTyped
  <2>2. Trail("ASSESSMENT_COMPLETED", r)' = {}
    BY <1>1 DEF Evaluate, Trail
  <2> QED BY <2>1, <2>2 DEF Stage
<1>4. \A s \in Scans \ {r} : Stage(s)' = Stage(s) /\ Verdict(s)' = Verdict(s)
  BY OtherRecordsStay
<1>5. Verdict(r)' = Verdict(r) /\ findings' = findings
  BY VerdictStays DEF Evaluate, ScoresOf
<1> QED BY <1>2, <1>3, <1>4, <1>5, StageMoves DEF TheRecord!Evaluate

LEMMA CompleteConcludes ==
  ASSUME LifecycleInv, [Next]_vars, NEW r \in Scans, Complete(r), UNCHANGED op
  PROVE  TheRecord!Conclude(r)
<1>0. TablesTyped /\ ProgressOf(r) /\ CompletionOf(r)
  BY DEF LifecycleInv, Progress, Completion
<1>1. Evaluated(r) /\ Trail("ASSESSMENT_COMPLETED", r) = {}
  BY <1>0 DEF ProgressOf, CompletionOf, Complete, Report, At
<1>2. Stage(r) = "evaluated"
  BY <1>1, StageOfTables
<1>3. Stage(r)' = "concluded"
  <2>1. PICK e : Record(e) /\ e.type = "ASSESSMENT_COMPLETED" /\ e.scan = r
    BY DEF Complete, Report, SystemEvent
  <2>2. Trail("ASSESSMENT_COMPLETED", r)' # {}
    BY <1>0, <2>1, TrailOfKind
  <2> QED BY <2>2 DEF Stage
<1>4. \A s \in Scans \ {r} : Stage(s)' = Stage(s) /\ Verdict(s)' = Verdict(s)
  BY OtherRecordsStay
<1>5. Verdict(r)' = Verdict(r) /\ findings' = findings
  BY VerdictStays DEF Complete, Report, ScoresOf
<1> QED BY <1>2, <1>3, <1>4, <1>5, StageMoves DEF TheRecord!Conclude

LEMMA ScoreJudges ==
  ASSUME LifecycleInv, [Next]_vars, NEW r \in Scans, ScoreAndGenerate(r), UNCHANGED op
  PROVE  TheRecord!Judge(r)
<1>0. TablesTyped /\ ProgressOf(r) /\ CompletionOf(r)
  BY DEF LifecycleInv, Progress, Completion
<1>1. Stored(r) /\ Trail("ASSESSMENT_COMPLETED", r) = {}
  BY <1>0 DEF ProgressOf, CompletionOf, ScoreAndGenerate, At
<1>2. Stage(r) = "stored"
  BY <1>1, StageOfTables
<1>3. ScoredDomains(r)' = Domains
  <2>1. ASSUME NEW d \in Domains PROVE ScoresOf(r, d)' # {}
    <3> DEFINE new == [scan |-> r, domain |-> d,
                       category |-> ScoreAllDomains(ScoredFrom(r), mappings[r])[d],
                       at |-> clock, overrideOf |-> NoScore]
    <3>1. new \in scores'
      BY DEF ScoreAndGenerate
    <3>2. new.scan = r /\ new.domain = d
      OBVIOUS
    <3> HIDE DEF new
    <3> QED BY <3>1, <3>2 DEF ScoresOf
  <2> QED BY <2>1 DEF ScoredDomains
<1>4. Stage(r)' = "judged"
  <2>1. evaluations'[r] = {} /\ Trail("ASSESSMENT_COMPLETED", r)' = {}
    BY <1>1 DEF Stored, ScoreAndGenerate, Trail
  <2> QED BY <1>3, <2>1, DomainsAssumption DEF Stage
<1>5. Verdict(r)' \in [Domains -> Categories]
  <2>1. TablesTyped' /\ ScoresOrdered'
    BY TablesTypedStep, ScoresOrderedStep
  <2> QED BY <1>3, <2>1, VerdictsTyped
<1>6. \A s \in Scans \ {r} : Stage(s)' = Stage(s) /\ Verdict(s)' = Verdict(s)
  BY OtherRecordsStay
<1>7. [s \in Scans |-> Stage(s)]' = [[s \in Scans |-> Stage(s)] EXCEPT ![r] = "judged"]
  BY <1>4, <1>6
<1>8. \E categories \in [Domains -> Categories] :
        [s \in Scans |-> Verdict(s)]'
          = [[s \in Scans |-> Verdict(s)] EXCEPT ![r] = categories]
  BY <1>5, <1>6
<1>9. findings' = findings
  BY DEF ScoreAndGenerate
<1> QED BY <1>2, <1>7, <1>8, <1>9 DEF TheRecord!Judge

\* What a person decides leaves every scan at its stage.
LEMMA DecisionKeepsStages ==
  ASSUME LifecycleInv, [Next]_vars, NEW m \in Managers,
         CommitReview(m) \/ CommitOverride(m)
  PROVE  \A s \in Scans : Stage(s)' = Stage(s) /\ ScoredDomains(s)' = ScoredDomains(s)
<1> SUFFICES ASSUME NEW s \in Scans
    PROVE Stage(s)' = Stage(s) /\ ScoredDomains(s)' = ScoredDomains(s)
  OBVIOUS
<1>0. TablesTyped
  BY DEF LifecycleInv
<1>1. ScoredDomains(s)' = ScoredDomains(s)
  <2>1. CASE CommitReview(m)
    BY <2>1, VerdictStays DEF CommitReview, ScoresOf
  <2>2. CASE CommitOverride(m)
    <3>1. PICK new : new = op[m].row
      OBVIOUS
    <3>2. PICK old : old = op[m].original
      OBVIOUS
    <3>3. /\ scores' = scores \cup {new} /\ old \in scores
          /\ new.scan = old.scan /\ new.domain = old.domain
      BY <2>2, <3>1, <3>2, OverrideIsCommitted
    <3> QED BY <3>3 DEF ScoredDomains, ScoresOf
  <2> QED BY <2>1, <2>2
<1>2. Trail("ASSESSMENT_COMPLETED", s)' = Trail("ASSESSMENT_COMPLETED", s)
  <2>1. CASE CommitReview(m)
    <3>1. PICK e : Record(e) /\ e.type = "FINDING_REVIEWED"
      <4>1. PICK e : e = ReviewEvent(m)
        OBVIOUS
      <4>2. Record(e)
        BY <2>1, <4>1 DEF CommitReview
      <4>3. e.type = "FINDING_REVIEWED"
        BY <4>1 DEF ReviewEvent
      <4> QED BY <4>2, <4>3
    <3> QED BY <1>0, <3>1, TrailOfKind
  <2>2. CASE CommitOverride(m)
    <3>1. PICK e : Record(e) /\ e.type = "SCORE_OVERRIDDEN"
      <4>1. PICK e : e = OverrideEvent(m)
        OBVIOUS
      <4>2. Record(e)
        BY <2>2, <4>1 DEF CommitOverride
      <4>3. e.type = "SCORE_OVERRIDDEN"
        BY <4>1 DEF OverrideEvent
      <4> QED BY <4>2, <4>3
    <3> QED BY <1>0, <3>1, TrailOfKind
  <2> QED BY <2>1, <2>2
<1>3. UNCHANGED <<scans, evaluations>>
  BY DEF CommitReview, CommitOverride
<1> QED BY <1>1, <1>2, <1>3, StageStays

LEMMA ReviewDecides ==
  ASSUME DecisionsInv, [Next]_vars, NEW m \in Managers, CommitReview(m)
  PROVE  \E s \in Scans : TheRecord!Decide(s)
<1>0. LifecycleInv /\ ReviewsStay /\ TablesTyped
  BY DEF DecisionsInv, LifecycleInv
<1>1. PICK s, f : s = op[m].scan /\ f = op[m].finding
  OBVIOUS
<1>2. PICK new : new = findings'[s][f]
  OBVIOUS
<1>3. /\ s \in Scans /\ f \in Findings(s)
      /\ new.status \in ReviewOutcomes /\ new.reviewer \in Managers
  <2>1. op[m].scan = s /\ op[m].finding = f
    BY <1>1
  <2>2. /\ findings'[s][f].status \in ReviewOutcomes
        /\ findings'[s][f].reviewer \in Managers
    BY <1>0, <2>1, CommitShowsReview
  <2> QED BY <1>0, <1>2, <2>1, <2>2, ReviewIsCommitted
<1>4. findings' = [findings EXCEPT ![s] = [@ EXCEPT ![f] = new]]
  <2>1. /\ findings \in [Scans -> Reviews] /\ findings' \in [Scans -> Reviews]
        /\ \A x \in Scans : DOMAIN findings'[x] = DOMAIN findings[x]
        /\ \A x \in Scans : \A g \in DOMAIN findings[x] :
             x # s \/ g # f => findings'[x][g] = findings[x][g]
    <3>1. /\ findings' \in [Scans -> Reviews]
          /\ \A x \in Scans : Findings(x)' = Findings(x)
          /\ \A x \in Scans : \A g \in Findings(x) :
               findings'[x][g] =
                 IF x = op[m].scan /\ g = op[m].finding
                 THEN [status |-> Column(op[m].read.status, op[m].decision.status,
                                         findings[x][g].status),
                       reviewer |-> Column(op[m].read.reviewer, m,
                                           findings[x][g].reviewer)]
                 ELSE findings[x][g]
      BY <1>0, ReviewIsCommitted, Zenon
    <3> QED BY <1>0, <1>1, <3>1 DEF TablesTyped, Findings
  <2>2. \A x \in Scans : /\ findings[x] = [g \in DOMAIN findings[x] |-> findings[x][g]]
                        /\ findings'[x] = [g \in DOMAIN findings[x] |-> findings'[x][g]]
    BY <2>1 DEF Reviews
  <2>3. \A x \in Scans \ {s} : findings'[x] = findings[x]
    BY <2>1, <2>2
  <2>4. findings'[s] = [findings[s] EXCEPT ![f] = new]
    BY <1>2, <1>3, <2>1, <2>2
  <2> QED BY <1>3, <2>1, <2>3, <2>4
<1>5. new \in Review
  <2>1. TablesTyped' /\ Findings(s)' = Findings(s)
    BY <1>0, <1>3, TablesTypedStep, ReviewIsCommitted
  <2> QED BY <1>2, <1>3, <2>1 DEF TablesTyped, Reviews, Findings
<1>6. new = [status |-> new.status, reviewer |-> new.reviewer]
  BY <1>5 DEF Review
<1>7. [s2 \in Scans |-> Stage(s2)]' = [s2 \in Scans |-> Stage(s2)]
  BY <1>0, DecisionKeepsStages
<1>8. \A s2 \in Scans : Verdict(s2)' = Verdict(s2)
  BY VerdictStays DEF CommitReview, ScoresOf
<1>9. [s2 \in Scans |-> Verdict(s2)]' = [s2 \in Scans |-> Verdict(s2)]
  BY <1>8
<1>10. \E status \in ReviewOutcomes, reviewer \in Managers :
         findings' = [findings EXCEPT
           ![s][f] = [status |-> status, reviewer |-> reviewer]]
  BY <1>3, <1>4, <1>6
<1> QED BY <1>3, <1>7, <1>9, <1>10 DEF TheRecord!Decide, Findings

LEMMA OverrideOverrules ==
  ASSUME DecisionsInv, [Next]_vars, NEW m \in Managers, CommitOverride(m)
  PROVE  \E s \in Scans : TheRecord!Overrule(s)
<1>0. LifecycleInv
  BY DEF DecisionsInv
<1>1. PICK new : new = op[m].row
  OBVIOUS
<1>2. PICK s, d : s = new.scan /\ d = new.domain
  OBVIOUS
<1>3. /\ scores' = scores \cup {new} /\ new \in ScoreRow
      /\ op[m].original \in ScoresOf(s, d)
  BY <1>0, <1>1, <1>2, OverrideIsCommitted DEF ScoresOf
<1>4. s \in Scans /\ d \in ScoredDomains(s)
  BY <1>2, <1>3 DEF ScoreRow, ScoredDomains
<1>5. /\ [s2 \in Scans |-> Stage(s2)]' = [s2 \in Scans |-> Stage(s2)]
      /\ ScoredDomains(s)' = ScoredDomains(s)
  BY <1>0, <1>4, DecisionKeepsStages
<1>6. \A s2, d2 : s2 # s \/ d2 # d => ScoresOf(s2, d2)' = ScoresOf(s2, d2)
  BY <1>2, <1>3 DEF ScoresOf
<1>7. \A s2 \in Scans \ {s} : Verdict(s2)' = Verdict(s2)
  BY <1>6, VerdictStays
<1>8. Verdict(s)' \in [ScoredDomains(s) -> Categories]
  <2>1. TablesTyped' /\ ScoresOrdered'
    BY <1>0, TablesTypedStep, ScoresOrderedStep
  <2> QED BY <1>4, <1>5, <2>1, VerdictsTyped
<1>9. PICK category \in Categories : category = Verdict(s)'[d]
  BY <1>4, <1>8
<1>10. Verdict(s)' = [Verdict(s) EXCEPT ![d] = category]
  <2>1. \A d2 \in ScoredDomains(s) \ {d} : EffectiveScore(s, d2)' = EffectiveScore(s, d2)
    BY <1>6 DEF EffectiveScore
  <2>2. \A d2 \in ScoredDomains(s) \ {d} : Verdict(s)'[d2] = Verdict(s)[d2]
    BY <1>5, <2>1 DEF Verdict
  <2>3. Verdict(s) = [d2 \in ScoredDomains(s) |-> Verdict(s)[d2]]
    BY DEF Verdict
  <2> QED BY <1>8, <1>9, <2>2, <2>3
<1>11. [s2 \in Scans |-> Verdict(s2)]'
         = [[s2 \in Scans |-> Verdict(s2)] EXCEPT ![s][d] = category]
  BY <1>4, <1>7, <1>10
<1>12. findings' = findings /\ d \in DOMAIN [s2 \in Scans |-> Verdict(s2)][s]
  BY <1>4 DEF CommitOverride, Verdict
<1>13. \E d2 \in DOMAIN [s2 \in Scans |-> Verdict(s2)][s], category2 \in Categories :
         [s2 \in Scans |-> Verdict(s2)]'
           = [[s2 \in Scans |-> Verdict(s2)] EXCEPT ![s][d2] = category2]
  BY <1>9, <1>11, <1>12
<1> QED BY <1>4, <1>5, <1>12, <1>13 DEF TheRecord!Overrule

\* What changes none of the rows that the record is made of is a stutter.
LEMMA RecordStutters ==
  ASSUME LifecycleInv, [Next]_vars,
         UNCHANGED <<scans, findings, scores, evaluations>>,
         \A s : Trail("ASSESSMENT_COMPLETED", s)' = Trail("ASSESSMENT_COMPLETED", s)
  PROVE  UNCHANGED TheRecord!vars
<1>1. \A s, d : ScoresOf(s, d)' = ScoresOf(s, d)
  BY DEF ScoresOf
<1>2. \A s : Verdict(s)' = Verdict(s) /\ ScoredDomains(s)' = ScoredDomains(s)
  BY <1>1, VerdictStays
<1>3. \A s : Stage(s)' = Stage(s)
  BY <1>2, StageStays
<1>4. /\ [s \in Scans |-> Stage(s)]' = [s \in Scans |-> Stage(s)]
      /\ [s \in Scans |-> Verdict(s)]' = [s \in Scans |-> Verdict(s)]
  BY <1>2, <1>3
<1> QED BY <1>4 DEF TheRecord!vars

LEMMA RecordStep ==
  ASSUME DecisionsInv, [Next]_vars
  PROVE  [TheRecord!Next]_(TheRecord!vars)
<1>0. LifecycleInv /\ TablesTyped
  BY DEF DecisionsInv, LifecycleInv
<1>1. CASE UNCHANGED tables
  <2>1. \A s : Trail("ASSESSMENT_COMPLETED", s)' = Trail("ASSESSMENT_COMPLETED", s)
    BY <1>1 DEF tables, Trail
  <2>2. UNCHANGED <<scans, findings, scores, evaluations>>
    BY <1>1 DEF tables
  <2> QED BY <1>0, <2>1, <2>2, RecordStutters
<1>2. ASSUME NEW r \in Scans, UNCHANGED op,
             Save(r) \/ ScoreAndGenerate(r) \/ Evaluate(r) \/ Complete(r)
      PROVE  TheRecord!Next
  <2>1. TheRecord!Store(r) \/ TheRecord!Judge(r) \/ TheRecord!Evaluate(r)
          \/ TheRecord!Conclude(r)
    BY <1>0, <1>2, SaveStores, ScoreJudges, EvaluateEvaluates, CompleteConcludes
  <2> QED BY <2>1 DEF TheRecord!Next
<1>3. ASSUME NEW e, TrailGrows(e), e.type \in OtherTypes
      PROVE  UNCHANGED TheRecord!vars
  <2>1. \A s : Trail("ASSESSMENT_COMPLETED", s)' = Trail("ASSESSMENT_COMPLETED", s)
    BY <1>0, <1>3, TrailOfKind DEF TrailGrows, OtherTypes
  <2>2. UNCHANGED <<scans, findings, scores, evaluations>>
    BY <1>3 DEF TrailGrows
  <2> QED BY <1>0, <2>1, <2>2, RecordStutters
<1>4. ASSUME NEW m \in Managers, FlushOverride(m)
      PROVE  UNCHANGED TheRecord!vars
  <2>1. \A s : Trail("ASSESSMENT_COMPLETED", s)' = Trail("ASSESSMENT_COMPLETED", s)
    BY <1>4 DEF FlushOverride, Trail
  <2>2. UNCHANGED <<scans, findings, scores, evaluations>>
    BY <1>4 DEF FlushOverride
  <2> QED BY <1>0, <2>1, <2>2, RecordStutters
<1>5. ASSUME NEW m \in Managers, CommitReview(m) \/ CommitOverride(m)
      PROVE  TheRecord!Next
  BY <1>5, ReviewDecides, OverrideOverrules DEF TheRecord!Next
<1> QED BY <1>0, <1>1, <1>2, <1>3, <1>4, <1>5, TableCases

\* The tables implement the abstract record: its findings appear once and at
\* once, so do the verdicts of all domains, what is decided is never pending
\* again, and nothing is concluded before it is evaluated.
THEOREM TablesImplementRecord == Spec => ImplementsRecord
<1>1. Init => TheRecord!Init
  BY RecordInit
<1>2. DecisionsInv /\ [Next]_vars => [TheRecord!Next]_(TheRecord!vars)
  BY RecordStep
<1> QED BY DecisionsInvariant, <1>1, <1>2, PTL DEF Spec, ImplementsRecord, TheRecord!Spec
=============================================================================
