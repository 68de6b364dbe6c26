----------------------------- MODULE Assistant ------------------------------
(***************************************************************************)
(* The optional assistant (ui/services/agent_ui_service.py and agents/):   *)
(* it reads the tables of an assessment, makes a context of them, has a    *)
(* provider or the local mode answer, and adds one row to the audit trail. *)
(* Each read and the commit are steps of their own: managers and runs go   *)
(* on between them.  ask[p] is where the page of person p is.              *)
(***************************************************************************)
EXTENDS AssessmentTables

CONSTANTS
  Askers,          \* who has the page of the assistant open
  AgentSettings,   \* the settings that processes may have been started with
  MaxAnswers       \* bound on the answers in all

ProviderNames == {"openai", "gemini", "claude"}

\* flags and keys: the providers whose own flag is on, and that have a key.
Setting ==
  [enabled : BOOLEAN, provider : ProviderNames \cup {"local"},
   external : BOOLEAN, flags : SUBSET ProviderNames, keys : SUBSET ProviderNames,
   maxItems : Nat]

ASSUME AssistantAssumption ==
  /\ AgentSettings \subseteq Setting
  /\ MaxAnswers \in Nat
  /\ {"system", "requester", "nobody"} \cap Askers = {}

VARIABLE ask

askVars == <<ask>>

Waiting == [step |-> "waiting"]

AskAt(p, step) == ask[p].step = step

Turn(p, next) == ask' = [ask EXCEPT ![p] = next]

Answers == {i \in DOMAIN audit : audit[i].type = "AGENT_ACTION"}

(***************************************************************************)
(* Contexts.                                                               *)
(***************************************************************************)
\* What is told of a finding and of a score row; the item limit keeps the
\* first of the rows, in the order in which the query has them.
Kept(available, limit) ==
  {kept \in SUBSET available :
     Cardinality(kept) = IF Cardinality(available) < limit
                         THEN Cardinality(available) ELSE limit}

\* Mutant of TruncatedByCount: one too many goes unnoticed.
TruncatedByMore(available, limit) == Cardinality(available) > limit + 1

TruncatedByCount(available, limit) == Cardinality(available) > limit

Request(s, setting, action, about) ==
  [scan |-> s, setting |-> setting, action |-> action, about |-> about]

Context(scoreRows, kept, truncated) ==
  [scores |-> scoreRows, findings |-> kept, truncated |-> truncated]

Asked(request, context) ==
  [step |-> "asked", request |-> request, context |-> context]

\* An answer is shown until the next is asked for.
MayAsk(p) ==
  ask[p].step \in {"waiting", "shown"} /\ Cardinality(Answers) < MaxAnswers

\* build_finding_context: one finding, offered by the page.
ExplainFinding(p) ==
  /\ MayAsk(p)
  /\ \E s \in scans, setting \in AgentSettings : \E f \in Findings(s) :
       Turn(p, Asked(Request(s, setting, "explain_finding", f), Context({}, {f}, FALSE)))
  /\ UNCHANGED tables

\* The domain's score is the first row that the query has, in no order; a
\* domain without one has nothing to show.
SummarizeDomain(p) ==
  /\ MayAsk(p)
  /\ \E s \in scans, setting \in AgentSettings, d \in Domains :
       \E row \in ScoresOf(s, d) :
         Turn(p, [step |-> "score_read", score |-> row,
                  request |-> Request(s, setting, "summarize_domain", d)])
  /\ UNCHANGED tables

\* The findings are read by another statement.
ReadDomainFindings(p) ==
  LET request == ask[p].request
      available == InDomain(Findings(request.scan), request.about)
      limit == request.setting.maxItems
  IN /\ AskAt(p, "score_read")
     /\ \E kept \in Kept(available, limit) :
          Turn(p, Asked(request, Context({ask[p].score}, kept,
                                         TruncatedByCount(available, limit))))
     /\ UNCHANGED tables

\* A question that the safety check refuses is raised: nothing is recorded.
AnswerQuestion(p) ==
  /\ MayAsk(p)
  /\ \E s \in scans, setting \in AgentSettings :
       \E kept \in Kept(Findings(s), setting.maxItems) :
         Turn(p, Asked(Request(s, setting, "answer_question", "a safe question"),
                       Context({}, kept,
                               TruncatedByCount(Findings(s), setting.maxItems))))
  /\ UNCHANGED tables

\* Every score row counts as one domain, overridden or not.
ExecutiveSummary(p) ==
  /\ MayAsk(p)
  /\ \E s \in scans, setting \in AgentSettings :
       LET available == {row \in scores : row.scan = s}
       IN  \E kept \in Kept(available, setting.maxItems) :
             Turn(p, Asked(Request(s, setting, "executive_summary", "every domain"),
                           Context(kept, {},
                                   TruncatedByCount(available, setting.maxItems))))
  /\ UNCHANGED tables

(***************************************************************************)
(* Answers.                                                                *)
(***************************************************************************)
Local == "local"

\* providers/registry.py: an adapter is made only for a known provider that
\* the platform and its own settings allow.
GetProvider(name, setting) ==
  IF name \in ProviderNames /\ setting.external
       /\ name \in setting.flags \cap setting.keys
  THEN name ELSE Local

\* agents/registry.py: local mode, unless an external one was asked for.
GetAgentProvider(setting) ==
  IF setting.enabled /\ setting.provider # Local /\ setting.external
  THEN GetProvider(setting.provider, setting) ELSE Local

Response(action, provider, isLocal, success) ==
  [action |-> action, provider |-> provider, isLocal |-> isLocal,
   success |-> success]

\* Mutant of Fallback: it passes for the answer of the provider.
FallbackUnmarked(action, provider) == Response(action, provider, FALSE, TRUE)

\* send raises NotImplementedError in every adapter of this build, so that the
\* branch that returns what a provider answered is never taken.
Fallback(action, provider) == Response(action, provider, TRUE, FALSE)

\* The answer is made of the request and its context alone.
Answer(request) ==
  LET provider == GetAgentProvider(request.setting)
  IN IF provider = Local THEN Response(request.action, Local, TRUE, TRUE)
                         ELSE Fallback(request.action, provider)

AgentEvent(p, response) ==
  [type |-> "AGENT_ACTION", scan |-> ask[p].request.scan, actor |-> p,
   about |-> response]

\* The row is committed before the answer is shown.
RecordAnswer(p) ==
  LET response == Answer(ask[p].request)
  IN /\ AskAt(p, "asked")
     /\ Record(AgentEvent(p, response))
     /\ Turn(p, [step |-> "shown", request |-> ask[p].request,
                 context |-> ask[p].context, response |-> response])
     /\ UNCHANGED <<scans, mappings, findings, scores, evidence,
                    recommendations, evaluations, catalog, clock>>

\* The session fails, or the process stops: nothing is shown.
AskFails(p) ==
  /\ ask[p].step \in {"score_read", "asked"}
  /\ Turn(p, Waiting)
  /\ UNCHANGED tables

AssistantInit == ask = [p \in Askers |-> Waiting]
=============================================================================
