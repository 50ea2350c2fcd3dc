--------------------------------- MODULE Assist ---------------------------------
(***************************************************************************)
(* What a message sets going besides its delivery, and the other callers of *)
(* the language models: handleGroupMentions and the whisper trigger          *)
(* (apps/server/src/messages), MentionService, WhisperService,                *)
(* PredictiveService, routeViaSupervisor, LlmRouterService and its providers  *)
(* (apps/server/src/mentions, ai, bots).  A Task is one asynchronous call     *)
(* that nobody awaits.                                                        *)
(***************************************************************************)
EXTENDS Naturals, FiniteSets

CONSTANTS Task, MaxPosts, MaxQueryFailures,   \* bounds
          PrimaryTimeout, FallbackTimeout,    \* PRIMARY_TIMEOUT, FALLBACK_TIMEOUT, in seconds
          DefaultTimeout                      \* of a provider that is given none

ASSUME AssistTimesAssumption ==
    /\ {MaxPosts, MaxQueryFailures} \subseteq Nat
    /\ {PrimaryTimeout, FallbackTimeout, DefaultTimeout} \subseteq Nat \ {0}

VARIABLES post,       \* post[m]: the messages sent, with what their text mentions
          task,       \* task[t]: the call on slot t
          suggested,  \* AiSuggestion rows of messages, pushed to the user: message and the way to it
          dispatched, \* messages for which dispatchEvent was called
          queryFailures

assistVars == <<post, task, suggested, dispatched, queryFailures>>

Post == 1..MaxPosts

(* trigger: the text contains the whisper trigger.  ai, bot: MentionService     *)
(* finds the name; the two regular expressions agree on most texts, not on all  *)
(* ("_@ai", or "@ai" with a Chinese character after it).                        *)
Texts == [group : BOOLEAN, trigger : BOOLEAN, ai : BOOLEAN, bot : BOOLEAN]

(* way: who called.  provider, left: of the request under way, the seconds left *)
(* of its timer.                                                                *)
NoTask == [way |-> "none", pc |-> "idle", m |-> 0, provider |-> "none", left |-> 0]

AssistInit ==
    /\ post = <<>>
    /\ task = [t \in Task |-> NoTask]
    /\ suggested = {} /\ dispatched = {} /\ queryFailures = 0

Started(way, pc, m) == [NoTask EXCEPT !.way = way, !.pc = pc, !.m = m]
In(t, pc) == task[t].pc = pc
Step(t, pc) == task' = [task EXCEPT ![t].pc = pc]
End(t) == task' = [task EXCEPT ![t] = NoTask]

-----------------------------------------------------------------------------
(* create: the mentions and the whisper start together; neither is awaited. *)
CreateMessage(t, u) ==
    /\ t # u /\ task[t] = NoTask /\ task[u] = NoTask
    /\ Cardinality(DOMAIN post) < MaxPosts
    /\ \E text \in Texts :
         LET m == Cardinality(DOMAIN post) + 1
         IN /\ post' = [n \in 1..m |-> IF n = m THEN text ELSE post[n]]
            /\ task' = [task EXCEPT ![t] = Started("mention", "type", m),
                                    ![u] = IF text.trigger THEN Started("whisper", "context", m)
                                           ELSE NoTask]
    /\ UNCHANGED <<suggested, dispatched, queryFailures>>

(* POST /ai/test/predictive, the caller of analyzeTrigger; an output in which   *)
(* detectTrigger finds nothing starts nothing.                                  *)
TestPredictive(t) ==
    /\ task[t] = NoTask
    /\ task' = [task EXCEPT ![t] = Started("predict", "ask", 0)]
    /\ UNCHANGED <<post, suggested, dispatched, queryFailures>>

(* POST /bots/test/supervisor-route, the caller of routeViaSupervisor. *)
TestSupervisorRoute(t) ==
    /\ task[t] = NoTask
    /\ task' = [task EXCEPT ![t] = Started("route", "bots", 0)]
    /\ UNCHANGED <<post, suggested, dispatched, queryFailures>>

(* handleGroupMentions: only in a group, and only with a mention. *)
HandleGroupMentions(t) ==
    /\ In(t, "type")
    /\ LET text == post[task[t].m]
       IN IF text.group /\ (text.ai \/ text.bot) THEN Step(t, "validate") ELSE End(t)
    /\ UNCHANGED <<post, suggested, dispatched, queryFailures>>

(* validate: ai comes first, then the bots of that name, of whatever owner. *)
Validate(t) ==
    /\ In(t, "validate")
    /\ Step(t, IF post[task[t].m].ai THEN "context" ELSE "bots")
    /\ UNCHANGED <<post, suggested, dispatched, queryFailures>>

ExtractContext(t) ==
    /\ In(t, "context") /\ Step(t, "ask")
    /\ UNCHANGED <<post, suggested, dispatched, queryFailures>>

(* routeViaSupervisor: the bots of the user, if there are any. *)
RouteViaSupervisor(t) ==
    /\ In(t, "bots") /\ task[t].way = "route"
    /\ Step(t, "ask") \/ End(t)
    /\ UNCHANGED <<post, suggested, dispatched, queryFailures>>

(* Mutant: after the whisper, the route is over. *)
RouteFirst(t) == End(t)

(* What follows a whisper or its failure: handleWhisperTrigger never rejects,   *)
(* so route goes on to the bots.                                                *)
Route(t) ==
    IF task[t].way = "mention"
    THEN task' = [task EXCEPT ![t] = Started("mention", "bots", task[t].m)]
    ELSE End(t)

(* routeToBot: dispatchEvent to the id of the row.  The one agent in its map    *)
(* has another id, "supervisor-bot": dispatchEvent finds none for any row and   *)
(* returns.                                                                     *)
DispatchEvent(t) ==
    /\ In(t, "bots") /\ task[t].way = "mention"
    /\ dispatched' = IF post[task[t].m].bot THEN dispatched \cup {task[t].m} ELSE dispatched
    /\ End(t)
    /\ UNCHANGED <<post, suggested, queryFailures>>

-----------------------------------------------------------------------------
(* selectProvider for whisper, predictive and chat, and getFallbackProvider.    *)
SelectProvider == "deepseek"
GetFallbackProvider(provider) == IF provider = "deepseek" THEN "kimi" ELSE "deepseek"

Request(t, provider, timeout) ==
    task' = [task EXCEPT ![t].pc = "llm", ![t].provider = provider, ![t].left = timeout]

(* complete: the primary, with its timer. *)
Complete(t) ==
    /\ In(t, "ask")
    /\ Request(t, SelectProvider, PrimaryTimeout)
    /\ UNCHANGED <<post, suggested, dispatched, queryFailures>>

Answered(t) == task' = [task EXCEPT ![t].pc = "row", ![t].provider = "none", ![t].left = 0]

(* The provider answers: any text makes a suggestion (parseSuggestions). *)
GenerateSuggestions(t) ==
    /\ In(t, "llm") /\ task[t].way \in {"mention", "whisper"}
    /\ Answered(t)
    /\ UNCHANGED <<post, suggested, dispatched, queryFailures>>

(* Without an action in the answer, the prediction is over (parseActions). *)
GenerateActions(t) ==
    /\ In(t, "llm") /\ task[t].way = "predict"
    /\ Answered(t) \/ End(t)
    /\ UNCHANGED <<post, suggested, dispatched, queryFailures>>

ParseRouteResult(t) ==
    /\ In(t, "llm") /\ task[t].way = "route"
    /\ End(t)
    /\ UNCHANGED <<post, suggested, dispatched, queryFailures>>

ProviderAnswers(t) == GenerateSuggestions(t) \/ GenerateActions(t) \/ ParseRouteResult(t)

(* Mutant: the fallback is given no timeout. *)
FallBackUntimed(t) ==
    IF task[t].provider = SelectProvider
    THEN Request(t, GetFallbackProvider(task[t].provider), DefaultTimeout)
    ELSE Route(t)

(* An error or a time-out: of the primary, the other provider is asked; of that *)
(* one, the call fails.                                                         *)
FallBack(t) ==
    IF task[t].provider = SelectProvider
    THEN Request(t, GetFallbackProvider(task[t].provider), FallbackTimeout)
    ELSE Route(t)

ProviderFails(t) ==
    /\ In(t, "llm") /\ FallBack(t)
    /\ UNCHANGED <<post, suggested, dispatched, queryFailures>>

(* The timer of the provider aborts its request.  The 2 s of WhisperService     *)
(* abort nothing: nobody is given its signal.                                   *)
TimesOut(t) ==
    /\ In(t, "llm") /\ task[t].left = 0 /\ FallBack(t)
    /\ UNCHANGED <<post, suggested, dispatched, queryFailures>>

(* aiSuggestion.create and, with its row, the push to the room of the user. *)
CreateSuggestion(t) ==
    /\ In(t, "row") /\ task[t].way \in {"mention", "whisper"}
    /\ suggested' = suggested \cup {<<task[t].m, task[t].way>>}
    /\ Route(t)
    /\ UNCHANGED <<post, dispatched, queryFailures>>

(* analyzeTrigger: the row and the push of a prediction. *)
CreatePrediction(t) ==
    /\ In(t, "row") /\ task[t].way = "predict"
    /\ End(t)
    /\ UNCHANGED <<post, suggested, dispatched, queryFailures>>

(* A query rejects: of the mentions or a route, the whole call ends; of the     *)
(* whisper, the whisper.                                                        *)
QueryRejects(t) ==
    /\ queryFailures < MaxQueryFailures /\ queryFailures' = queryFailures + 1
    /\ \/ task[t].pc \in {"type", "validate"} /\ End(t)
       \/ In(t, "bots") /\ task[t].way = "route" /\ End(t)
       \/ task[t].pc \in {"context", "row"} /\ Route(t)
    /\ UNCHANGED <<post, suggested, dispatched>>

(* A second passes; no timer is late. *)
Second ==
    /\ \E t \in Task : In(t, "llm")
    /\ \A t \in Task : In(t, "llm") => task[t].left > 0
    /\ task' = [t \in Task |-> IF In(t, "llm") THEN [task[t] EXCEPT !.left = @ - 1] ELSE task[t]]
    /\ UNCHANGED <<post, suggested, dispatched, queryFailures>>

Proceeds(t) ==
    \/ HandleGroupMentions(t) \/ Validate(t) \/ ExtractContext(t) \/ Complete(t)
    \/ RouteViaSupervisor(t) \/ TimesOut(t) \/ CreateSuggestion(t) \/ CreatePrediction(t)
    \/ DispatchEvent(t)

AssistNext ==
    \/ \E t \in Task : Proceeds(t) \/ ProviderAnswers(t) \/ ProviderFails(t)
                       \/ QueryRejects(t) \/ TestPredictive(t) \/ TestSupervisorRoute(t)
    \/ \E t, u \in Task : CreateMessage(t, u)
    \/ Second

AssistSpec == AssistInit /\ [][AssistNext]_assistVars
=============================================================================
