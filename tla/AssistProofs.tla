------------------------------ MODULE AssistProofs ------------------------------
(***************************************************************************)
(* Theorems about MCAssistants, for any number of calls, messages and bots  *)
(* and any time-outs.  A task is right when the seconds it has waited and   *)
(* the seconds left of its timer fit into the timers it has been given      *)
(* (TaskOK).  What a bot has sent within a minute is in its window    *)
(* (RatesInv).                                                              *)
(***************************************************************************)
EXTENDS MCAssistants, FiniteSetTheorems, TLAPS

TaskRecord ==
    [way : {"none", "mention", "whisper", "predict", "route"},
     pc : {"idle", "type", "validate", "context", "bots", "ask", "llm", "row"},
     m : Nat, provider : {"none", "deepseek", "kimi"}, left : Nat]

Budget(provider) ==
    IF provider = SelectProvider THEN PrimaryTimeout ELSE PrimaryTimeout + FallbackTimeout

TaskOK(r, waited) ==
    /\ r \in TaskRecord
    /\ waited \in Nat
    /\ IF r.pc = "llm" THEN waited + r.left <= Budget(r.provider) ELSE waited = 0

PostsInOrder == \E n \in Nat : DOMAIN post = 1..n

IInv ==
    /\ DOMAIN task = Task
    /\ \A t \in Task : TaskOK(task[t], age[t])
    /\ PostsInOrder

-----------------------------------------------------------------------------
(* What the steps make of a task. *)
LEMMA NoTaskOK == TaskOK(NoTask, 0)
  BY DEF NoTask, TaskOK, TaskRecord

LEMMA StartedTyped ==
    ASSUME NEW way \in {"mention", "whisper", "predict", "route"},
           NEW pc \in {"type", "context", "bots", "ask"}, NEW m \in Nat
    PROVE  /\ Started(way, pc, m) \in TaskRecord
           /\ Started(way, pc, m).way = way /\ Started(way, pc, m).pc = pc
           /\ Started(way, pc, m).m = m
  BY DEF Started, NoTask, TaskRecord

LEMMA StepOK ==
    ASSUME NEW r, NEW w, TaskOK(r, w), r.pc # "llm",
           NEW pc \in {"validate", "context", "bots", "ask"}
    PROVE  TaskOK([r EXCEPT !.pc = pc], 0)
  BY DEF TaskOK, TaskRecord

LEMMA RequestOK ==
    ASSUME NEW r, NEW w, TaskOK(r, w), r.pc \in {"ask", "llm"},
           NEW provider \in {"deepseek", "kimi"}, NEW left \in Nat, w + left <= Budget(provider)
    PROVE  TaskOK([r EXCEPT !.pc = "llm", !.provider = provider, !.left = left], w)
  <1> DEFINE q == [r EXCEPT !.pc = "llm", !.provider = provider, !.left = left]
  <1>1. r \in TaskRecord
    BY DEF TaskOK
  <1>2. q \in TaskRecord
    BY <1>1, ZenonT(30) DEF TaskRecord
  <1>3. /\ q.way = r.way /\ q.m = r.m
        /\ q.pc = "llm" /\ q.provider = provider /\ q.left = left
    BY <1>1 DEF TaskRecord
  <1>4. r.pc # "type"
    OBVIOUS
  <1> QED
    BY <1>2, <1>3, <1>4 DEF TaskOK

LEMMA AnsweredOK ==
    ASSUME NEW r, NEW w, TaskOK(r, w), r.pc = "llm"
    PROVE  TaskOK([r EXCEPT !.pc = "row", !.provider = "none", !.left = 0], 0)
  <1> DEFINE q == [r EXCEPT !.pc = "row", !.provider = "none", !.left = 0]
  <1>1. r \in TaskRecord /\ 0 \in Nat
    BY DEF TaskOK
  <1>2. q \in TaskRecord
    BY <1>1, ZenonT(30) DEF TaskRecord
  <1>3. q.way = r.way /\ q.m = r.m /\ q.pc = "row"
    BY <1>1 DEF TaskRecord
  <1> QED
    BY <1>2, <1>3 DEF TaskOK

(* route goes on with the same message. *)
LEMMA RoutedOK ==
    ASSUME NEW r, NEW w, TaskOK(r, w), r.way = "mention", r.pc # "type"
    PROVE  TaskOK(Started("mention", "bots", r.m), 0)
  <1>1. r.m \in Nat
    BY DEF TaskOK, TaskRecord
  <1> QED
    BY <1>1, StartedTyped DEF TaskOK

-----------------------------------------------------------------------------
(* A step of one call, in which no second passes, is right if that call is. *)
LEMMA OneCall ==
    ASSUME IInv, NEW t \in Task, NEW r, task' = [task EXCEPT ![t] = r],
           age' = Aged, ~Second, post' = post,
           TaskOK(r, IF r.pc = "llm" THEN age[t] ELSE 0)
    PROVE  DOMAIN task' = Task /\ \A u \in Task : TaskOK(task'[u], age'[u])
  <1>1. DOMAIN task' = Task /\ task'[t] = r /\ \A u \in Task : u # t => task'[u] = task[u]
    BY DEF IInv
  <1>2. \A u \in Task : age'[u] = IF task'[u].pc = "llm" THEN age[u] ELSE 0
    BY DEF Aged
  <1>3. ASSUME NEW u \in Task, u # t PROVE TaskOK(task'[u], age'[u])
    <2>1. TaskOK(task[u], age[u])
      BY DEF IInv
    <2>2. age'[u] = age[u]
      BY <1>1, <1>2, <1>3, <2>1 DEF TaskOK
    <2> QED
      BY <1>1, <1>3, <2>1, <2>2
  <1> QED
    BY <1>1, <1>2, <1>3

LEMMA Ends ==
    ASSUME IInv, NEW t \in Task, End(t), age' = Aged, ~Second, post' = post
    PROVE  DOMAIN task' = Task /\ \A u \in Task : TaskOK(task'[u], age'[u])
  <1>1. NoTask.pc = "idle"
    BY DEF NoTask
  <1> QED
    BY <1>1, NoTaskOK, OneCall DEF End

LEMMA Steps ==
    ASSUME IInv, NEW t \in Task, NEW pc \in {"validate", "context", "bots", "ask"}, Step(t, pc),
           task[t].pc # "llm",
           age' = Aged, ~Second, post' = post
    PROVE  DOMAIN task' = Task /\ \A u \in Task : TaskOK(task'[u], age'[u])
  <1> DEFINE r == [task[t] EXCEPT !.pc = pc]
  <1>1. TaskOK(task[t], age[t])
    BY DEF IInv
  <1>2. TaskOK(r, 0)
    BY <1>1, StepOK
  <1>3. r.pc = pc /\ task' = [task EXCEPT ![t] = r]
    BY <1>1 DEF Step, TaskOK, TaskRecord
  <1> QED
    BY <1>2, <1>3, OneCall

LEMMA Routes ==
    ASSUME IInv, NEW t \in Task, Route(t), task[t].pc # "type",
           age' = Aged, ~Second, post' = post
    PROVE  DOMAIN task' = Task /\ \A u \in Task : TaskOK(task'[u], age'[u])
  <1>1. TaskOK(task[t], age[t])
    BY DEF IInv
  <1>2. CASE task[t].way = "mention"
    <2> DEFINE r == Started("mention", "bots", task[t].m)
    <2>1. r.pc = "bots"
      BY <1>1, StartedTyped DEF TaskOK, TaskRecord
    <2>2. TaskOK(r, 0)
      BY <1>1, <1>2, RoutedOK
    <2>3. task' = [task EXCEPT ![t] = r]
      BY <1>2 DEF Route
    <2> QED
      BY <2>1, <2>2, <2>3, OneCall
  <1>3. CASE task[t].way # "mention"
    BY <1>3, Ends DEF Route
  <1> QED
    BY <1>2, <1>3

LEMMA Requests ==
    ASSUME IInv, NEW t \in Task, NEW provider \in {"deepseek", "kimi"}, NEW left \in Nat,
           Request(t, provider, left), task[t].pc \in {"ask", "llm"},
           age[t] + left <= Budget(provider), age' = Aged, ~Second, post' = post
    PROVE  DOMAIN task' = Task /\ \A u \in Task : TaskOK(task'[u], age'[u])
  <1> DEFINE r == [task[t] EXCEPT !.pc = "llm", !.provider = provider, !.left = left]
  <1>1. TaskOK(task[t], age[t])
    BY DEF IInv
  <1>2. TaskOK(r, age[t])
    BY <1>1, RequestOK
  <1>3. r.pc = "llm" /\ task' = [task EXCEPT ![t] = r]
    BY <1>1 DEF Request, TaskOK, TaskRecord
  <1> QED
    BY <1>2, <1>3, OneCall

-----------------------------------------------------------------------------
TasksRight == DOMAIN task = Task /\ \A t \in Task : TaskOK(task[t], age[t])

LEMMA SecondRight ==
    ASSUME IInv, Second, age' = Aged
    PROVE  TasksRight'
  <1> SUFFICES ASSUME NEW t \in Task PROVE TaskOK(task'[t], age'[t])
    BY DEF Second, TasksRight
  <1>1. TaskOK(task[t], age[t]) /\ post' = post
    BY DEF IInv, Second
  <1>2. CASE task[t].pc = "llm"
    <2> DEFINE r == [task[t] EXCEPT !.left = task[t].left - 1]
    <2>1. task'[t] = r /\ task[t].left - 1 \in Nat
      BY <1>1, <1>2 DEF Second, In, TaskOK, TaskRecord
    <2>2. r \in TaskRecord /\ r.pc = "llm" /\ r.provider = task[t].provider
          /\ r.left = task[t].left - 1 /\ r.way = task[t].way /\ r.m = task[t].m
      BY <1>1, <1>2, <2>1 DEF TaskOK, TaskRecord
    <2>3. age'[t] = age[t] + 1
      BY <1>2, <2>1, <2>2 DEF Aged, In
    <2>4. age'[t] + r.left = age[t] + task[t].left /\ age'[t] \in Nat
      BY <1>1, <2>2, <2>3 DEF TaskOK, TaskRecord
    <2> QED
      BY <1>1, <1>2, <2>1, <2>2, <2>4 DEF TaskOK
  <1>3. CASE task[t].pc # "llm"
    <2>1. task'[t] = task[t] /\ age'[t] = 0
      BY <1>3 DEF Second, In, Aged
    <2> QED
      BY <1>1, <1>3, <2>1 DEF TaskOK
  <1> QED
    BY <1>2, <1>3

(* A message is new: nothing was said of it yet. *)
LEMMA NewPost ==
    ASSUME IInv, NEW t \in Task, NEW u \in Task, CreateMessage(t, u), age' = Aged, ~Second
    PROVE  TasksRight' /\ PostsInOrder'
  <1> DEFINE m == Cardinality(DOMAIN post) + 1
  <1>1. PICK text \in Texts :
          /\ post' = [n \in 1..m |-> IF n = m THEN text ELSE post[n]]
          /\ task' = [task EXCEPT ![t] = Started("mention", "type", m),
                                  ![u] = IF text.trigger THEN Started("whisper", "context", m)
                                         ELSE NoTask]
    BY DEF CreateMessage
  <1>2. m \in Nat \ {0} /\ DOMAIN post = 1..(m - 1) /\ t # u /\ suggested' = suggested
    <2>1. PICK n \in Nat : DOMAIN post = 1..n
      BY DEF IInv, PostsInOrder
    <2>2. Cardinality(1..n) = n
      BY <2>1, FS_Interval
    <2> QED
      BY <2>1, <2>2 DEF CreateMessage
  <1>3. DOMAIN post' = 1..m /\ \A n \in DOMAIN post : n \in DOMAIN post' /\ post'[n] = post[n]
    BY <1>1, <1>2
  <1>4. \A w \in Task : age'[w] = IF task'[w].pc = "llm" THEN age[w] ELSE 0
    BY DEF Aged
  <1>5. DOMAIN task' = Task
    BY <1>1 DEF IInv
  <1>6. ASSUME NEW w \in Task PROVE TaskOK(task'[w], age'[w])
    <2>1. TaskOK(task[w], age[w])
      BY DEF IInv
    <2>2. CASE w = t
      <3>1. task'[w] = Started("mention", "type", m)
        BY <1>1, <1>2, <2>2 DEF IInv
      <3>2. /\ task'[w] \in TaskRecord /\ task'[w].m = m
            /\ task'[w].way = "mention" /\ task'[w].pc = "type"
        BY <1>2, <3>1, StartedTyped
      <3>3. age'[w] = 0 /\ task'[w].m \in DOMAIN post'
        BY <1>2, <1>3, <1>4, <3>2
      <3> QED
        BY <3>2, <3>3 DEF TaskOK
    <2>3. CASE w = u
      <3>1. task'[w] = IF text.trigger THEN Started("whisper", "context", m) ELSE NoTask
        BY <1>1, <1>2, <2>3 DEF IInv
      <3>2. CASE text.trigger
        <4>1. task'[w] = Started("whisper", "context", m)
          BY <3>1, <3>2
        <4>2. /\ task'[w] \in TaskRecord
              /\ task'[w].way = "whisper" /\ task'[w].pc = "context"
          BY <1>2, <4>1, StartedTyped
        <4>3. age'[w] = 0
          BY <1>4, <4>2
        <4> QED
          BY <4>2, <4>3 DEF TaskOK
      <3>3. CASE ~text.trigger
        <4>1. NoTask.pc = "idle"
          BY DEF NoTask
        <4> QED
          BY <1>4, <3>1, <3>3, <4>1, NoTaskOK
      <3> QED
        BY <3>2, <3>3
    <2>4. CASE w # t /\ w # u
      <3>1. task'[w] = task[w]
        BY <1>1, <2>4 DEF IInv
      <3>2. age'[w] = age[w]
        BY <1>4, <2>1, <3>1 DEF TaskOK
      <3> QED
        BY <1>3, <2>1, <3>1, <3>2 DEF TaskOK
    <2> QED
      BY <2>2, <2>3, <2>4
  <1> QED
    BY <1>2, <1>3, <1>5, <1>6 DEF TasksRight, PostsInOrder

LEMMA TestRight ==
    ASSUME IInv, NEW t \in Task, TestPredictive(t) \/ TestSupervisorRoute(t), age' = Aged, ~Second
    PROVE  TasksRight'
  <1> DEFINE r == IF TestPredictive(t) THEN Started("predict", "ask", 0) ELSE Started("route", "bots", 0)
  <1>1. task' = [task EXCEPT ![t] = r] /\ post' = post
    BY DEF TestPredictive, TestSupervisorRoute
  <1>2. r.pc # "llm" /\ TaskOK(r, 0)
    BY StartedTyped DEF TaskOK
  <1> QED
    BY <1>1, <1>2, OneCall DEF TasksRight

LEMMA FallBackRight ==
    ASSUME IInv, NEW t \in Task, FallBack(t), In(t, "llm"), age' = Aged, ~Second, post' = post
    PROVE  TasksRight'
  <1>1. TaskOK(task[t], age[t]) /\ task[t].pc = "llm"
    BY DEF IInv, In
  <1>2. CASE task[t].provider = SelectProvider
    <2>1. Request(t, "kimi", FallbackTimeout) /\ FallbackTimeout \in Nat
      BY <1>2, AssistTimesAssumption DEF FallBack, SelectProvider, GetFallbackProvider
    <2>2. age[t] + FallbackTimeout <= Budget("kimi")
      BY <1>1, <1>2, AssistTimesAssumption DEF TaskOK, TaskRecord, Budget, SelectProvider
    <2> QED
      BY <1>1, <2>1, <2>2, Requests DEF TasksRight
  <1>3. CASE task[t].provider # SelectProvider
    BY <1>1, <1>3, Routes DEF FallBack, TasksRight
  <1> QED
    BY <1>2, <1>3

LEMMA ProceedsRight ==
    ASSUME IInv, NEW t \in Task, Proceeds(t), age' = Aged, ~Second
    PROVE  TasksRight' /\ post' = post
  <1>1. TaskOK(task[t], age[t])
    BY DEF IInv
  <1>2. post' = post
    BY DEF Proceeds, HandleGroupMentions, Validate, ExtractContext, Complete, RouteViaSupervisor,
           TimesOut, CreateSuggestion, CreatePrediction, DispatchEvent
  <1>3. CASE HandleGroupMentions(t)
    BY <1>2, <1>3, Steps, Ends DEF HandleGroupMentions, In, TasksRight, IInv
  <1>4. CASE Validate(t)
    BY <1>1, <1>2, <1>4, Steps DEF Validate, In, TasksRight, IInv, TaskOK
  <1>5. CASE ExtractContext(t)
    BY <1>1, <1>2, <1>5, Steps DEF ExtractContext, In, TasksRight, IInv, TaskOK
  <1>6. CASE RouteViaSupervisor(t)
    BY <1>2, <1>6, Steps, Ends DEF RouteViaSupervisor, In, TasksRight, IInv
  <1>7. CASE Complete(t)
    <2>1. Request(t, "deepseek", PrimaryTimeout) /\ PrimaryTimeout \in Nat /\ task[t].pc = "ask"
      BY <1>7, AssistTimesAssumption DEF Complete, SelectProvider, In
    <2>2. age[t] + PrimaryTimeout <= Budget("deepseek")
      BY <1>1, <2>1 DEF TaskOK, Budget, SelectProvider
    <2> QED
      BY <1>2, <1>7, <2>1, <2>2, Requests DEF Complete, TasksRight, IInv
  <1>8. CASE TimesOut(t)
    BY <1>2, <1>8, FallBackRight DEF TimesOut, IInv
  <1>9. CASE CreateSuggestion(t)
    <2>1. TasksRight'
      BY <1>2, <1>9, Routes DEF CreateSuggestion, In, TasksRight
    <2> QED
      BY <1>2, <2>1
  <1>10. CASE CreatePrediction(t)
    BY <1>2, <1>10, Ends DEF CreatePrediction, TasksRight, IInv
  <1>11. CASE DispatchEvent(t)
    BY <1>2, <1>11, Ends DEF DispatchEvent, TasksRight, IInv
  <1> QED
    BY <1>2, <1>3, <1>4, <1>5, <1>6, <1>7, <1>8, <1>9, <1>10, <1>11 DEF Proceeds

LEMMA AnswersRight ==
    ASSUME IInv, NEW t \in Task, ProviderAnswers(t) \/ ProviderFails(t) \/ QueryRejects(t),
           age' = Aged, ~Second
    PROVE  TasksRight' /\ post' = post
  <1>1. TaskOK(task[t], age[t])
    BY DEF IInv
  <1>2. post' = post /\ suggested' = suggested
    BY DEF ProviderAnswers, GenerateSuggestions, GenerateActions, ParseRouteResult, ProviderFails,
           QueryRejects
  <1>3. CASE Answered(t) /\ task[t].pc = "llm"
    <2> DEFINE r == [task[t] EXCEPT !.pc = "row", !.provider = "none", !.left = 0]
    <2>1. TaskOK(r, 0)
      BY <1>1, <1>3, AnsweredOK
    <2>2. r.pc = "row" /\ task' = [task EXCEPT ![t] = r]
      BY <1>1, <1>3 DEF Answered, TaskOK, TaskRecord
    <2> QED
      BY <1>2, <2>1, <2>2, OneCall DEF TasksRight, IInv
  <1>4. CASE End(t)
    BY <1>2, <1>4, Ends DEF TasksRight, IInv
  <1>5. CASE ProviderFails(t)
    BY <1>2, <1>5, FallBackRight DEF ProviderFails, IInv
  <1>6. CASE QueryRejects(t)
    BY <1>2, <1>4, <1>6, Routes DEF QueryRejects, TasksRight, IInv
  <1> QED
    BY <1>3, <1>4, <1>5, <1>6
       DEF ProviderAnswers, GenerateSuggestions, GenerateActions, ParseRouteResult, In

-----------------------------------------------------------------------------
LEMMA AssistInvariant == Spec => []IInv
  <1>1. Init => IInv
    <2> SUFFICES ASSUME Init PROVE IInv
      OBVIOUS
    <2>1. \A t \in Task : task[t] = NoTask /\ age[t] = 0
      BY DEF Init, AssistInit
    <2>2. DOMAIN task = Task /\ DOMAIN post = 1..0 /\ suggested = {}
      BY DEF Init, AssistInit
    <2> QED
      BY <2>1, <2>2, NoTaskOK DEF IInv, PostsInOrder
  <1>2. IInv /\ [Next]_allVars => IInv'
    <2> SUFFICES ASSUME IInv, [Next]_allVars PROVE IInv'
      OBVIOUS
    <2>1. CASE UNCHANGED <<assistVars, age>>
      BY <2>1 DEF IInv, assistVars, PostsInOrder
    <2>2. CASE AssistNext /\ age' = Aged /\ Second
      <3>1. post' = post /\ suggested' = suggested
        BY <2>2 DEF Second
      <3> QED
        BY <2>2, <3>1, SecondRight DEF IInv, TasksRight, PostsInOrder
    <2>3. CASE AssistNext /\ age' = Aged /\ ~Second
      <3>1. ASSUME NEW t \in Task, Proceeds(t) PROVE IInv'
        BY <2>3, <3>1, ProceedsRight DEF IInv, TasksRight, PostsInOrder
      <3>2. ASSUME NEW t \in Task, ProviderAnswers(t) \/ ProviderFails(t) \/ QueryRejects(t)
            PROVE  IInv'
        BY <2>3, <3>2, AnswersRight DEF IInv, TasksRight, PostsInOrder
      <3>3. ASSUME NEW t \in Task, TestPredictive(t) \/ TestSupervisorRoute(t) PROVE IInv'
        <4>1. post' = post /\ suggested' = suggested
          BY <3>3 DEF TestPredictive, TestSupervisorRoute
        <4> QED
          BY <2>3, <3>3, <4>1, TestRight DEF IInv, TasksRight, PostsInOrder
      <3>4. ASSUME NEW t \in Task, NEW u \in Task, CreateMessage(t, u) PROVE IInv'
        BY <2>3, <3>4, NewPost DEF IInv, TasksRight
      <3> QED
        BY <2>3, <3>1, <3>2, <3>3, <3>4 DEF AssistNext
    <2> QED
      BY <2>1, <2>2, <2>3 DEF Next, allVars
  <1> QED
    BY <1>1, <1>2, PTL DEF Spec

(* LlmRouterService.complete: whatever the time-outs, the default of a provider  *)
(* too, no call waits longer than for the primary and then the fallback.         *)
THEOREM CallsEndInTime == Spec => []EndsInTime
  <1>1. IInv => EndsInTime
    <2> SUFFICES ASSUME IInv, NEW t \in Task PROVE age[t] <= PrimaryTimeout + FallbackTimeout
      BY DEF EndsInTime
    <2>1. TaskOK(task[t], age[t])
      BY DEF IInv
    <2> QED
      BY <2>1, AssistTimesAssumption DEF TaskOK, TaskRecord, Budget
  <1> QED
    BY <1>1, AssistInvariant, PTL

-----------------------------------------------------------------------------
(* The messages of one pair of bots.  A window is for its last count sends,   *)
(* of which the first came no later than its start; whatever is a full window *)
(* further back is at least the length of a window older than that.           *)
WindowOK(w, times, t) ==
    /\ times \in Seq(Nat) /\ \A i \in 1..Len(times) : times[i] <= t
    /\ w \in [count : Nat, start : Nat, open : BOOLEAN] /\ w.start <= t
    /\ ~w.open => times = <<>>
    /\ w.open =>
          /\ w.count \in 1..RateLimitMax /\ w.count <= Len(times)
          /\ \A i \in 1..(Len(times) - w.count + 1) : times[i] <= w.start
          /\ \A i \in 1..(Len(times) - w.count) :
                Len(times) - w.count - i + 1 >= RateLimitMax => times[i] + RateLimitWindow <= w.start
    /\ \A i \in 1..Len(times) :
          i + 2 * RateLimitMax - 1 \in 1..Len(times)
          => times[i + 2 * RateLimitMax - 1] - times[i] >= RateLimitWindow

RatesInv ==
    /\ now \in Nat /\ DOMAIN botCall = BotCall
    /\ restarted \/ /\ DOMAIN rateLimit = AnyBot /\ DOMAIN accepted = AnyBot
                    /\ \A a \in AnyBot : DOMAIN rateLimit[a] = AnyBot /\ DOMAIN accepted[a] = AnyBot
                    /\ \A a, b \in AnyBot : WindowOK(rateLimit[a][b], accepted[a][b], now)

(* The first send of a window: the last window has been over for its length.  *)
LEMMA NewWindowOK ==
    ASSUME NEW w, NEW times, now \in Nat, WindowOK(w, times, now), ~w.open \/ now - w.start >= RateLimitWindow
    PROVE  WindowOK([count |-> 1, start |-> now, open |-> TRUE], Append(times, now), now)
  <1> DEFINE n == Len(times)
             v == [count |-> 1, start |-> now, open |-> TRUE]
             after == Append(times, now)
  <1>1. /\ after \in Seq(Nat) /\ Len(after) = n + 1 /\ n \in Nat
        /\ after[n + 1] = now /\ \A i \in 1..n : after[i] = times[i]
    BY DEF WindowOK
  <1>2. RateLimitMax \in Nat \ {0} /\ RateLimitWindow \in Nat \ {0}
    BY RateAssumption
  <1>3. \A i \in 1..n : times[i] \in Nat /\ times[i] <= now
    BY <1>1 DEF WindowOK
  <1>4. v \in [count : Nat, start : Nat, open : BOOLEAN] /\ v.start = now /\ v.count = 1 /\ v.open
    OBVIOUS
  <1>5. ASSUME NEW i \in 1..n, n - i + 1 >= RateLimitMax PROVE times[i] + RateLimitWindow <= now
    <2>1. w.open /\ now - w.start >= RateLimitWindow /\ w.start \in Nat
      BY <1>1, <1>5 DEF WindowOK
    <2>2. w.count \in 1..RateLimitMax /\ i \in 1..(n - w.count + 1)
      BY <1>1, <1>2, <1>5, <2>1 DEF WindowOK
    <2>3. times[i] <= w.start
      BY <2>1, <2>2 DEF WindowOK
    <2> QED
      BY <1>2, <1>3, <2>1, <2>3
  <1>6. \A i \in 1..Len(after) : after[i] <= now
    BY <1>1, <1>3
  <1>7. ASSUME NEW i \in 1..Len(after), i + 2 * RateLimitMax - 1 \in 1..Len(after)
        PROVE  after[i + 2 * RateLimitMax - 1] - after[i] >= RateLimitWindow
    <2>1. i \in 1..n /\ after[i] = times[i]
      BY <1>1, <1>2, <1>7
    <2>2. CASE i + 2 * RateLimitMax - 1 = n + 1
      <3>1. times[i] + RateLimitWindow <= now
        BY <1>1, <1>2, <1>5, <2>1, <2>2
      <3> QED
        BY <1>1, <1>2, <1>3, <2>1, <2>2, <3>1
    <2>3. CASE i + 2 * RateLimitMax - 1 \in 1..n
      BY <1>1, <2>1, <2>3 DEF WindowOK
    <2> QED
      BY <1>1, <1>7, <2>2, <2>3
  <1>8. \A i \in 1..(Len(after) - v.count + 1) : after[i] <= v.start
    BY <1>1, <1>4, <1>6
  <1>9. \A i \in 1..(Len(after) - v.count) :
           Len(after) - v.count - i + 1 >= RateLimitMax => after[i] + RateLimitWindow <= v.start
    BY <1>1, <1>4, <1>5
  <1>10. v.count \in 1..RateLimitMax /\ v.count <= Len(after) /\ v.start <= now
    BY <1>1, <1>2, <1>4
  <1> SUFFICES WindowOK(v, after, now)
    OBVIOUS
  <1> HIDE DEF v, after, n
  <1> QED
    BY <1>1, <1>4, <1>6, <1>7, <1>8, <1>9, <1>10 DEF WindowOK

(* A send into a window that still has a place.  What lies a whole pair of    *)
(* windows back lies a full window before this one.                           *)
LEMMA NextInWindowOK ==
    ASSUME NEW w, NEW times, now \in Nat, WindowOK(w, times, now), w.open, w.count < RateLimitMax
    PROVE  WindowOK([w EXCEPT !.count = @ + 1], Append(times, now), now)
  <1> DEFINE n == Len(times)
             v == [w EXCEPT !.count = @ + 1]
             after == Append(times, now)
  <1>1. /\ after \in Seq(Nat) /\ Len(after) = n + 1 /\ n \in Nat
        /\ after[n + 1] = now /\ \A i \in 1..n : after[i] = times[i]
    BY DEF WindowOK
  <1>2. RateLimitMax \in Nat \ {0} /\ RateLimitWindow \in Nat \ {0}
    BY RateAssumption
  <1>3. \A i \in 1..n : times[i] \in Nat /\ times[i] <= now
    BY <1>1 DEF WindowOK
  <1>4. /\ w \in [count : Nat, start : Nat, open : BOOLEAN] /\ w.start <= now
        /\ w.count \in 1..RateLimitMax /\ w.count <= n
    BY DEF WindowOK
  <1>5. w.count \in Nat /\ w.start \in Nat /\ v = [w EXCEPT !.count = w.count + 1]
    BY <1>4
  <1>6. /\ v \in [count : Nat, start : Nat, open : BOOLEAN] /\ v.open
        /\ v.start = w.start /\ v.count = w.count + 1
    BY <1>4, <1>5
  <1>7. \A i \in 1..(Len(after) - v.count + 1) : after[i] <= v.start
    BY <1>1, <1>4, <1>6 DEF WindowOK
  <1>8. ASSUME NEW i \in 1..(n - w.count), n - w.count - i + 1 >= RateLimitMax
        PROVE  after[i] + RateLimitWindow <= w.start
    BY <1>1, <1>4, <1>8 DEF WindowOK
  <1>9. ASSUME NEW i \in 1..(Len(after) - v.count), Len(after) - v.count - i + 1 >= RateLimitMax
        PROVE  after[i] + RateLimitWindow <= v.start
    <2>1. Len(after) - v.count = n - w.count
      BY <1>1, <1>4, <1>6
    <2> HIDE DEF v, after
    <2> QED
      BY <1>6, <1>8, <1>9, <2>1
  <1>10. \A i \in 1..Len(after) : after[i] <= now
    BY <1>1, <1>3
  <1>11. v.count \in 1..RateLimitMax /\ v.count <= Len(after) /\ v.start <= now
    BY <1>1, <1>2, <1>4, <1>6
  <1>12. ASSUME NEW i \in 1..Len(after), i + 2 * RateLimitMax - 1 \in 1..Len(after)
         PROVE  after[i + 2 * RateLimitMax - 1] - after[i] >= RateLimitWindow
    <2>1. i \in 1..n /\ after[i] = times[i]
      BY <1>1, <1>2, <1>12
    <2>2. CASE i + 2 * RateLimitMax - 1 = n + 1
      <3>1. w.count <= RateLimitMax - 1 /\ w.count \in Nat
        BY <1>2, <1>4
      <3>2. i \in 1..(n - w.count) /\ n - w.count - i + 1 >= RateLimitMax
        BY <1>1, <1>2, <2>1, <2>2, <3>1
      <3>3. times[i] + RateLimitWindow <= w.start
        BY <1>8, <2>1, <3>2
      <3>4. now - times[i] >= RateLimitWindow
        BY <1>2, <1>3, <1>4, <2>1, <3>3
      <3> QED
        BY <1>1, <2>1, <2>2, <3>4
    <2>3. CASE i + 2 * RateLimitMax - 1 \in 1..n
      BY <1>1, <2>1, <2>3 DEF WindowOK
    <2> QED
      BY <1>1, <1>12, <2>2, <2>3
  <1> SUFFICES WindowOK(v, after, now)
    OBVIOUS
  <1> HIDE DEF v, after, n
  <1> QED
    BY <1>1, <1>6, <1>7, <1>9, <1>10, <1>11, <1>12 DEF WindowOK

LEMMA CheckOK ==
    ASSUME NEW w, NEW times, now \in Nat, WindowOK(w, times, now)
    PROVE  LET check == CheckRateLimit(w)
           IN  WindowOK(check.window, IF check.pass THEN Append(times, now) ELSE times, now)
  <1>1. CASE ~w.open \/ now - w.start >= RateLimitWindow
    BY <1>1, NewWindowOK DEF CheckRateLimit
  <1>2. CASE w.open /\ ~(now - w.start >= RateLimitWindow) /\ w.count >= RateLimitMax
    BY <1>2 DEF CheckRateLimit
  <1>3. CASE w.open /\ ~(now - w.start >= RateLimitWindow) /\ ~(w.count >= RateLimitMax)
    <2>1. w.count < RateLimitMax
      BY <1>3, RateAssumption DEF WindowOK
    <2> QED
      BY <1>3, <2>1, NextInWindowOK DEF CheckRateLimit
  <1> QED
    BY <1>1, <1>2, <1>3

(* Only sendBotMessage, and only what its check lets through, makes a call    *)
(* that looks for its two bots.                                               *)
LEMMA OnlySendsPass ==
    ASSUME DOMAIN botCall = BotCall, BotsNext,
           ~\E k \in BotCall, a, b \in AnyBot : SendBotMessage(k, a, b)
    PROVE  \A a, b \in AnyBot : ~Passed(a, b)
  <1> SUFFICES ASSUME NEW k \in BotCall, botCall[k] = NoBotCall, botCall'[k] # NoBotCall,
                      botCall'[k].op = "send"
               PROVE FALSE
    BY DEF Passed, NoBotCall
  <1>1. CASE CreateBotWithDm \/ InitFails \/ Tick \/ \E b \in CustomBot : CreateBot(b)
    BY <1>1 DEF CreateBotWithDm, InitFails, Tick, CreateBot
  <1>2. CASE BotServerRestarts
    BY <1>2 DEF BotServerRestarts
  <1>3. ASSUME NEW j \in BotCall,
               DeleteBot(j) \/ FindBots(j) \/ FindBotDmConverse(j) \/ PersistNotification(j) \/ BotQueryFails(j)
        PROVE FALSE
    <2>1. botCall[j] # NoBotCall
      BY <1>3 DEF DeleteBot, FindBots, FindBotDmConverse, PersistNotification, BotQueryFails, Doing, NoBotCall
    <2>2. \E r : botCall' = [botCall EXCEPT ![j] = r]
      BY <1>3 DEF DeleteBot, FindBots, FindBotDmConverse, PersistNotification, BotQueryFails, Onward, Return
    <2> QED
      BY <2>1, <2>2
  <1>4. ASSUME NEW j \in BotCall, NEW b \in AnyBot, CallDelete(j, b) PROVE FALSE
    <2>1. [NoBotCall EXCEPT !.op = "delete", !.pc = "delete", !.to = b].op = "delete"
      BY DEF NoBotCall
    <2> QED
      BY <1>4, <2>1 DEF CallDelete
  <1> QED
    BY <1>1, <1>2, <1>3, <1>4 DEF BotsNext

LEMMA SendKeepsRates ==
    ASSUME RatesInv, NEW k \in BotCall, NEW a \in AnyBot, NEW b \in AnyBot, SendBotMessage(k, a, b),
           accepted' = Accepted, ~restarted
    PROVE  RatesInv'
  <1> DEFINE check == CheckRateLimit(rateLimit[a][b])
             call == [op |-> "send", pc |-> "bots", from |-> a, to |-> b]
  <1>1. /\ botCall[k] = NoBotCall /\ now' = now
        /\ rateLimit' = [rateLimit EXCEPT ![a][b] = check.window]
        /\ botCall' = IF ~check.pass THEN botCall ELSE [botCall EXCEPT ![k] = call]
    BY DEF SendBotMessage
  <1>2. now' \in Nat /\ DOMAIN botCall' = BotCall
    BY <1>1 DEF RatesInv
  <1>3. SUFFICES /\ DOMAIN rateLimit' = AnyBot /\ DOMAIN accepted' = AnyBot
                 /\ \A c \in AnyBot : DOMAIN rateLimit'[c] = AnyBot /\ DOMAIN accepted'[c] = AnyBot
                 /\ \A c, d \in AnyBot : WindowOK(rateLimit'[c][d], accepted'[c][d], now')
    BY <1>2 DEF RatesInv
  <1>4. /\ DOMAIN rateLimit' = AnyBot /\ DOMAIN accepted' = AnyBot
        /\ \A c \in AnyBot : DOMAIN rateLimit'[c] = AnyBot /\ DOMAIN accepted'[c] = AnyBot
    BY <1>1, <1>3 DEF RatesInv, Accepted
  <1>5. ASSUME NEW c \in AnyBot, NEW d \in AnyBot
        PROVE  Passed(c, d) <=> check.pass /\ c = a /\ d = b
    <2>1. CASE ~check.pass
      BY <1>1, <2>1 DEF Passed, NoBotCall
    <2>2. CASE check.pass
      <3>1. botCall'[k] = call /\ \A j \in BotCall : j # k => botCall'[j] = botCall[j]
        BY <1>1, <2>2 DEF RatesInv
      <3>2. \A j \in BotCall : botCall[j] = NoBotCall => botCall[j].op # "send"
        BY DEF NoBotCall
      <3> QED
        BY <1>1, <2>2, <3>1, <3>2 DEF Passed
    <2> QED
      BY <2>1, <2>2
  <1>6. ASSUME NEW c \in AnyBot, NEW d \in AnyBot
        PROVE  WindowOK(rateLimit'[c][d], accepted'[c][d], now')
    <2>1. WindowOK(rateLimit[c][d], accepted[c][d], now)
      BY <1>3 DEF RatesInv
    <2>2. accepted'[c][d] = IF Passed(c, d) THEN Append(accepted[c][d], now) ELSE accepted[c][d]
      BY DEF Accepted
    <2>3. CASE c = a /\ d = b
      <3>1. rateLimit'[c][d] = check.window
        BY <1>1, <1>3, <2>3 DEF RatesInv
      <3> QED
        BY <1>1, <1>5, <2>1, <2>2, <2>3, <3>1, CheckOK DEF RatesInv
    <2>4. CASE ~(c = a /\ d = b)
      <3>1. rateLimit'[c][d] = rateLimit[c][d]
        BY <1>1, <1>3, <2>4 DEF RatesInv
      <3> QED
        BY <1>1, <1>5, <2>1, <2>2, <2>4, <3>1
    <2> QED
      BY <2>3, <2>4
  <1> QED
    BY <1>4, <1>6

LEMMA BotsKeepRates ==
    ASSUME RatesInv, BotsNext, accepted' = Accepted, restarted' = (restarted \/ BotServerRestarts)
    PROVE  RatesInv'
  <1>1. ASSUME NEW k \in BotCall, NEW a \in AnyBot, NEW b \in AnyBot, SendBotMessage(k, a, b) PROVE RatesInv'
    <2>1. CASE restarted
      BY <1>1, <2>1 DEF SendBotMessage, RatesInv
    <2>2. CASE BotServerRestarts
      BY <1>1, <2>2 DEF SendBotMessage, RatesInv
    <2>3. CASE ~restarted /\ ~BotServerRestarts
      BY <1>1, <2>3, SendKeepsRates
    <2> QED
      BY <2>1, <2>2, <2>3
  <1>2. CASE ~\E k \in BotCall, a, b \in AnyBot : SendBotMessage(k, a, b)
    <2>1. /\ now' \in Nat /\ now <= now' /\ DOMAIN botCall' = BotCall
          /\ BotServerRestarts \/ rateLimit' = rateLimit
      <3>1. CASE CreateBotWithDm \/ InitFails \/ BotServerRestarts \/ \E b \in CustomBot : CreateBot(b)
        BY <3>1 DEF RatesInv, CreateBotWithDm, InitFails, BotServerRestarts, CreateBot
      <3>2. CASE Tick
        BY <3>2 DEF RatesInv, Tick
      <3>3. ASSUME NEW k \in BotCall,
                   \/ DeleteBot(k) \/ FindBots(k) \/ FindBotDmConverse(k) \/ PersistNotification(k)
                   \/ BotQueryFails(k)
            PROVE  now' = now /\ rateLimit' = rateLimit /\ DOMAIN botCall' = DOMAIN botCall
        BY <3>3 DEF DeleteBot, FindBots, FindBotDmConverse, PersistNotification, BotQueryFails, Onward, Return
      <3>4. ASSUME NEW k \in BotCall, NEW b \in AnyBot, CallDelete(k, b)
            PROVE  now' = now /\ rateLimit' = rateLimit /\ DOMAIN botCall' = DOMAIN botCall
        BY <3>4 DEF CallDelete
      <3> QED
        BY <1>2, <3>1, <3>2, <3>3, <3>4 DEF BotsNext, RatesInv
    <2>2. CASE restarted \/ BotServerRestarts
      BY <2>1, <2>2 DEF RatesInv
    <2>3. CASE ~restarted /\ ~BotServerRestarts
      <3>1. \A a, b \in AnyBot : ~Passed(a, b)
        BY <1>2, OnlySendsPass DEF RatesInv
      <3>2. /\ DOMAIN rateLimit' = AnyBot /\ DOMAIN accepted' = AnyBot
            /\ \A a \in AnyBot : DOMAIN rateLimit'[a] = AnyBot /\ DOMAIN accepted'[a] = AnyBot
        BY <2>1, <2>3 DEF RatesInv, Accepted
      <3>3. ASSUME NEW a \in AnyBot, NEW b \in AnyBot
            PROVE  WindowOK(rateLimit'[a][b], accepted'[a][b], now')
        <4>1. WindowOK(rateLimit[a][b], accepted[a][b], now) /\ now \in Nat
          BY <2>3 DEF RatesInv
        <4>2. rateLimit'[a][b] = rateLimit[a][b] /\ accepted'[a][b] = accepted[a][b]
          BY <2>1, <2>3, <3>1 DEF Accepted
        <4> QED
          BY <2>1, <4>1, <4>2 DEF WindowOK
      <3> QED
        BY <2>1, <3>2, <3>3 DEF RatesInv
    <2> QED
      BY <2>2, <2>3
  <1> QED
    BY <1>1, <1>2

(* checkRateLimit: of the messages let through from one bot to another, the   *)
(* first and the last of two full windows lie at least one window apart, for  *)
(* any limit, length of a window and number of calls at a time, until the     *)
(* server loses its windows in a restart.                                     *)
THEOREM RateLimited == Spec => []RateBound
  <1>1. Init => RatesInv
    <2> SUFFICES ASSUME Init PROVE RatesInv
      OBVIOUS
    <2>1. NoWindow \in [count : Nat, start : Nat, open : BOOLEAN] /\ NoWindow.start = 0 /\ ~NoWindow.open
      BY DEF NoWindow
    <2>2. WindowOK(NoWindow, <<>>, 0)
      BY <2>1 DEF WindowOK
    <2> QED
      BY <2>2 DEF Init, BotsInit, RatesInv
  <1>2. RatesInv /\ [Next]_allVars => RatesInv'
    <2> SUFFICES ASSUME RatesInv, [Next]_allVars PROVE RatesInv'
      OBVIOUS
    <2>1. CASE UNCHANGED <<botVars, accepted, restarted>>
      BY <2>1 DEF botVars, RatesInv
    <2> QED
      BY <2>1, BotsKeepRates DEF Next, allVars
  <1>3. RatesInv => RateBound
    <2> SUFFICES ASSUME RatesInv, ~restarted, NEW a \in AnyBot, NEW b \in AnyBot, NEW i \in DOMAIN accepted[a][b],
                        i + 2 * RateLimitMax - 1 \in DOMAIN accepted[a][b]
                 PROVE accepted[a][b][i + 2 * RateLimitMax - 1] - accepted[a][b][i] >= RateLimitWindow
      BY DEF RateBound
    <2>1. WindowOK(rateLimit[a][b], accepted[a][b], now)
      BY DEF RatesInv
    <2>2. DOMAIN accepted[a][b] = 1..Len(accepted[a][b])
      BY <2>1 DEF WindowOK
    <2> QED
      BY <2>1, <2>2 DEF WindowOK
  <1> QED
    BY <1>1, <1>2, <1>3, PTL DEF Spec
=============================================================================
