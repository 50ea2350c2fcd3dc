----------------------------- MODULE MCAssistants -----------------------------
(***************************************************************************)
(* Assist and Bots on small instances.  They share no state, so a behaviour *)
(* shows one of them, its scene, and the other stays in its initial state.   *)
(***************************************************************************)
EXTENDS Assist, Bots

VARIABLES scene,
          age,         \* age[t]: seconds the call has been waiting for a provider
          accepted,    \* accepted[a][b]: the times of the sends let through, oldest first
          restarted,   \* the server has lost its windows
          lost         \* messages whose mentions or type could not be looked up

allVars == <<assistVars, botVars, scene, age, accepted, restarted, lost>>

OneTemplate == <<"supervisor">>

Init ==
    /\ AssistInit /\ BotsInit
    /\ scene \in {"assist", "bots"}
    /\ age = [t \in Task |-> 0]
    /\ accepted = [a \in AnyBot |-> [b \in AnyBot |-> <<>>]]
    /\ restarted = FALSE /\ lost = {}

Aged ==
    [t \in Task |-> IF task'[t].pc # "llm" THEN 0
                    ELSE IF In(t, "llm") /\ Second THEN age[t] + 1 ELSE age[t]]

Passed(a, b) ==
    \E k \in BotCall : /\ botCall[k] = NoBotCall
                       /\ botCall'[k] = [op |-> "send", pc |-> "bots", from |-> a, to |-> b]

Accepted ==
    [a \in AnyBot |-> [b \in AnyBot |->
        IF Passed(a, b) THEN Append(accepted[a][b], now) ELSE accepted[a][b]]]

Lost ==
    lost \cup {task[t].m : t \in {u \in Task : task[u].pc \in {"type", "validate"} /\ QueryRejects(u)}}

Next ==
    /\ UNCHANGED scene
    /\ \/ /\ scene = "assist" /\ AssistNext
          /\ age' = Aged /\ lost' = Lost
          /\ UNCHANGED <<botVars, accepted, restarted>>
       \/ /\ scene = "bots" /\ BotsNext
          /\ accepted' = Accepted
          /\ restarted' = (restarted \/ BotServerRestarts)
          /\ UNCHANGED <<assistVars, age, lost>>

(* The server goes on and time passes.  A provider need not answer. *)
Fairness == WF_assistVars(Second) /\ \A t \in Task : WF_assistVars(Proceeds(t))

Spec == Init /\ [][Next]_allVars /\ Fairness

-----------------------------------------------------------------------------
(* A call of a model that neither provider answers ends by the sum of the two    *)
(* timers, never by the default of a provider (LlmRouterService.complete).       *)
EndsInTime == \A t \in Task : age[t] <= PrimaryTimeout + FallbackTimeout

(* A group message that mentions a bot is dispatched to it, unless a query of    *)
(* the mention itself failed: the whisper that the same message asks for first    *)
(* may time out or lose a query of its own (MentionService.route).                *)
BotsDispatched ==
    \A m \in Post :
        m \in DOMAIN post /\ post[m].group /\ post[m].bot ~> m \in dispatched \cup lost

(* Two full windows of one pair of bots never fall within the length of one,      *)
(* while the server keeps running: the windows are fixed, so the limit holds for   *)
(* two windows and not for every minute (checkRateLimit).                          *)
RateBound ==
    restarted \/ \A a, b \in AnyBot :
        LET times == accepted[a][b]
        IN \A i \in DOMAIN times :
             i + 2 * RateLimitMax - 1 \in DOMAIN times
             => times[i + 2 * RateLimitMax - 1] - times[i] >= RateLimitWindow
=============================================================================
