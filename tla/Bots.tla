---------------------------------- MODULE Bots ----------------------------------
(***************************************************************************)
(* The bots of one user: BotInitService, BotsService and the messages bots   *)
(* send each other, BotCommunicationService (apps/server/src/bots).  A slot  *)
(* is a call of the server with one step per query.                          *)
(***************************************************************************)
EXTENDS Naturals, Sequences, FiniteSets

CONSTANTS DefaultBot, CustomBot,      \* from the templates, in order; created by the owner
          BotCall,
          RateLimitMax, RateLimitWindow,          \* RATE_LIMIT_MAX, RATE_LIMIT_WINDOW_MS
          MaxChainDepth,                          \* MAX_CHAIN_DEPTH
          MaxTime, MaxSends, MaxBotFailures       \* bounds

ASSUME RateAssumption == RateLimitMax \in Nat \ {0} /\ RateLimitWindow \in Nat \ {0}
ASSUME BotBoundsAssumption == {MaxTime, MaxSends, MaxBotFailures, MaxChainDepth} \subseteq Nat

VARIABLES bot,        \* the Bot rows
          retired,    \* bots deleted: their user rows are only marked
          dm,         \* bots with a DM conversation with the owner
          init,       \* templates createDefaultBots has still to create
          rateLimit,  \* rateLimit[a][b]: the window of the pair, if it has one
          botCall,    \* botCall[k]: the call on slot k
          notified,   \* BOT_NOTIFICATION messages: from, to
          now, sends, botFailures

botRows == <<bot, retired, dm, init>>
botVars == <<botRows, rateLimit, botCall, notified, now, sends, botFailures>>

Default == {DefaultBot[i] : i \in DOMAIN DefaultBot}
AnyBot == Default \cup CustomBot
NoBotCall == [op |-> "none", pc |-> "idle", from |-> "none", to |-> "none"]
NoWindow == [count |-> 0, start |-> 0, open |-> FALSE]

BotsInit ==
    /\ bot = {} /\ retired = {} /\ dm = {} /\ init = Len(DefaultBot)
    /\ rateLimit = [a \in AnyBot |-> [b \in AnyBot |-> NoWindow]]
    /\ botCall = [k \in BotCall |-> NoBotCall]
    /\ notified = {} /\ now = 0 /\ sends = 0 /\ botFailures = 0

Doing(k, op, pc) == botCall[k].op = op /\ botCall[k].pc = pc
Onward(k, pc) == botCall' = [botCall EXCEPT ![k].pc = pc]
Return(k) == botCall' = [botCall EXCEPT ![k] = NoBotCall]
BotFails == botFailures < MaxBotFailures /\ botFailures' = botFailures + 1

-----------------------------------------------------------------------------
CreateWithTx(b) == bot' = bot \cup {b}

(* createDefaultBots: one transaction for each bot with its DM.  register only  *)
(* logs that one failed; the templates after it are never created.              *)
CreateBotWithDm ==
    /\ init > 0
    /\ LET b == DefaultBot[Len(DefaultBot) - init + 1]
       IN CreateWithTx(b) /\ dm' = dm \cup {b}
    /\ init' = init - 1
    /\ UNCHANGED <<retired, rateLimit, botCall, notified, now, sends, botFailures>>

InitFails ==
    /\ BotFails /\ init > 0 /\ init' = 0
    /\ UNCHANGED <<bot, retired, dm, rateLimit, botCall, notified, now, sends>>

(* create: a user row and a bot row, and no conversation. *)
CreateBot(b) ==
    /\ b \in CustomBot \ (bot \cup retired)
    /\ bot' = bot \cup {b}
    /\ UNCHANGED <<retired, dm, init, rateLimit, botCall, notified, now, sends, botFailures>>

(* delete: find the row, not a protected one, then delete it and mark its user. *)
CallDelete(k, b) ==
    /\ botCall[k] = NoBotCall
    /\ b \in bot \ Default
    /\ botCall' = [botCall EXCEPT ![k] = [NoBotCall EXCEPT !.op = "delete", !.pc = "delete", !.to = b]]
    /\ UNCHANGED <<botRows, rateLimit, notified, now, sends, botFailures>>

DeleteBot(k) ==
    /\ Doing(k, "delete", "delete")
    /\ bot' = bot \ {botCall[k].to}
    /\ retired' = IF botCall[k].to \in bot THEN retired \cup {botCall[k].to} ELSE retired
    /\ Return(k)
    /\ UNCHANGED <<dm, init, rateLimit, notified, now, sends, botFailures>>

-----------------------------------------------------------------------------
DetectCycle(to, callChain) == to \in callChain
CheckChainDepth(callChain) == Cardinality(callChain) <= MaxChainDepth

(* Mutant: the call that fills the window is not the last. *)
CheckRateLimitLate(w) ==
    IF ~w.open \/ now - w.start >= RateLimitWindow
    THEN [pass |-> TRUE, window |-> [count |-> 1, start |-> now, open |-> TRUE]]
    ELSE IF w.count > RateLimitMax THEN [pass |-> FALSE, window |-> w]
    ELSE [pass |-> TRUE, window |-> [w EXCEPT !.count = @ + 1]]

(* A window begins with the first call after the last window is over. *)
CheckRateLimit(w) ==
    IF ~w.open \/ now - w.start >= RateLimitWindow
    THEN [pass |-> TRUE, window |-> [count |-> 1, start |-> now, open |-> TRUE]]
    ELSE IF w.count >= RateLimitMax THEN [pass |-> FALSE, window |-> w]
    ELSE [pass |-> TRUE, window |-> [w EXCEPT !.count = @ + 1]]

(* sendBotMessage: its callers give no call chain, so it is the sender alone.   *)
(* What passes has used up its place in the window, however it ends.            *)
SendBotMessage(k, a, b) ==
    /\ botCall[k] = NoBotCall /\ sends < MaxSends
    /\ a # b /\ ~DetectCycle(b, {a}) /\ CheckChainDepth({a})
    /\ LET check == CheckRateLimit(rateLimit[a][b])
       IN /\ rateLimit' = [rateLimit EXCEPT ![a][b] = check.window]
          /\ botCall' = IF ~check.pass THEN botCall
                        ELSE [botCall EXCEPT ![k] = [op |-> "send", pc |-> "bots", from |-> a, to |-> b]]
    /\ sends' = sends + 1
    /\ UNCHANGED <<botRows, notified, now, botFailures>>

(* Both bots are the user's. *)
FindBots(k) ==
    /\ Doing(k, "send", "bots")
    /\ IF {botCall[k].from, botCall[k].to} \subseteq bot THEN Onward(k, "dm") ELSE Return(k)
    /\ UNCHANGED <<botRows, rateLimit, notified, now, sends, botFailures>>

(* findBotDmConverse: only the default bots have one. *)
FindBotDmConverse(k) ==
    /\ Doing(k, "send", "dm")
    /\ IF botCall[k].to \in dm THEN Onward(k, "message") ELSE Return(k)
    /\ UNCHANGED <<botRows, rateLimit, notified, now, sends, botFailures>>

(* The message and the push; the bots are not looked at again. *)
PersistNotification(k) ==
    /\ Doing(k, "send", "message")
    /\ notified' = notified \cup {[from |-> botCall[k].from, to |-> botCall[k].to]}
    /\ Return(k)
    /\ UNCHANGED <<botRows, rateLimit, now, sends, botFailures>>

BotQueryFails(k) ==
    /\ BotFails /\ botCall[k] # NoBotCall
    /\ Return(k)
    /\ UNCHANGED <<botRows, rateLimit, notified, now, sends>>

(* The windows are in memory. *)
BotServerRestarts ==
    /\ BotFails
    /\ rateLimit' = [a \in AnyBot |-> [b \in AnyBot |-> NoWindow]]
    /\ botCall' = [k \in BotCall |-> NoBotCall]
    /\ init' = 0
    /\ UNCHANGED <<bot, retired, dm, notified, now, sends>>

Tick ==
    /\ now < MaxTime /\ now' = now + 1
    /\ UNCHANGED <<botRows, rateLimit, botCall, notified, sends, botFailures>>

BotsNext ==
    \/ CreateBotWithDm \/ InitFails \/ BotServerRestarts \/ Tick
    \/ \E b \in CustomBot : CreateBot(b)
    \/ \E k \in BotCall :
          \/ DeleteBot(k) \/ FindBots(k) \/ FindBotDmConverse(k) \/ PersistNotification(k)
          \/ BotQueryFails(k)
    \/ \E k \in BotCall, b \in AnyBot : CallDelete(k, b)
    \/ \E k \in BotCall, a, b \in AnyBot : SendBotMessage(k, a, b)

BotsSpec == BotsInit /\ [][BotsNext]_botVars
=============================================================================
