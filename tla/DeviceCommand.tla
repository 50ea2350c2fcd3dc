----------------------------- MODULE DeviceCommand -----------------------------
(***************************************************************************)
(* A remote command from a phone to a desktop and its result back: the     *)
(* phone's CommandNotifier, the DeviceGateway and CommandsService of the   *)
(* server, the desktop's WsClientService and CommandExecutor.              *)
(*                                                                         *)
(* All phones belong to one user, whose room gets every acknowledgement    *)
(* and every result.  A socket delivers in order while it is connected;    *)
(* what is on its way when it drops is lost, what a client sends while it  *)
(* is disconnected is buffered and sent on reconnect.  The id the server   *)
(* gives a command is named here after the request it was created for.     *)
(*                                                                         *)
(* connect() of the desktop replaces this.socket without closing it, so a  *)
(* desktop may have several sockets; DeviceLink has the ways that happens  *)
(* and the registration in detail.                                         *)
(***************************************************************************)
EXTENDS Naturals, Sequences, FiniteSets

CONSTANTS Phone,
          Command,      \* bounds the number of requests
          NoCommand,
          Sock,         \* sockets of the desktop: what io() returned
          NoSock,
          Disturbances  \* what else may happen, see below

(* slow: the phone's 30 seconds may pass.  drop: sockets disconnect.         *)
(* quit: the desktop application ends, or its user logs out.  twice: a login *)
(* is answered while the desktop has a socket.  fault: a query of complete   *)
(* rejects.  cancel: clients cancel commands.                                *)
AllDisturbances == {"slow", "drop", "quit", "twice", "fault", "cancel"}

ASSUME NoCommandAssumption == NoCommand \notin Command
ASSUME NoSockAssumption == NoSock \notin Sock
ASSUME DisturbancesAssumption == Disturbances \subseteq AllDisturbances

VARIABLES
    phone,     \* phone[p]: state, mine (last request), tracked (_serverCommandId),
               \* shown (command whose result is on the screen), timedOut
    timers,    \* <<p, c>>: the 30 second timer p started with request c
    issued,    \* the requests made so far: a request has a name of its own
    sent,      \* <<p, c>>: requests on their way to the server
    inbox,     \* inbox[p]: what the server sent to phone p, in order
    row,       \* row[c]: Command.status, or "none"
    completing,\* reports whose handler is in CommandsService.complete
    recorded,  \* reports stored but not yet forwarded
    opened,    \* the sockets of the desktop application
    current,   \* this.socket of WsClientService
    up,        \* the sockets that are connected
    linked,    \* those in room d-{deviceId}
    orders,    \* <<k, c>>: command c on its way to the desktop through k
    running,   \* <<k, c>>: the desktop executes c, which it got through k
    results,   \* <<k, r>>: report r on its way to the server through k
    outbox     \* <<k, r>>: report r buffered by k while it is disconnected

server == <<row, completing, recorded>>
sockets == <<opened, current, up, linked>>
desktop == <<sockets, orders, running, results, outbox>>
vars == <<phone, timers, issued, sent, inbox, server, desktop>>

Outcome == {"success", "error"}
Report == [by : Sock, cmd : Command, outcome : Outcome]
Event == [type : {"ack", "rejected", "result"}, cmd : Command]

Busy(p) == phone[p].state \in {"sending", "waiting"}

Blank == [state |-> "idle", mine |-> NoCommand, tracked |-> NoCommand,
          shown |-> NoCommand, timedOut |-> NoCommand]

Init ==
    /\ phone = [p \in Phone |-> Blank]
    /\ timers = {} /\ issued = {} /\ sent = {}
    /\ inbox = [p \in Phone |-> <<>>]
    /\ row = [c \in Command |-> "none"]
    /\ completing = {} /\ recorded = {}
    /\ current \in Sock
    /\ opened = {current} /\ up = {current} /\ linked = {current}
    /\ orders = {} /\ running = {} /\ results = {} /\ outbox = {}

(* namespace.to(u-{userId}).emit: every phone of the user gets the event. *)
Emit(event) == inbox' = [p \in Phone |-> Append(inbox[p], event)]

-----------------------------------------------------------------------------
\* Mutant: the button stays enabled while a command is pending.
ExecuteAnyTime(p, c) ==
    /\ c \notin issued
    /\ issued' = issued \cup {c}
    /\ phone' = [phone EXCEPT ![p] = [@ EXCEPT !.state = "sending", !.mine = c,
                                               !.shown = NoCommand, !.timedOut = NoCommand]]
    /\ timers' = timers \cup {<<p, c>>}
    /\ sent' = sent \cup {<<p, c>>}
    /\ UNCHANGED <<inbox, server, desktop>>

(* executeCommand, from a button that is disabled while a command is pending. *)
(* It forgets neither the id it tracked last nor the timer it started last.   *)
ExecuteCommand(p, c) ==
    /\ ~Busy(p)
    /\ c \notin issued
    /\ issued' = issued \cup {c}
    /\ phone' = [phone EXCEPT ![p] = [@ EXCEPT !.state = "sending", !.mine = c,
                                               !.shown = NoCommand, !.timedOut = NoCommand]]
    /\ timers' = timers \cup {<<p, c>>}
    /\ sent' = sent \cup {<<p, c>>}
    /\ UNCHANGED <<inbox, server, desktop>>

(* reset, from the button of the error screen. *)
Reset(p) ==
    /\ phone[p].state = "error"
    /\ phone' = [phone EXCEPT ![p] = Blank]
    /\ UNCHANGED <<timers, issued, sent, inbox, server, desktop>>

\* Mutant: a timer set while sending gives up once the command is dispatched.
TimerEndsSending(p, c) ==
    /\ <<p, c>> \in timers
    /\ Busy(p) => "slow" \in Disturbances
    /\ timers' = timers \ {<<p, c>>}
    /\ phone' = IF phone[p].state = "sending"
                THEN [phone EXCEPT ![p] = [@ EXCEPT !.state = "error", !.timedOut = c]]
                ELSE phone
    /\ UNCHANGED <<issued, sent, inbox, server, desktop>>

(* Which of the two timers of a phone fires does not matter to its callback. *)
TimerFires(p, c) ==
    /\ <<p, c>> \in timers
    /\ Busy(p) => "slow" \in Disturbances
    /\ timers' = timers \ {<<p, c>>}
    /\ phone' = IF Busy(p)
                THEN [phone EXCEPT ![p] = [@ EXCEPT !.state = "error", !.timedOut = c]]
                ELSE phone
    /\ UNCHANGED <<issued, sent, inbox, server, desktop>>

(* The listeners: an ack is taken by any phone that is sending, a result by   *)
(* any phone that tracks its command, in whatever state that phone is.        *)
React(p, e) ==
    CASE e.type = "ack" /\ phone[p].state = "sending" ->
             [phone EXCEPT ![p] = [@ EXCEPT !.state = "waiting", !.tracked = e.cmd]]
      [] e.type = "rejected" /\ phone[p].state = "sending" ->
             [phone EXCEPT ![p] = [@ EXCEPT !.state = "error"]]
      [] e.type = "result" /\ e.cmd = phone[p].tracked ->
             [phone EXCEPT ![p] = [@ EXCEPT !.state = "completed", !.shown = e.cmd,
                                                    !.timedOut = NoCommand]]
      [] OTHER -> phone

PhoneReceives(p) ==
    /\ inbox[p] # <<>>
    /\ phone' = React(p, Head(inbox[p]))
    /\ inbox' = [inbox EXCEPT ![p] = Tail(@)]
    /\ UNCHANGED <<timers, issued, sent, server, desktop>>

-----------------------------------------------------------------------------
(* handleCommandSend: a dangerous command, or one that cannot be stored, is    *)
(* refused to its phone; any other goes to every socket in the device's room.  *)
RefuseCommand(p, c) ==
    /\ <<p, c>> \in sent
    /\ sent' = sent \ {<<p, c>>}
    /\ inbox' = [inbox EXCEPT ![p] = Append(@, [type |-> "rejected", cmd |-> c])]
    /\ UNCHANGED <<phone, timers, issued, server, desktop>>

HandleCommandSend(p, c) ==
    /\ <<p, c>> \in sent
    /\ sent' = sent \ {<<p, c>>}
    /\ row' = [row EXCEPT ![c] = "PENDING"]
    /\ orders' = orders \cup (linked \X {c})
    /\ Emit([type |-> "ack", cmd |-> c])
    /\ UNCHANGED <<phone, timers, issued, completing, recorded, sockets, running, results, outbox>>

(* handleResultComplete awaits complete, which first looks the command up.    *)
HandleResult(k, r) ==
    /\ <<k, r>> \in results
    /\ results' = results \ {<<k, r>>}
    /\ completing' = completing \cup {r}
    /\ UNCHANGED <<phone, timers, issued, sent, inbox, row, recorded, sockets, orders, running, outbox>>

Status(o) == IF o = "success" THEN "COMPLETED" ELSE "FAILED"

\* Mutant: the result is forwarded and never stored.
RecordNothing(r) ==
    /\ r \in completing
    /\ completing' = completing \ {r}
    /\ recorded' = recorded \cup {r}
    /\ UNCHANGED <<phone, timers, issued, sent, inbox, row, desktop>>

(* The update of complete sets the status whatever it was.                    *)
RecordResult(r) ==
    /\ r \in completing
    /\ completing' = completing \ {r}
    /\ row' = [row EXCEPT ![r.cmd] = Status(r.outcome)]
    /\ recorded' = recorded \cup {r}
    /\ UNCHANGED <<phone, timers, issued, sent, inbox, desktop>>

(* A query of complete rejects: the handler logs it and drops the result.     *)
CompleteFails(r) ==
    /\ "fault" \in Disturbances
    /\ r \in completing
    /\ completing' = completing \ {r}
    /\ UNCHANGED <<phone, timers, issued, sent, inbox, row, recorded, desktop>>

(* Then the result is forwarded to the user. *)
DeliverResult(r) ==
    /\ r \in recorded
    /\ recorded' = recorded \ {r}
    /\ Emit([type |-> "result", cmd |-> r.cmd])
    /\ UNCHANGED <<phone, timers, issued, sent, row, completing, desktop>>

(* Rows are never deleted: what complete finds first is still there when it   *)
(* updates, and a cancel that fails has changed nothing.                      *)
HandleCommandCancel(c) ==
    /\ "cancel" \in Disturbances
    /\ row[c] \notin {"none", "CANCELLED"}
    /\ row' = [row EXCEPT ![c] = "CANCELLED"]
    /\ UNCHANGED <<phone, timers, issued, sent, inbox, completing, recorded, desktop>>

-----------------------------------------------------------------------------
(* emitResult, on this.socket: nothing without one; socket.io sends at once   *)
(* or keeps it until that socket connects again.                              *)
EmitResult(k, c, o) ==
    LET report == <<current, [by |-> k, cmd |-> c, outcome |-> o]>>
    IN /\ results' = IF current \in up THEN results \cup {report} ELSE results
       /\ outbox' = IF current \in opened \ up THEN outbox \cup {report} ELSE outbox

(* The desktop's own blacklist refuses what it takes for dangerous. *)
BlockCommand(k, c) ==
    /\ <<k, c>> \in orders
    /\ orders' = orders \ {<<k, c>>}
    /\ EmitResult(k, c, "error")
    /\ UNCHANGED <<phone, timers, issued, sent, inbox, server, sockets, running>>

(* Any other is executed, whichever of the sockets brought it. *)
StartCommand(k, c) ==
    /\ <<k, c>> \in orders
    /\ orders' = orders \ {<<k, c>>}
    /\ running' = running \cup {<<k, c>>}
    /\ UNCHANGED <<phone, timers, issued, sent, inbox, server, sockets, results, outbox>>

\* Mutant: a command that fails rejects instead, and nothing is emitted.
FinishSuccessOnly(k, c, o) ==
    /\ <<k, c>> \in running
    /\ running' = running \ {<<k, c>>}
    /\ IF o = "success" THEN EmitResult(k, c, o) ELSE UNCHANGED <<results, outbox>>
    /\ UNCHANGED <<phone, timers, issued, sent, inbox, server, sockets, orders>>

(* execute always resolves: with the output, an error, or its own timeout. *)
FinishCommand(k, c, o) ==
    /\ <<k, c>> \in running
    /\ running' = running \ {<<k, c>>}
    /\ EmitResult(k, c, o)
    /\ UNCHANGED <<phone, timers, issued, sent, inbox, server, sockets, orders>>

-----------------------------------------------------------------------------
(* What is left of a set of <<socket, payload>> when the sockets K are gone. *)
Without(S, K) == {m \in S : m[1] \notin K}

DesktopDrops(k) ==
    /\ "drop" \in Disturbances
    /\ k \in up
    /\ up' = up \ {k} /\ linked' = linked \ {k}
    /\ orders' = Without(orders, {k}) /\ results' = Without(results, {k})
    /\ UNCHANGED <<phone, timers, issued, sent, inbox, server, opened, current, running, outbox>>

(* The application ends: nothing it executes or buffers survives. *)
DesktopQuits ==
    /\ "quit" \in Disturbances
    /\ opened' = {} /\ current' = NoSock /\ up' = {} /\ linked' = {}
    /\ orders' = {} /\ results' = {} /\ running' = {} /\ outbox' = {}
    /\ UNCHANGED <<phone, timers, issued, sent, inbox, server>>

\* Mutant: disconnect() forgets this.socket and does not close it.
DesktopForgets ==
    /\ "quit" \in Disturbances
    /\ current # NoSock
    /\ current' = NoSock
    /\ UNCHANGED <<phone, timers, issued, sent, inbox, server, opened, up, linked, orders, running,
                   results, outbox>>

(* disconnect(), by a logout: only this.socket is closed, and what runs runs on. *)
DesktopDisconnects ==
    /\ "quit" \in Disturbances
    /\ current # NoSock
    /\ opened' = opened \ {current} /\ up' = up \ {current} /\ linked' = linked \ {current}
    /\ current' = NoSock
    /\ orders' = Without(orders, {current}) /\ results' = Without(results, {current})
    /\ outbox' = Without(outbox, {current})
    /\ UNCHANGED <<phone, timers, issued, sent, inbox, server, running>>

(* connect(): a socket the application had before is left as it is. *)
DesktopConnects(k) ==
    /\ current # NoSock => "twice" \in Disturbances
    /\ k \notin opened
    /\ opened' = opened \cup {k} /\ current' = k
    /\ UNCHANGED <<phone, timers, issued, sent, inbox, server, up, linked, orders, running, results,
                   outbox>>

(* A socket connects and flushes its buffer; its listener emits               *)
(* device:register on this.socket, whichever of them has connected.           *)
SocketConnects(k) ==
    /\ k \in opened \ up
    /\ up' = up \cup {k}
    /\ linked' = linked \cup ({current} \cap up')
    /\ results' = results \cup {m \in outbox : m[1] = k}
    /\ outbox' = Without(outbox, {k})
    /\ UNCHANGED <<phone, timers, issued, sent, inbox, server, opened, current, orders, running>>

(* What was on its way is lost; a request not yet written is sent again. *)
PhoneDrops(p) ==
    /\ "drop" \in Disturbances
    /\ inbox' = [inbox EXCEPT ![p] = <<>>]
    /\ \E lost \in SUBSET {m \in sent : m[1] = p} : sent' = sent \ lost
    /\ UNCHANGED <<phone, timers, issued, server, desktop>>

-----------------------------------------------------------------------------
ServerStep ==
    \/ \E p \in Phone, c \in Command : RefuseCommand(p, c) \/ HandleCommandSend(p, c)
    \/ \E r \in Report :
          \/ \E k \in Sock : HandleResult(k, r)
          \/ RecordResult(r) \/ DeliverResult(r)

DesktopStep ==
    \E k \in Sock :
        \/ \E c \in Command :
              BlockCommand(k, c) \/ StartCommand(k, c) \/ \E o \in Outcome : FinishCommand(k, c, o)
        \/ SocketConnects(k)

Next ==
    \/ \E p \in Phone :
          \/ Reset(p) \/ PhoneReceives(p) \/ PhoneDrops(p)
          \/ \E c \in Command : ExecuteCommand(p, c) \/ TimerFires(p, c)
    \/ ServerStep
    \/ DesktopStep
    \/ \E c \in Command : HandleCommandCancel(c)
    \/ \E r \in Report : CompleteFails(r)
    \/ \E k \in Sock : DesktopDrops(k) \/ DesktopConnects(k)
    \/ DesktopQuits \/ DesktopDisconnects

Spec == Init /\ [][Next]_vars

(* Messages are handled, executions end, timers fire, sockets reconnect. *)
Fairness ==
    /\ WF_vars(ServerStep) /\ WF_vars(DesktopStep)
    /\ \A p \in Phone :
          WF_vars(PhoneReceives(p)) /\ \A c \in Command : WF_vars(TimerFires(p, c))

-----------------------------------------------------------------------------
PhoneRecord ==
    [state : {"idle", "sending", "waiting", "completed", "error"},
     mine : Command \cup {NoCommand}, tracked : Command \cup {NoCommand},
     shown : Command \cup {NoCommand}, timedOut : Command \cup {NoCommand}]

TypeOK ==
    /\ phone \in [Phone -> PhoneRecord]
    /\ inbox \in [Phone -> Seq(Event)]
    /\ timers \cup sent \subseteq Phone \X Command /\ issued \subseteq Command
    /\ row \in [Command -> {"none", "PENDING", "COMPLETED", "FAILED", "CANCELLED"}]
    /\ linked \subseteq up /\ up \subseteq opened /\ opened \subseteq Sock
    /\ current \in opened \cup {NoSock}
    /\ orders \cup running \subseteq Sock \X Command
    /\ completing \cup recorded \subseteq Report
    /\ results \cup outbox \subseteq Sock \X Report

(* "Results correspond to commands one to one": the result a phone shows is   *)
(* the result of the command it sent last.                                    *)
ShownIsOwn == \A p \in Phone : phone[p].state = "completed" => phone[p].shown = phone[p].mine

(* However drops, restarts, cancels and late results mix: what a phone shows  *)
(* as a result was executed or blocked on the desktop and is stored.          *)
ShownIsStored ==
    \A p \in Phone : phone[p].shown # NoCommand => row[phone[p].shown] \notin {"none", "PENDING"}

(* A phone does not wait for ever, whatever is lost: its timer ends the wait. *)
WaitEnds == \A p \in Phone : Busy(p) ~> ~Busy(p)
=============================================================================
