------------------------- MODULE DeviceCommandProofs -------------------------
(***************************************************************************)
(* Theorems about DeviceCommand, for any number of phones, commands and    *)
(* sockets and any disturbances.  A command without a row is nowhere but   *)
(* on its way to the server, once; and whatever was or will be told of a   *)
(* result is of a command whose row is settled.  As long as connect()      *)
(* never leaves a second socket, a command is in one place, and one that   *)
(* has a report is not with the desktop any more.  The last part follows   *)
(* one phone that waits for each result before the next command.           *)
(***************************************************************************)
EXTENDS MCDeviceCommand, SequenceTheorems, TLAPS

Desk == orders \cup running
Wire == results \cup outbox
Held == completing \cup recorded
Settled(c) == row[c] \notin {"none", "PENDING"}

(* The way to the server. *)
SentOnce ==
    /\ \A p, q \in Phone, c \in Command : <<p, c>> \in sent /\ <<q, c>> \in sent => p = q
    /\ \A p \in Phone, c \in Command : <<p, c>> \in sent => c \in issued /\ row[c] = "none"
    /\ \A c \in Command \ issued : row[c] = "none"

(* The way to the desktop and back. *)
HasRow ==
    /\ \A m \in Desk : row[m[2]] # "none"
    /\ \A m \in Wire : row[m[2].cmd] # "none"
    /\ \A r \in Held : row[r.cmd] # "none"

(* The way to the phones. *)
Told(p) == \A i \in DOMAIN inbox[p] : inbox[p][i].type = "result" => Settled(inbox[p][i].cmd)
Shown(p) == phone[p].shown # NoCommand => Settled(phone[p].shown)

ToldSettled ==
    /\ \A r \in recorded : Settled(r.cmd)
    /\ \A p \in Phone : Told(p) /\ Shown(p)

IInv == TypeOK /\ SentOnce /\ HasRow /\ ToldSettled

-----------------------------------------------------------------------------
(* Types. *)
LEMMA TypeInit == Init => TypeOK
  BY DEF Init, TypeOK, Blank, PhoneRecord

LEMMA PhoneTyped ==
    ASSUME NEW r \in PhoneRecord, NEW c \in Command
    PROVE  /\ [r EXCEPT !.state = "sending", !.mine = c, !.shown = NoCommand,
                        !.timedOut = NoCommand] \in PhoneRecord
           /\ [r EXCEPT !.state = "error", !.timedOut = c] \in PhoneRecord
           /\ [r EXCEPT !.state = "error"] \in PhoneRecord
           /\ [r EXCEPT !.state = "waiting", !.tracked = c] \in PhoneRecord
           /\ [r EXCEPT !.state = "completed", !.shown = c, !.timedOut = NoCommand]
                 \in PhoneRecord
  BY ZenonT(30) DEF PhoneRecord

LEMMA BlankTyped == Blank \in PhoneRecord
  BY DEF PhoneRecord, Blank

LEMMA EmitTyped ==
    ASSUME inbox \in [Phone -> Seq(Event)], NEW e \in Event, Emit(e)
    PROVE  inbox' \in [Phone -> Seq(Event)]
  BY DEF Emit

LEMMA ReactTyped ==
    ASSUME TypeOK, NEW p \in Phone, NEW e \in Event
    PROVE  React(p, e) \in [Phone -> PhoneRecord]
  <1>1. phone[p] \in PhoneRecord /\ e.cmd \in Command
    BY DEF TypeOK, Event
  <1> QED
    BY <1>1, PhoneTyped DEF React, TypeOK

LEMMA EmitTypedReport ==
    ASSUME TypeOK, NEW k \in Sock, NEW c \in Command, NEW o \in Outcome, EmitResult(k, c, o)
    PROVE  (results \cup outbox)' \subseteq Sock \X Report
  <1> DEFINE report == <<current, [by |-> k, cmd |-> c, outcome |-> o]>>
  <1>1. current \in opened => report \in Sock \X Report
    BY DEF TypeOK, Report
  <1>2. up \subseteq opened /\ results \cup outbox \subseteq Sock \X Report
    BY DEF TypeOK
  <1>3. /\ results' = IF current \in up THEN results \cup {report} ELSE results
        /\ outbox' = IF current \in opened \ up THEN outbox \cup {report} ELSE outbox
    BY DEF EmitResult
  <1> HIDE DEF report
  <1> QED
    BY <1>1, <1>2, <1>3

LEMMA TypeStep == TypeOK /\ Next => TypeOK'
  <1> SUFFICES ASSUME TypeOK, Next PROVE TypeOK'
    OBVIOUS
  <1>1. ASSUME NEW p \in Phone, Reset(p) PROVE TypeOK'
    <2>1. phone' = [phone EXCEPT ![p] = Blank]
      BY <1>1 DEF Reset
    <2>2. phone' \in [Phone -> PhoneRecord]
      BY <2>1, BlankTyped DEF TypeOK
    <2> QED
      BY <1>1, <2>2 DEF TypeOK, Reset, server, desktop, sockets
  <1>2. ASSUME NEW p \in Phone, PhoneReceives(p) PROVE TypeOK'
    <2>1. Head(inbox[p]) \in Event /\ Tail(inbox[p]) \in Seq(Event)
      BY <1>2 DEF TypeOK, PhoneReceives
    <2>2. phone' \in [Phone -> PhoneRecord]
      BY <1>2, <2>1, ReactTyped DEF PhoneReceives
    <2> QED
      BY <1>2, <2>1, <2>2 DEF TypeOK, PhoneReceives, server, desktop, sockets
  <1>3. ASSUME NEW p \in Phone, PhoneDrops(p) PROVE TypeOK'
    BY <1>3 DEF TypeOK, PhoneDrops, server, desktop, sockets
  <1>4. ASSUME NEW p \in Phone, NEW c \in Command, ExecuteCommand(p, c) PROVE TypeOK'
    <2>1. phone' \in [Phone -> PhoneRecord]
      BY <1>4, PhoneTyped DEF TypeOK, ExecuteCommand
    <2> QED
      BY <1>4, <2>1 DEF TypeOK, ExecuteCommand, server, desktop, sockets
  <1>5. ASSUME NEW p \in Phone, NEW c \in Command, TimerFires(p, c) PROVE TypeOK'
    <2>1. phone' \in [Phone -> PhoneRecord]
      BY <1>5, PhoneTyped DEF TypeOK, TimerFires
    <2> QED
      BY <1>5, <2>1 DEF TypeOK, TimerFires, server, desktop, sockets
  <1>6. ASSUME NEW p \in Phone, NEW c \in Command, RefuseCommand(p, c) PROVE TypeOK'
    <2>1. [type |-> "rejected", cmd |-> c] \in Event
      BY DEF Event
    <2>2. inbox' \in [Phone -> Seq(Event)]
      BY <1>6, <2>1 DEF TypeOK, RefuseCommand
    <2> QED
      BY <1>6, <2>2 DEF TypeOK, RefuseCommand, server, desktop, sockets
  <1>7. ASSUME NEW p \in Phone, NEW c \in Command, HandleCommandSend(p, c) PROVE TypeOK'
    <2>1. [type |-> "ack", cmd |-> c] \in Event
      BY DEF Event
    <2>2. inbox' \in [Phone -> Seq(Event)]
      BY <1>7, <2>1, EmitTyped DEF TypeOK, HandleCommandSend
    <2>3. linked \X {c} \subseteq Sock \X Command
      BY DEF TypeOK
    <2> QED
      BY <1>7, <2>2, <2>3 DEF TypeOK, HandleCommandSend, sockets
  <1>8. ASSUME NEW k \in Sock, NEW r \in Report, HandleResult(k, r) PROVE TypeOK'
    BY <1>8 DEF TypeOK, HandleResult, sockets
  <1>9. ASSUME NEW r \in Report, RecordResult(r) PROVE TypeOK'
    <2>1. Status(r.outcome) \in {"COMPLETED", "FAILED"}
      BY DEF Status
    <2> QED
      BY <1>9, <2>1 DEF TypeOK, RecordResult, desktop, sockets
  <1>10. ASSUME NEW r \in Report, CompleteFails(r) PROVE TypeOK'
    BY <1>10 DEF TypeOK, CompleteFails, desktop, sockets
  <1>11. ASSUME NEW r \in Report, DeliverResult(r) PROVE TypeOK'
    <2>1. [type |-> "result", cmd |-> r.cmd] \in Event
      BY DEF Event, Report
    <2>2. inbox' \in [Phone -> Seq(Event)]
      BY <1>11, <2>1, EmitTyped DEF TypeOK, DeliverResult
    <2> QED
      BY <1>11, <2>2 DEF TypeOK, DeliverResult, desktop, sockets
  <1>12. ASSUME NEW c \in Command, HandleCommandCancel(c) PROVE TypeOK'
    BY <1>12 DEF TypeOK, HandleCommandCancel, desktop, sockets
  <1>13. ASSUME NEW k \in Sock, NEW c \in Command, BlockCommand(k, c) PROVE TypeOK'
    <2>1. "error" \in Outcome
      BY DEF Outcome
    <2>2. (results \cup outbox)' \subseteq Sock \X Report
      BY <1>13, <2>1, EmitTypedReport DEF BlockCommand
    <2> QED
      BY <1>13, <2>2 DEF TypeOK, BlockCommand, server, sockets
  <1>14. ASSUME NEW k \in Sock, NEW c \in Command, StartCommand(k, c) PROVE TypeOK'
    BY <1>14 DEF TypeOK, StartCommand, server, sockets
  <1>15. ASSUME NEW k \in Sock, NEW c \in Command, NEW o \in Outcome, FinishCommand(k, c, o) PROVE TypeOK'
    <2>1. (results \cup outbox)' \subseteq Sock \X Report
      BY <1>15, EmitTypedReport DEF FinishCommand
    <2> QED
      BY <1>15, <2>1 DEF TypeOK, FinishCommand, server, sockets
  <1>16. ASSUME NEW k \in Sock, DesktopDrops(k) PROVE TypeOK'
    BY <1>16 DEF TypeOK, DesktopDrops, Without, server
  <1>17. CASE DesktopQuits
    BY <1>17 DEF TypeOK, DesktopQuits, server
  <1>18. CASE DesktopDisconnects
    BY <1>18 DEF TypeOK, DesktopDisconnects, Without, server
  <1>19. ASSUME NEW k \in Sock, DesktopConnects(k) PROVE TypeOK'
    BY <1>19 DEF TypeOK, DesktopConnects, server
  <1>20. ASSUME NEW k \in Sock, SocketConnects(k) PROVE TypeOK'
    BY <1>20 DEF TypeOK, SocketConnects, Without, server
  <1> QED
    BY <1>1, <1>2, <1>3, <1>4, <1>5, <1>6, <1>7, <1>8, <1>9, <1>10, <1>11, <1>12, <1>13,
       <1>14, <1>15, <1>16, <1>17, <1>18, <1>19, <1>20 DEF Next, ServerStep, DesktopStep

-----------------------------------------------------------------------------
(* A step changes the row of one command at most, and never takes it away. *)
LEMMA RowGrows ==
    ASSUME IInv, Next, NEW c \in Command
    PROVE  /\ row[c] # "none" => row'[c] # "none"
           /\ Settled(c) => Settled(c)'
  <1>1. ASSUME NEW p \in Phone, NEW d \in Command, HandleCommandSend(p, d)
        PROVE  row' = [row EXCEPT ![d] = "PENDING"] /\ row[d] = "none"
    BY <1>1 DEF IInv, SentOnce, HandleCommandSend
  <1>2. ASSUME NEW r \in Report, RecordResult(r)
        PROVE  row' = [row EXCEPT ![r.cmd] = Status(r.outcome)] /\ Status(r.outcome) \in {"COMPLETED", "FAILED"}
    BY <1>2 DEF RecordResult, Status
  <1>3. ASSUME NEW d \in Command, HandleCommandCancel(d)
        PROVE  row' = [row EXCEPT ![d] = "CANCELLED"] /\ row[d] # "none"
    BY <1>3 DEF HandleCommandCancel
  <1>4. CASE row' = row
    BY <1>4 DEF Settled
  <1>5. \/ row' = row
        \/ \E p \in Phone, d \in Command : HandleCommandSend(p, d)
        \/ \E r \in Report : RecordResult(r)
        \/ \E d \in Command : HandleCommandCancel(d)
    BY DEF Next, ServerStep, DesktopStep, Reset, PhoneReceives, PhoneDrops, ExecuteCommand, TimerFires,
           RefuseCommand, HandleResult, CompleteFails, DeliverResult, BlockCommand, StartCommand,
           FinishCommand, DesktopDrops, DesktopQuits, DesktopDisconnects, DesktopConnects, SocketConnects,
           server
  <1>6. row \in [Command -> {"none", "PENDING", "COMPLETED", "FAILED", "CANCELLED"}]
    BY DEF IInv, TypeOK
  <1> QED
    BY <1>1, <1>2, <1>3, <1>4, <1>5, <1>6 DEF Settled

(* What no step but the ones of the server and of the phone's socket touches. *)
LEMMA SentOnceStep == IInv /\ Next => SentOnce'
  <1> SUFFICES ASSUME IInv, Next PROVE SentOnce'
    OBVIOUS
  <1> USE DEF IInv, TypeOK, SentOnce
  <1>1. ASSUME NEW p \in Phone, NEW c \in Command, ExecuteCommand(p, c) PROVE SentOnce'
    BY <1>1 DEF ExecuteCommand, server
  <1>2. ASSUME NEW p \in Phone, NEW c \in Command, RefuseCommand(p, c) PROVE SentOnce'
    BY <1>2 DEF RefuseCommand, server
  <1>3. ASSUME NEW p \in Phone, NEW c \in Command, HandleCommandSend(p, c) PROVE SentOnce'
    BY <1>3 DEF HandleCommandSend
  <1>4. ASSUME NEW p \in Phone, PhoneDrops(p) PROVE SentOnce'
    BY <1>4 DEF PhoneDrops, server
  <1>5. ASSUME NEW r \in Report, RecordResult(r) PROVE SentOnce'
    <2>1. r.cmd \in Command /\ row[r.cmd] # "none"
      BY <1>5 DEF RecordResult, HasRow, Held, Report
    <2> QED
      BY <1>5, <2>1 DEF RecordResult
  <1>6. ASSUME NEW c \in Command, HandleCommandCancel(c) PROVE SentOnce'
    BY <1>6 DEF HandleCommandCancel
  <1>7. CASE UNCHANGED <<issued, sent, row>>
    BY <1>7
  <1> QED
    BY <1>1, <1>2, <1>3, <1>4, <1>5, <1>6, <1>7
       DEF Next, ServerStep, DesktopStep, Reset, PhoneReceives, TimerFires, HandleResult, CompleteFails,
           DeliverResult, BlockCommand, StartCommand, FinishCommand, DesktopDrops, DesktopQuits,
           DesktopDisconnects, DesktopConnects, SocketConnects, server

-----------------------------------------------------------------------------
(* What a step may add to what is under way, and where. *)
LEMMA DeskGrows ==
    ASSUME IInv, Next, NEW m \in Desk'
    PROVE  m \in Desk \/ \E p \in Phone, c \in Command : HandleCommandSend(p, c) /\ m \in linked \X {c}
  BY DEF Desk, Next, ServerStep, DesktopStep, Reset, PhoneReceives, PhoneDrops, ExecuteCommand,
         TimerFires, RefuseCommand, HandleCommandSend, HandleResult, RecordResult, CompleteFails,
         DeliverResult, HandleCommandCancel, BlockCommand, StartCommand, FinishCommand, DesktopDrops,
         DesktopQuits, DesktopDisconnects, DesktopConnects, SocketConnects, Without, desktop

LEMMA OrdersGrow ==
    ASSUME IInv, Next, NEW m \in orders'
    PROVE  m \in orders \/ \E p \in Phone, c \in Command : HandleCommandSend(p, c) /\ m \in linked \X {c}
  BY DEF Next, ServerStep, DesktopStep, Reset, PhoneReceives, PhoneDrops, ExecuteCommand,
         TimerFires, RefuseCommand, HandleCommandSend, HandleResult, RecordResult, CompleteFails,
         DeliverResult, HandleCommandCancel, BlockCommand, StartCommand, FinishCommand, DesktopDrops,
         DesktopQuits, DesktopDisconnects, DesktopConnects, SocketConnects, Without, desktop

LEMMA WireGrows ==
    ASSUME IInv, Next, NEW m \in Wire'
    PROVE  m \in Wire \/ \E n \in Desk : m[2].cmd = n[2]
  <1>1. ASSUME NEW k \in Sock, NEW c \in Command, BlockCommand(k, c)
        PROVE  m \in Wire \/ \E n \in Desk : m[2].cmd = n[2]
    <2>1. <<k, c>> \in Desk /\ (m \in Wire \/ m[2].cmd = c)
      BY <1>1 DEF BlockCommand, EmitResult, Wire, Desk
    <2> QED
      BY <2>1
  <1>2. ASSUME NEW k \in Sock, NEW c \in Command, NEW o \in Outcome, FinishCommand(k, c, o)
        PROVE  m \in Wire \/ \E n \in Desk : m[2].cmd = n[2]
    <2>1. <<k, c>> \in Desk /\ (m \in Wire \/ m[2].cmd = c)
      BY <1>2 DEF FinishCommand, EmitResult, Wire, Desk
    <2> QED
      BY <2>1
  <1> QED
    BY <1>1, <1>2
       DEF Wire, Next, ServerStep, DesktopStep, Reset, PhoneReceives, PhoneDrops, ExecuteCommand,
           TimerFires, RefuseCommand, HandleCommandSend, HandleResult, RecordResult, CompleteFails,
           DeliverResult, HandleCommandCancel, StartCommand, DesktopDrops, DesktopQuits,
           DesktopDisconnects, DesktopConnects, SocketConnects, Without, desktop

LEMMA HeldGrows ==
    ASSUME IInv, Next, NEW r \in Held'
    PROVE  r \in Held \/ \E m \in Wire : m[2] = r
  <1>1. ASSUME NEW k \in Sock, NEW s \in Report, HandleResult(k, s)
        PROVE  r \in Held \/ \E m \in Wire : m[2] = r
    <2>1. <<k, s>> \in Wire /\ (r \in Held \/ r = s)
      BY <1>1 DEF HandleResult, Wire, Held
    <2> QED
      BY <2>1
  <1> QED
    BY <1>1
       DEF Held, Next, ServerStep, DesktopStep, Reset, PhoneReceives, PhoneDrops, ExecuteCommand,
           TimerFires, RefuseCommand, HandleCommandSend, RecordResult, CompleteFails, DeliverResult,
           HandleCommandCancel, BlockCommand, StartCommand, FinishCommand, DesktopDrops, DesktopQuits,
           DesktopDisconnects, DesktopConnects, SocketConnects, server

LEMMA HasRowStep == IInv /\ Next => HasRow'
  <1> SUFFICES ASSUME IInv, Next PROVE HasRow'
    OBVIOUS
  <1>1. /\ \A m \in Desk : m[2] \in Command /\ row[m[2]] # "none"
        /\ \A m \in Wire : m[2] \in Report /\ row[m[2].cmd] # "none"
        /\ \A r \in Held : r \in Report /\ row[r.cmd] # "none"
        /\ \A r \in Report : r.cmd \in Command
    BY DEF IInv, TypeOK, HasRow, Desk, Wire, Held, Report
  <1>2. \A c \in Command : row[c] # "none" => row'[c] # "none"
    BY RowGrows
  <1>3. ASSUME NEW m \in Desk' PROVE row'[m[2]] # "none"
    <2>1. CASE m \in Desk
      BY <1>1, <1>2, <2>1
    <2>2. ASSUME NEW p \in Phone, NEW c \in Command, HandleCommandSend(p, c), m \in linked \X {c}
          PROVE  row'[m[2]] # "none"
      BY <2>2 DEF HandleCommandSend, IInv, TypeOK
    <2> QED
      BY <1>3, <2>1, <2>2, DeskGrows
  <1>4. ASSUME NEW m \in Wire' PROVE row'[m[2].cmd] # "none"
    <2>1. m \in Wire \/ \E n \in Desk : m[2].cmd = n[2]
      BY <1>4, WireGrows
    <2> QED
      BY <1>1, <1>2, <2>1
  <1>5. ASSUME NEW r \in Held' PROVE row'[r.cmd] # "none"
    <2>1. r \in Held \/ \E m \in Wire : m[2] = r
      BY <1>5, HeldGrows
    <2> QED
      BY <1>1, <1>2, <2>1
  <1> QED
    BY <1>3, <1>4, <1>5 DEF HasRow

-----------------------------------------------------------------------------
(* Appending an event, or taking one, leaves what else is told. *)
LEMMA SettledStays ==
    ASSUME IInv, Next, NEW c \in Command, Settled(c)
    PROVE  row'[c] \notin {"none", "PENDING"}
  BY RowGrows DEF Settled

LEMMA ToldAppend ==
    ASSUME IInv, Next, NEW p \in Phone, NEW e \in Event,
           inbox'[p] = Append(inbox[p], e), e.type = "result" => Settled(e.cmd)
    PROVE  Told(p)'
  <1>1. inbox[p] \in Seq(Event) /\ Told(p)
    BY DEF IInv, TypeOK, ToldSettled
  <1>2. SUFFICES ASSUME NEW i \in DOMAIN inbox'[p], inbox'[p][i].type = "result"
                 PROVE  row'[inbox'[p][i].cmd] \notin {"none", "PENDING"}
    BY DEF Told, Settled
  <1>3. (i \in DOMAIN inbox[p] /\ inbox'[p][i] = inbox[p][i]) \/ inbox'[p][i] = e
    BY <1>1
  <1>4. inbox'[p][i] \in Event /\ Settled(inbox'[p][i].cmd)
    BY <1>1, <1>2, <1>3 DEF Told
  <1>5. inbox'[p][i].cmd \in Command
    BY <1>4 DEF Event
  <1> QED
    BY <1>4, <1>5, SettledStays

LEMMA ToldStays ==
    ASSUME IInv, Next, NEW p \in Phone,
           inbox'[p] \in {inbox[p], <<>>} \/ (inbox[p] # <<>> /\ inbox'[p] = Tail(inbox[p]))
    PROVE  Told(p)'
  <1>1. inbox[p] \in Seq(Event) /\ Told(p)
    BY DEF IInv, TypeOK, ToldSettled
  <1>2. SUFFICES ASSUME NEW i \in DOMAIN inbox'[p], inbox'[p][i].type = "result"
                 PROVE  row'[inbox'[p][i].cmd] \notin {"none", "PENDING"}
    BY DEF Told, Settled
  <1>3. \E j \in DOMAIN inbox[p] : inbox'[p][i] = inbox[p][j]
    <2>1. CASE inbox'[p] \in {inbox[p], <<>>}
      BY <2>1
    <2>2. CASE inbox[p] # <<>> /\ inbox'[p] = Tail(inbox[p])
      <3>1. i + 1 \in DOMAIN inbox[p] /\ inbox'[p][i] = inbox[p][i + 1]
        BY <1>1, <2>2
      <3> QED
        BY <3>1
    <2> QED
      BY <2>1, <2>2
  <1>4. inbox'[p][i] \in Event /\ Settled(inbox'[p][i].cmd)
    BY <1>1, <1>2, <1>3 DEF Told
  <1>5. inbox'[p][i].cmd \in Command
    BY <1>4 DEF Event
  <1> QED
    BY <1>4, <1>5, SettledStays

LEMMA ShownStays ==
    ASSUME IInv, Next, NEW p \in Phone, phone'[p].shown \in {phone[p].shown, NoCommand}
    PROVE  Shown(p)'
  <1>1. phone[p].shown \in Command \cup {NoCommand} /\ Shown(p)
    BY DEF IInv, TypeOK, PhoneRecord, ToldSettled
  <1>2. SUFFICES ASSUME phone'[p].shown # NoCommand
                 PROVE  row'[phone'[p].shown] \notin {"none", "PENDING"}
    BY DEF Shown, Settled
  <1> QED
    BY <1>1, <1>2, SettledStays DEF Shown

LEMMA ShownStep == IInv /\ Next => \A p \in Phone : Shown(p)'
  <1> SUFFICES ASSUME IInv, Next, NEW p \in Phone PROVE Shown(p)'
    OBVIOUS
  <1>0. phone \in [Phone -> PhoneRecord]
    BY DEF IInv, TypeOK
  <1>1. ASSUME NEW q \in Phone, Reset(q) PROVE Shown(p)'
    BY <1>0, <1>1, ShownStays DEF Reset, Blank
  <1>2. ASSUME NEW q \in Phone, NEW c \in Command, ExecuteCommand(q, c) PROVE Shown(p)'
    BY <1>0, <1>2, ShownStays DEF ExecuteCommand, PhoneRecord
  <1>3. ASSUME NEW q \in Phone, NEW c \in Command, TimerFires(q, c) PROVE Shown(p)'
    BY <1>0, <1>3, ShownStays DEF TimerFires, PhoneRecord
  <1>4. ASSUME NEW q \in Phone, PhoneReceives(q) PROVE Shown(p)'
    <2> DEFINE e == Head(inbox[q])
    <2>1. inbox[q] \in Seq(Event) /\ inbox[q] # <<>> /\ Told(q) /\ phone' = React(q, e)
      BY <1>4 DEF IInv, TypeOK, ToldSettled, PhoneReceives
    <2>2. e \in Event /\ (e.type = "result" => Settled(e.cmd))
      BY <2>1 DEF Told
    <2>3. phone'[p].shown \in {phone[p].shown, NoCommand} \/ (phone'[p].shown = e.cmd /\ e.type = "result")
      BY <1>0, <2>1 DEF React, PhoneRecord
    <2>4. CASE phone'[p].shown \in {phone[p].shown, NoCommand}
      BY <2>4, ShownStays
    <2>5. CASE phone'[p].shown = e.cmd /\ e.type = "result"
      <3>1. e.cmd \in Command /\ Settled(e.cmd)
        BY <2>2, <2>5 DEF Event
      <3>2. row'[e.cmd] \notin {"none", "PENDING"}
        BY <3>1, SettledStays
      <3> QED
        BY <2>5, <3>2 DEF Shown, Settled
    <2> QED
      BY <2>3, <2>4, <2>5
  <1>5. CASE phone' = phone
    BY <1>5, ShownStays
  <1> QED
    BY <1>1, <1>2, <1>3, <1>4, <1>5
       DEF Next, ServerStep, DesktopStep, PhoneDrops, RefuseCommand, HandleCommandSend, HandleResult,
           RecordResult, CompleteFails, DeliverResult, HandleCommandCancel, BlockCommand, StartCommand,
           FinishCommand, DesktopDrops, DesktopQuits, DesktopDisconnects, DesktopConnects, SocketConnects

LEMMA ToldStep == IInv /\ Next => \A p \in Phone : Told(p)'
  <1> SUFFICES ASSUME IInv, Next, NEW p \in Phone PROVE Told(p)'
    OBVIOUS
  <1>0. inbox \in [Phone -> Seq(Event)]
    BY DEF IInv, TypeOK
  <1>1. ASSUME NEW q \in Phone, PhoneReceives(q) PROVE Told(p)'
    BY <1>0, <1>1, ToldStays DEF PhoneReceives
  <1>2. ASSUME NEW q \in Phone, PhoneDrops(q) PROVE Told(p)'
    BY <1>0, <1>2, ToldStays DEF PhoneDrops
  <1>3. ASSUME NEW q \in Phone, NEW c \in Command, RefuseCommand(q, c) PROVE Told(p)'
    <2> DEFINE e == [type |-> "rejected", cmd |-> c]
    <2>1. e \in Event /\ e.type # "result"
      BY DEF Event
    <2>2. inbox'[p] \in {inbox[p]} \/ inbox'[p] = Append(inbox[p], e)
      BY <1>0, <1>3 DEF RefuseCommand
    <2> QED
      BY <2>1, <2>2, ToldAppend, ToldStays
  <1>4. ASSUME NEW q \in Phone, NEW c \in Command, HandleCommandSend(q, c) PROVE Told(p)'
    <2> DEFINE e == [type |-> "ack", cmd |-> c]
    <2>1. e \in Event /\ e.type # "result"
      BY DEF Event
    <2>2. inbox'[p] = Append(inbox[p], e)
      BY <1>0, <1>4 DEF HandleCommandSend, Emit
    <2> QED
      BY <2>1, <2>2, ToldAppend
  <1>5. ASSUME NEW r \in Report, DeliverResult(r) PROVE Told(p)'
    <2> DEFINE e == [type |-> "result", cmd |-> r.cmd]
    <2>1. e \in Event /\ Settled(e.cmd)
      BY <1>5 DEF Event, Report, DeliverResult, IInv, ToldSettled
    <2>2. inbox'[p] = Append(inbox[p], e)
      BY <1>0, <1>5 DEF DeliverResult, Emit
    <2> QED
      BY <2>1, <2>2, ToldAppend
  <1>6. CASE inbox' = inbox
    BY <1>6, ToldStays
  <1> QED
    BY <1>1, <1>2, <1>3, <1>4, <1>5, <1>6
       DEF Next, ServerStep, DesktopStep, Reset, ExecuteCommand, TimerFires, HandleResult, RecordResult,
           CompleteFails, HandleCommandCancel, BlockCommand, StartCommand, FinishCommand, DesktopDrops,
           DesktopQuits, DesktopDisconnects, DesktopConnects, SocketConnects, server

LEMMA RecordedStep == IInv /\ Next => (\A r \in recorded : Settled(r.cmd))'
  <1> SUFFICES ASSUME IInv, Next, NEW r \in recorded' PROVE row'[r.cmd] \notin {"none", "PENDING"}
    BY DEF Settled
  <1>1. \A s \in recorded : s.cmd \in Command /\ Settled(s.cmd)
    BY DEF IInv, TypeOK, Report, ToldSettled
  <1>2. CASE r \in recorded
    BY <1>1, <1>2, SettledStays
  <1>3. ASSUME NEW s \in Report, RecordResult(s) PROVE row'[r.cmd] \notin {"none", "PENDING"}
    <2>1. row' = [row EXCEPT ![s.cmd] = Status(s.outcome)] /\ (r \in recorded \/ r = s)
      BY <1>3 DEF RecordResult
    <2>2. s.cmd \in DOMAIN row /\ Status(s.outcome) \in {"COMPLETED", "FAILED"}
      BY DEF IInv, TypeOK, Report, Status
    <2> QED
      BY <1>2, <2>1, <2>2
  <1>4. r \in recorded \/ \E s \in Report : RecordResult(s)
    BY DEF Next, ServerStep, DesktopStep, Reset, PhoneReceives, PhoneDrops, ExecuteCommand, TimerFires,
           RefuseCommand, HandleCommandSend, HandleResult, CompleteFails, DeliverResult,
           HandleCommandCancel, BlockCommand, StartCommand, FinishCommand, DesktopDrops, DesktopQuits,
           DesktopDisconnects, DesktopConnects, SocketConnects, server
  <1> QED
    BY <1>2, <1>3, <1>4

-----------------------------------------------------------------------------
LEMMA CommandsInvariant == Spec => []IInv
  <1>1. Init => IInv
    <2> SUFFICES ASSUME Init PROVE IInv
      OBVIOUS
    <2>1. SentOnce /\ HasRow
      BY DEF Init, SentOnce, HasRow, Desk, Wire, Held
    <2>2. ToldSettled
      BY DEF Init, ToldSettled, Told, Shown, Blank
    <2> QED
      BY <2>1, <2>2, TypeInit DEF IInv
  <1>2. IInv /\ [Next]_vars => IInv'
    <2> SUFFICES ASSUME IInv, [Next]_vars PROVE IInv'
      OBVIOUS
    <2>1. CASE Next
      BY <2>1, TypeStep, SentOnceStep, HasRowStep, ShownStep, ToldStep, RecordedStep
         DEF IInv, ToldSettled
    <2>2. CASE UNCHANGED vars
      BY <2>2 DEF vars, server, desktop, sockets, IInv, TypeOK, SentOnce, HasRow, Desk, Wire, Held, ToldSettled,
                  Told, Shown, Settled
    <2> QED
      BY <2>1, <2>2
  <1> QED
    BY <1>1, <1>2, PTL DEF Spec

(* The shapes of phones, rows and everything on its way. *)
THEOREM TypeCorrect == Spec => []TypeOK
  <1>1. IInv => TypeOK
    BY DEF IInv
  <1> QED
    BY <1>1, CommandsInvariant, PTL

(* handleResultComplete and the phones' listeners: however commands and       *)
(* results of any number of phones and sockets drop, cross restarts, are      *)
(* cancelled, fail to be stored or come late, what a phone shows is stored.   *)
THEOREM ResultsStored == Spec => []ShownIsStored
  <1>1. IInv => ShownIsStored
    BY DEF IInv, ToldSettled, Shown, Settled, ShownIsStored
  <1> QED
    BY <1>1, CommandsInvariant, PTL

(* The history only watches. *)
LEMMA MCInvariant == MCSpec => []IInv
  <1>1. MCInit => Init
    BY DEF MCInit
  <1>2. [MCNext]_mcvars => [Next]_vars
    BY DEF MCNext, mcvars
  <1>3. MCSpec => Spec
    BY <1>1, <1>2, PTL DEF MCSpec, Spec
  <1> QED
    BY <1>3, CommandsInvariant, PTL

-----------------------------------------------------------------------------
(* While no login is answered by a second socket, there is one at most, and   *)
(* a command is in one place.                                                 *)
HandledOnce ==
    /\ \A m, n \in Desk : m[2] = n[2] => m = n
    /\ \A m, n \in Wire : m[2].cmd = n[2].cmd => m = n
    /\ \A r, s \in Held : r.cmd = s.cmd => r = s
    /\ \A m \in Desk, n \in Wire : m[2] # n[2].cmd
    /\ \A m \in Desk, r \in Held : m[2] # r.cmd
    /\ \A m \in Wire, r \in Held : m[2].cmd # r.cmd
    /\ orders \cap running = {} /\ results \cap outbox = {} /\ completing \cap recorded = {}

Unstarted ==
    /\ \A c \in Command : started[c] \in 0..1 /\ (row[c] = "none" => started[c] = 0)
    /\ \A m \in orders : started[m[2]] = 0

OneSocket == opened \subseteq {current} /\ NoSock \notin opened

OnceInv ==
    /\ started \in [Command -> Nat]
    /\ "twice" \notin happened => OneSocket /\ HandledOnce /\ Unstarted

LEMMA OneSocketStep ==
    ASSUME IInv, OneSocket, Next, \A k \in Sock : current # NoSock => ~DesktopConnects(k)
    PROVE  OneSocket'
  BY NoSockAssumption
     DEF IInv, TypeOK, OneSocket, Next, ServerStep, DesktopStep, Reset, PhoneReceives, PhoneDrops,
         ExecuteCommand, TimerFires, RefuseCommand, HandleCommandSend, HandleResult, RecordResult,
         CompleteFails, DeliverResult, HandleCommandCancel, BlockCommand, StartCommand, FinishCommand,
         DesktopDrops, DesktopQuits, DesktopDisconnects, DesktopConnects, SocketConnects, desktop, sockets

LEMMA HandledOnceStep ==
    ASSUME IInv, OneSocket, HandledOnce, Next
    PROVE  HandledOnce'
  <1>0. /\ \A m \in Desk : row[m[2]] # "none"
        /\ \A m \in Wire : row[m[2].cmd] # "none"
        /\ \A r \in Held : row[r.cmd] # "none"
    BY DEF IInv, HasRow
  <1> USE DEF HandledOnce, Desk, Wire, Held
  <1>1. ASSUME NEW p \in Phone, NEW c \in Command, HandleCommandSend(p, c) PROVE HandledOnce'
    <2>1. row[c] = "none" /\ UNCHANGED <<completing, recorded, running, results, outbox>>
      BY <1>1 DEF HandleCommandSend, IInv, SentOnce
    <2>2. orders' = orders \cup (linked \X {c})
      BY <1>1 DEF HandleCommandSend
    <2>3. linked \subseteq {current}
      BY DEF IInv, TypeOK, OneSocket
    <2>4. \A m \in orders' : m \in orders \/ m = <<current, c>>
      BY <2>2, <2>3
    <2> QED
      BY <1>0, <2>1, <2>4
  <1>2. ASSUME NEW k \in Sock, NEW r \in Report, HandleResult(k, r) PROVE HandledOnce'
    BY <1>2 DEF HandleResult
  <1>3. ASSUME NEW r \in Report, RecordResult(r) PROVE HandledOnce'
    BY <1>3 DEF RecordResult, desktop
  <1>4. ASSUME NEW r \in Report, CompleteFails(r) PROVE HandledOnce'
    BY <1>4 DEF CompleteFails, desktop
  <1>5. ASSUME NEW r \in Report, DeliverResult(r) PROVE HandledOnce'
    BY <1>5 DEF DeliverResult, desktop
  <1>6. ASSUME NEW k \in Sock, NEW c \in Command, BlockCommand(k, c) PROVE HandledOnce'
    BY <1>6 DEF BlockCommand, EmitResult, server
  <1>7. ASSUME NEW k \in Sock, NEW c \in Command, StartCommand(k, c) PROVE HandledOnce'
    BY <1>7 DEF StartCommand, server
  <1>8. ASSUME NEW k \in Sock, NEW c \in Command, NEW o \in Outcome, FinishCommand(k, c, o) PROVE HandledOnce'
    BY <1>8 DEF FinishCommand, EmitResult, server
  <1>9. ASSUME NEW k \in Sock, DesktopDrops(k) PROVE HandledOnce'
    BY <1>9 DEF DesktopDrops, Without, server
  <1>10. CASE DesktopQuits
    BY <1>10 DEF DesktopQuits, server
  <1>11. CASE DesktopDisconnects
    BY <1>11 DEF DesktopDisconnects, Without, server
  <1>12. ASSUME NEW k \in Sock, SocketConnects(k) PROVE HandledOnce'
    BY <1>12 DEF SocketConnects, Without, server
  <1>13. CASE UNCHANGED <<completing, recorded, orders, running, results, outbox>>
    BY <1>13
  <1> QED
    BY <1>1, <1>2, <1>3, <1>4, <1>5, <1>6, <1>7, <1>8, <1>9, <1>10, <1>11, <1>12, <1>13
       DEF Next, ServerStep, DesktopStep, Reset, PhoneReceives, PhoneDrops, ExecuteCommand, TimerFires,
           RefuseCommand, HandleCommandCancel, DesktopConnects, server, desktop

LEMMA UnstartedStep ==
    ASSUME IInv, HandledOnce, Unstarted, started \in [Command -> Nat], MCNext
    PROVE  Unstarted'
  <1>1. Next /\ started' = [c \in Command |-> IF Starts(c) THEN started[c] + 1 ELSE started[c]]
    BY DEF MCNext
  <1>2. ASSUME NEW m \in orders' PROVE started'[m[2]] = 0
    <2>1. m[2] \in Command /\ ~Starts(m[2])
      <3>1. m[2] \in Command
        BY <1>1, <1>2, TypeStep DEF IInv, TypeOK
      <3>2. ASSUME NEW k \in Sock, StartCommand(k, m[2]) PROVE FALSE
        BY <1>2, <3>2 DEF StartCommand, HandledOnce, Desk
      <3> QED
        BY <3>1, <3>2 DEF Starts
    <2>2. started[m[2]] = 0
      <3>1. CASE m \in orders
        BY <3>1 DEF Unstarted
      <3>2. ASSUME NEW p \in Phone, NEW c \in Command, HandleCommandSend(p, c), m \in linked \X {c}
            PROVE  started[m[2]] = 0
        BY <3>2 DEF Unstarted, HandleCommandSend, IInv, SentOnce
      <3> QED
        BY <1>1, <1>2, <3>1, <3>2, OrdersGrow
    <2> QED
      BY <1>1, <2>1, <2>2
  <1>3. ASSUME NEW c \in Command
        PROVE  started'[c] \in 0..1 /\ (row'[c] = "none" => started'[c] = 0)
    <2>1. CASE Starts(c)
      <3>1. PICK k \in Sock : StartCommand(k, c)
        BY <2>1 DEF Starts
      <3>2. started[c] = 0 /\ row'[c] # "none"
        BY <3>1 DEF StartCommand, Unstarted, IInv, HasRow, Desk, server
      <3> QED
        BY <1>1, <2>1, <3>2
    <2>2. CASE ~Starts(c)
      <3>1. row'[c] = "none" => row[c] = "none"
        BY <1>1, RowGrows
      <3> QED
        BY <1>1, <2>2, <3>1 DEF Unstarted
    <2> QED
      BY <2>1, <2>2
  <1> QED
    BY <1>2, <1>3 DEF Unstarted

LEMMA OnceInvStep == IInv /\ OnceInv /\ [MCNext]_mcvars => OnceInv'
  <1> SUFFICES ASSUME IInv, OnceInv, [MCNext]_mcvars PROVE OnceInv'
    OBVIOUS
  <1>1. CASE UNCHANGED mcvars
    BY <1>1 DEF mcvars, vars, server, desktop, sockets, OnceInv, OneSocket, HandledOnce, Unstarted, Desk,
                Wire, Held
  <1>2. CASE MCNext
    <2>1. started' \in [Command -> Nat]
      BY <1>2 DEF MCNext, OnceInv
    <2>2. ASSUME "twice" \notin happened' PROVE OneSocket' /\ HandledOnce' /\ Unstarted'
      <3>1. Next /\ "twice" \notin happened /\ ("twice" \in Disturbances => ~Happens("twice"))
        BY <1>2, <2>2 DEF MCNext
      <3>2. OneSocket /\ HandledOnce /\ Unstarted
        BY <3>1 DEF OnceInv
      <3>3. ASSUME NEW k \in Sock, current # NoSock PROVE ~DesktopConnects(k)
        BY <3>1, <3>3 DEF Happens, DesktopConnects
      <3> QED
        BY <1>2, <3>1, <3>2, <3>3, OneSocketStep, HandledOnceStep, UnstartedStep DEF OnceInv
    <2> QED
      BY <2>1, <2>2 DEF OnceInv
  <1> QED
    BY <1>1, <1>2

LEMMA OnceInvariant == MCSpec => [](IInv /\ OnceInv)
  <1>1. MCInit => OnceInv
    BY NoSockAssumption
       DEF MCInit, Init, OnceInv, OneSocket, HandledOnce, Unstarted, Desk, Wire, Held
  <1> QED
    BY <1>1, MCInvariant, OnceInvStep, PTL DEF MCSpec

(* connect, handleCommandSend and the desktop's listener: unless a login is    *)
(* answered while the desktop has a socket, no command is executed twice, for  *)
(* any number of phones, commands and sockets that drop, quit and come back.   *)
THEOREM ExecutedAtMostOnce == MCSpec => []ExecutedOnceInTurn
  <1>1. OnceInv => ExecutedOnceInTurn
    BY DEF OnceInv, Unstarted, ExecutedOnceInTurn, ExecutedOnce
  <1> QED
    BY <1>1, OnceInvariant, PTL

-----------------------------------------------------------------------------
(* A user with one phone.  A command is under way from the moment it is sent  *)
(* until its result is forwarded.                                             *)
UnderWay(c) ==
    \/ \E p \in Phone : <<p, c>> \in sent
    \/ \E m \in Desk : m[2] = c
    \/ \E m \in Wire : m[2].cmd = c
    \/ \E r \in Held : r.cmd = c

(* While nobody times out, a phone that waits is the only reason for anything *)
(* to be under way or in its inbox; and the word that ends its wait is the    *)
(* last one, with nothing under way behind it.                                *)
OneAtATime ==
    \A p \in Phone :
        /\ phone[p].state = "completed" => phone[p].shown = phone[p].mine
        /\ \A c \in Command : UnderWay(c) => Busy(p) /\ c = phone[p].mine
        /\ \A i \in DOMAIN inbox[p] :
              /\ Busy(p) /\ inbox[p][i].cmd = phone[p].mine
              /\ inbox[p][i].type # "ack" => i = Len(inbox[p]) /\ \A c \in Command : ~UnderWay(c)

InTimeInv == happened \cap {"slow", "twice"} = {} => OneAtATime

(* Only executeCommand sets a command on its way. *)
LEMMA WaysEnd ==
    ASSUME IInv, Next, NEW c \in Command, ~\E p \in Phone : ExecuteCommand(p, c), UnderWay(c)'
    PROVE  UnderWay(c)
  <1>1. CASE \E p \in Phone : <<p, c>> \in sent'
    <2>1. PICK p \in Phone : <<p, c>> \in sent'
      BY <1>1
    <2>2. ASSUME NEW q \in Phone, NEW d \in Command, ExecuteCommand(q, d) PROVE <<p, c>> \in sent
      <3>1. d # c
        BY <2>2
      <3> QED
        BY <2>1, <2>2, <3>1 DEF ExecuteCommand
    <2>3. <<p, c>> \in sent
      BY <2>1, <2>2
         DEF Next, ServerStep, DesktopStep, Reset, PhoneReceives, PhoneDrops, TimerFires,
             RefuseCommand, HandleCommandSend, HandleResult, RecordResult, CompleteFails,
             DeliverResult, HandleCommandCancel, BlockCommand, StartCommand, FinishCommand, DesktopDrops,
             DesktopQuits, DesktopDisconnects, DesktopConnects, SocketConnects
    <2> QED
      BY <2>3 DEF UnderWay
  <1>2. ASSUME NEW m \in Desk', m[2] = c PROVE UnderWay(c)
    <2>1. ASSUME NEW p \in Phone, NEW d \in Command, HandleCommandSend(p, d), m \in linked \X {d}
          PROVE  <<p, c>> \in sent
      BY <1>2, <2>1 DEF HandleCommandSend
    <2> QED
      BY <1>2, <2>1, DeskGrows DEF UnderWay
  <1>3. ASSUME NEW m \in Wire', m[2].cmd = c PROVE UnderWay(c)
    BY <1>3, WireGrows DEF UnderWay
  <1>4. ASSUME NEW r \in Held', r.cmd = c PROVE UnderWay(c)
    <2>1. r \in Held \/ \E m \in Wire : m[2] = r
      BY <1>4, HeldGrows
    <2> QED
      BY <1>4, <2>1 DEF UnderWay
  <1> QED
    BY <1>1, <1>2, <1>3, <1>4 DEF UnderWay

(* What is refused or forwarded is not under way any more. *)
LEMMA RefusedIsOver ==
    ASSUME IInv, NEW p \in Phone, NEW c \in Command, RefuseCommand(p, c)
    PROVE  UnderWay(c) /\ ~UnderWay(c)'
  <1>1. /\ <<p, c>> \in sent /\ sent' = sent \ {<<p, c>>}
        /\ Desk' = Desk /\ Wire' = Wire /\ Held' = Held
    BY DEF RefuseCommand, server, desktop, Desk, Wire, Held
  <1>2. row[c] = "none" /\ \A q \in Phone : <<q, c>> \in sent => q = p
    BY <1>1 DEF IInv, SentOnce
  <1>3. /\ \A m \in Desk : m[2] # c
        /\ \A m \in Wire : m[2].cmd # c
        /\ \A r \in Held : r.cmd # c
    BY <1>2 DEF IInv, HasRow
  <1> QED
    BY <1>1, <1>2, <1>3 DEF UnderWay

LEMMA ForwardedIsOver ==
    ASSUME IInv, HandledOnce, NEW r \in Report, DeliverResult(r)
    PROVE  UnderWay(r.cmd) /\ ~UnderWay(r.cmd)'
  <1> DEFINE c == r.cmd
  <1>1. r \in recorded /\ recorded' = recorded \ {r} /\ UNCHANGED <<sent, completing, desktop>>
    BY DEF DeliverResult
  <1>2. r \in Held /\ c \in Command /\ row[c] # "none"
    BY <1>1 DEF IInv, HasRow, Held, Report
  <1>3. \A p \in Phone : <<p, c>> \notin sent
    BY <1>2 DEF IInv, SentOnce
  <1>4. (\A m \in Desk : m[2] # c) /\ (\A m \in Wire : m[2].cmd # c)
    BY <1>2 DEF HandledOnce
  <1>5. ASSUME NEW s \in Held' PROVE s.cmd # c
    <2>1. s \in Held /\ s # r
      BY <1>1, <1>5 DEF Held, HandledOnce
    <2> QED
      BY <1>2, <2>1 DEF HandledOnce
  <1>6. Desk' = Desk /\ Wire' = Wire /\ sent' = sent
    BY <1>1 DEF desktop, Desk, Wire
  <1> QED
    BY <1>2, <1>3, <1>4, <1>5, <1>6 DEF UnderWay

(* A step in which the phone and what it was told stay as they are. *)
LEMMA ElsewhereAlone ==
    ASSUME IInv, OneAtATime, UNCHANGED <<phone, inbox>>,
           \A c \in Command : UnderWay(c)' => UnderWay(c)
    PROVE  OneAtATime'
  BY DEF OneAtATime, Busy

(* The server tells the phone something of its command. *)
LEMMA ToldAlone ==
    ASSUME IInv, OneAtATime, NEW p \in Phone, \A q \in Phone : q = p,
           NEW e \in Event, UnderWay(e.cmd), inbox' = [inbox EXCEPT ![p] = Append(@, e)], phone' = phone,
           \A c \in Command : UnderWay(c)' => UnderWay(c),
           e.type # "ack" => ~UnderWay(e.cmd)'
    PROVE  OneAtATime'
  <1> DEFINE box == inbox[p]
             after == inbox'[p]
  <1>1. box \in Seq(Event) /\ after = Append(box, e) /\ e.cmd \in Command
    BY DEF IInv, TypeOK, Event
  <1>2. Busy(p) /\ e.cmd = phone[p].mine
    BY <1>1 DEF OneAtATime
  <1>3. \A i \in DOMAIN box : box[i].cmd = phone[p].mine /\ box[i].type = "ack"
    BY <1>1 DEF OneAtATime
  <1>4. \A c \in Command : UnderWay(c)' => c = e.cmd
    BY <1>2 DEF OneAtATime
  <1>5. ASSUME NEW i \in DOMAIN after
        PROVE  /\ after[i].cmd = phone[p].mine
               /\ after[i].type # "ack" => i = Len(after) /\ \A c \in Command : ~UnderWay(c)'
    <2>1. CASE i \in DOMAIN box
      BY <1>1, <1>3, <2>1
    <2>2. CASE i = Len(box) + 1
      BY <1>1, <1>2, <1>4, <2>2
    <2> QED
      BY <1>1, <2>1, <2>2
  <1>6. Busy(p)' /\ phone'[p].mine = phone[p].mine /\ phone'[p].state = phone[p].state /\ phone'[p].shown = phone[p].shown
    BY <1>2 DEF Busy
  <1>7. phone[p].state = "completed" => phone[p].shown = phone[p].mine
    BY DEF OneAtATime
  <1> HIDE DEF box, after
  <1> QED
    BY <1>2, <1>4, <1>5, <1>6, <1>7 DEF OneAtATime, after

(* The phone reads what it is told: a wait ends with the last word of it. *)
LEMMA ReadAlone ==
    ASSUME IInv, OneAtATime, NEW p \in Phone, \A q \in Phone : q = p, PhoneReceives(p),
           \A c \in Command : UnderWay(c)' => UnderWay(c)
    PROVE  OneAtATime'
  <1> DEFINE box == inbox[p]
             e == Head(box)
  <1>1. /\ box \in Seq(Event) /\ box # <<>> /\ e = box[1] /\ 1 \in DOMAIN box
        /\ phone' = React(p, e) /\ inbox' = [inbox EXCEPT ![p] = Tail(box)]
        /\ phone[p] \in PhoneRecord /\ phone \in [Phone -> PhoneRecord]
    BY DEF IInv, TypeOK, PhoneReceives
  <1>2. /\ Busy(p) /\ e.cmd = phone[p].mine
        /\ e.type # "ack" => 1 = Len(box) /\ \A c \in Command : ~UnderWay(c)
    <2>1. /\ Busy(p) /\ box[1].cmd = phone[p].mine
          /\ box[1].type # "ack" => 1 = Len(box) /\ \A c \in Command : ~UnderWay(c)
      BY <1>1 DEF OneAtATime
    <2> QED
      BY <1>1, <2>1
  <1>3. inbox'[p] = Tail(box) /\ \A i \in DOMAIN Tail(box) : i + 1 \in DOMAIN box /\ Tail(box)[i] = box[i + 1]
    BY <1>1 DEF IInv, TypeOK
  <1>4. Len(Tail(box)) = Len(box) - 1 /\ Len(box) \in Nat
    BY <1>1
  <1>5. phone[p].state # "completed"
    BY <1>2 DEF Busy
  <1>6. CASE Busy(p)' /\ phone'[p].mine = phone[p].mine /\ phone'[p].state # "completed"
    <2>1. ASSUME NEW i \in DOMAIN inbox'[p]
          PROVE  /\ inbox'[p][i].cmd = phone[p].mine
                 /\ inbox'[p][i].type # "ack" => i = Len(inbox'[p]) /\ \A c \in Command : ~UnderWay(c)
      <3>1. i + 1 \in DOMAIN box /\ inbox'[p][i] = box[i + 1] /\ i \in Nat
        <4>1. Tail(box) \in Seq(Event)
          BY <1>1
        <4> QED
          BY <1>3, <4>1
      <3>2. /\ box[i + 1].cmd = phone[p].mine
            /\ box[i + 1].type # "ack" => i + 1 = Len(box) /\ \A c \in Command : ~UnderWay(c)
        BY <3>1 DEF OneAtATime
      <3> QED
        BY <1>3, <1>4, <3>1, <3>2
    <2> HIDE DEF box, e
    <2> QED
      BY <1>6, <2>1 DEF OneAtATime
  <1>7. CASE e.type # "ack"
    <2>1. inbox'[p] = <<>> /\ \A c \in Command : ~UnderWay(c)'
      <3>1. Tail(box) = <<>>
        <4>1. Len(box) = 1 /\ Tail(box) \in Seq(Event)
          BY <1>1, <1>2, <1>7
        <4>2. Len(Tail(box)) = 0
          BY <1>4, <4>1
        <4> QED
          BY <4>1, <4>2, EmptySeq
      <3> QED
        BY <1>2, <1>3, <1>7, <3>1
    <2>2. phone'[p].state = "completed" => phone'[p].shown = phone'[p].mine
      <3>1. CASE e.type = "result" /\ e.cmd = phone[p].tracked
        <4>1. phone' = [phone EXCEPT ![p] = [@ EXCEPT !.state = "completed", !.shown = e.cmd, !.timedOut = NoCommand]]
          BY <1>1, <3>1 DEF React
        <4> HIDE DEF e, box
        <4> QED
          BY <1>1, <1>2, <4>1 DEF PhoneRecord
      <3>2. CASE e.type = "rejected" /\ phone[p].state = "sending"
        <4>1. phone' = [phone EXCEPT ![p] = [@ EXCEPT !.state = "error"]]
          BY <1>1, <3>2 DEF React
        <4> HIDE DEF e, box
        <4> QED
          BY <1>1, <4>1 DEF PhoneRecord
      <3>3. CASE ~(e.type = "result" /\ e.cmd = phone[p].tracked) /\ ~(e.type = "rejected" /\ phone[p].state = "sending")
        <4>1. phone' = phone
          BY <1>1, <1>7, <3>3 DEF React
        <4> QED
          BY <1>5, <4>1
      <3> QED
        BY <3>1, <3>2, <3>3
    <2>3. DOMAIN inbox'[p] = {}
      BY <2>1
    <2> HIDE DEF box, e
    <2> QED
      BY <2>1, <2>2, <2>3 DEF OneAtATime
  <1>8. CASE e.type = "ack"
    <2>1. CASE phone[p].state = "sending"
      <3>1. phone' = [phone EXCEPT ![p] = [@ EXCEPT !.state = "waiting", !.tracked = e.cmd]]
        BY <1>1, <1>8, <2>1 DEF React
      <3>2. phone'[p].state = "waiting" /\ phone'[p].mine = phone[p].mine
        BY <1>1, <3>1 DEF PhoneRecord
      <3> QED
        BY <1>6, <3>2 DEF Busy
    <2>2. CASE phone[p].state # "sending"
      <3>1. phone' = phone
        BY <1>1, <1>8, <2>2 DEF React
      <3> QED
        BY <1>2, <1>5, <1>6, <3>1 DEF Busy
    <2> QED
      BY <2>1, <2>2
  <1> QED
    BY <1>7, <1>8

LEMMA SendAlone ==
    ASSUME IInv, OneAtATime, NEW p \in Phone, \A q \in Phone : q = p, NEW c \in Command, ExecuteCommand(p, c)
    PROVE  OneAtATime'
  <1>1. /\ ~Busy(p) /\ sent' = sent \cup {<<p, c>>} /\ UNCHANGED <<inbox, server, desktop>>
        /\ phone' = [phone EXCEPT ![p] = [@ EXCEPT !.state = "sending", !.mine = c,
                                                    !.shown = NoCommand, !.timedOut = NoCommand]]
    BY DEF ExecuteCommand
  <1>2. phone'[p].state = "sending" /\ phone'[p].mine = c
    BY <1>1 DEF IInv, TypeOK, PhoneRecord
  <1>3. \A d \in Command : ~UnderWay(d)
    BY <1>1 DEF OneAtATime
  <1>4. DOMAIN inbox'[p] = {}
    BY <1>1 DEF OneAtATime
  <1>5. \A d \in Command : UnderWay(d)' => d = c
    <2>1. Desk' = Desk /\ Wire' = Wire /\ Held' = Held
      BY <1>1 DEF server, desktop, Desk, Wire, Held
    <2> QED
      BY <1>1, <1>3, <2>1 DEF UnderWay
  <1> QED
    BY <1>2, <1>4, <1>5 DEF OneAtATime, Busy

LEMMA InTimeStep ==
    ASSUME \A p, q \in Phone : p = q, IInv, OnceInv, InTimeInv, [MCNext]_mcvars
    PROVE  InTimeInv'
  <1> SUFFICES ASSUME happened' \cap {"slow", "twice"} = {} PROVE OneAtATime'
    BY DEF InTimeInv
  <1>1. CASE UNCHANGED mcvars
    BY <1>1 DEF mcvars, vars, server, desktop, InTimeInv, OneAtATime, UnderWay, Desk, Wire, Held, Busy
  <1>2. CASE MCNext
    <2>1. /\ Next /\ happened \cap {"slow", "twice"} = {}
          /\ "slow" \in Disturbances => ~Happens("slow")
      BY <1>2 DEF MCNext
    <2>2. OneAtATime /\ HandledOnce
      BY <2>1 DEF InTimeInv, OnceInv
    <2>3. ASSUME NEW p \in Phone, NEW c \in Command, TimerFires(p, c) PROVE ~Busy(p)
      <3>1. Busy(p) => Happens("slow") /\ "slow" \in Disturbances
        BY <2>3 DEF Happens, TimerFires
      <3> QED
        BY <2>1, <3>1
    <2>4. ASSUME NEW p \in Phone, NEW c \in Command, ExecuteCommand(p, c) PROVE OneAtATime'
      BY <2>2, <2>4, SendAlone
    <2>5. CASE ~\E p \in Phone, c \in Command : ExecuteCommand(p, c)
      <3>1. \A c \in Command : UnderWay(c)' => UnderWay(c)
        BY <2>1, <2>5, WaysEnd
      <3>2. ASSUME NEW p \in Phone, PhoneReceives(p) PROVE OneAtATime'
        BY <2>2, <3>1, <3>2, ReadAlone
      <3>3. ASSUME NEW p \in Phone, PhoneDrops(p) PROVE OneAtATime'
        <4>1. phone' = phone /\ inbox'[p] = <<>>
          BY <3>3 DEF PhoneDrops, IInv, TypeOK
        <4>2. DOMAIN inbox'[p] = {}
          BY <4>1
        <4> QED
          BY <2>2, <3>1, <4>1, <4>2 DEF OneAtATime, Busy
      <3>4. ASSUME NEW p \in Phone, Reset(p) PROVE OneAtATime'
        <4>1. phone'[p].state = "idle" /\ ~Busy(p) /\ UNCHANGED inbox
          BY <3>4 DEF Reset, Blank, Busy, IInv, TypeOK
        <4> QED
          BY <2>2, <3>1, <4>1 DEF OneAtATime
      <3>5. ASSUME NEW p \in Phone, NEW c \in Command, TimerFires(p, c) PROVE OneAtATime'
        <4>1. phone' = phone /\ inbox' = inbox
          BY <2>3, <3>5 DEF TimerFires
        <4> QED
          BY <2>2, <3>1, <4>1, ElsewhereAlone
      <3>6. ASSUME NEW p \in Phone, NEW c \in Command, RefuseCommand(p, c) PROVE OneAtATime'
        <4> DEFINE e == [type |-> "rejected", cmd |-> c]
        <4>1. e \in Event /\ e.cmd = c
          BY DEF Event
        <4>2. phone' = phone /\ inbox' = [inbox EXCEPT ![p] = Append(@, e)]
          BY <3>6 DEF RefuseCommand
        <4>3. UnderWay(c) /\ ~UnderWay(c)'
          BY <3>6, RefusedIsOver
        <4> HIDE DEF e
        <4> QED
          BY <2>2, <3>1, <4>1, <4>2, <4>3, ToldAlone
      <3>7. ASSUME NEW p \in Phone, NEW c \in Command, HandleCommandSend(p, c) PROVE OneAtATime'
        <4> DEFINE e == [type |-> "ack", cmd |-> c]
        <4>1. e \in Event /\ e.cmd = c /\ e.type = "ack"
          BY DEF Event
        <4>2. phone' = phone /\ inbox' = [inbox EXCEPT ![p] = Append(@, e)]
          BY <3>7 DEF HandleCommandSend, Emit, IInv, TypeOK
        <4>3. UnderWay(c)
          BY <3>7 DEF HandleCommandSend, UnderWay
        <4> HIDE DEF e
        <4> QED
          BY <2>2, <3>1, <4>1, <4>2, <4>3, ToldAlone
      <3>8. ASSUME NEW r \in Report, DeliverResult(r) PROVE OneAtATime'
        <4> DEFINE e == [type |-> "result", cmd |-> r.cmd]
        <4>1. e \in Event /\ e.cmd = r.cmd /\ r.cmd \in Command
          BY DEF Event, Report
        <4>2. UnderWay(e.cmd) /\ ~UnderWay(r.cmd)'
          BY <2>2, <3>8, <4>1, ForwardedIsOver
        <4>3. CASE Phone = {}
          BY <4>3 DEF OneAtATime
        <4>4. ASSUME NEW p \in Phone PROVE OneAtATime'
          <5>1. phone' = phone /\ inbox' = [inbox EXCEPT ![p] = Append(@, e)]
            BY <3>8 DEF DeliverResult, Emit, IInv, TypeOK
          <5> HIDE DEF e
          <5> QED
            BY <2>2, <3>1, <4>1, <4>2, <5>1, ToldAlone
        <4> QED
          BY <4>3, <4>4
      <3>9. CASE UNCHANGED <<phone, inbox>>
        BY <2>2, <3>1, <3>9, ElsewhereAlone
      <3> QED
        BY <2>1, <2>5, <3>2, <3>3, <3>4, <3>5, <3>6, <3>7, <3>8, <3>9
           DEF Next, ServerStep, DesktopStep, HandleResult, RecordResult, CompleteFails,
               HandleCommandCancel, BlockCommand, StartCommand, FinishCommand, DesktopDrops, DesktopQuits,
               DesktopDisconnects, DesktopConnects, SocketConnects
    <2> QED
      BY <2>4, <2>5
  <1> QED
    BY <1>1, <1>2

(* "Results correspond to commands one to one" (CommandNotifier): the phone   *)
(* of a user who has one shows the result of the command it sent last, for    *)
(* any number of commands and whatever is dropped, quit or cancelled, as long *)
(* as no command of his timed out and no login left a second socket.          *)
THEOREM OwnResultShown == ASSUME \A p, q \in Phone : p = q PROVE MCSpec => []ShownIsOwnInTime
  <1>1. MCInit => InTimeInv
    BY DEF MCInit, Init, InTimeInv, OneAtATime, UnderWay, Desk, Wire, Held, Blank, Busy
  <1>2. IInv /\ OnceInv /\ InTimeInv /\ [MCNext]_mcvars => InTimeInv'
    BY InTimeStep
  <1>3. InTimeInv => ShownIsOwnInTime
    BY DEF InTimeInv, OneAtATime, ShownIsOwnInTime, ShownIsOwn
  <1> QED
    BY <1>1, <1>2, <1>3, OnceInvariant, PTL DEF MCSpec
=============================================================================
