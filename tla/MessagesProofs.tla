----------------------------- MODULE MessagesProofs -----------------------------
(***************************************************************************)
(* Theorems about MCMessages, for any number of users, sockets and handlers*)
(* and any page size: the preview is the newest message, what was          *)
(* acknowledged stays read, and every connected socket is told of a new    *)
(* message.  About MCChatClient, for the same: a client shows a message    *)
(* once, as it is stored, its history is complete, and an open thread is   *)
(* read.  Each holds until the event after which the code gives no         *)
(* guarantee.                                                              *)
(*                                                                         *)
(* First come the handlers (Follows) and the three theorems about them;    *)
(* then what is shown once (OnceInv), what is current (CurrentInv), the    *)
(* history (HistInv) and what is read (ReadsInv), each kept by the steps   *)
(* of the server (Works), of requests that begin (Begins) and are answered *)
(* (Takes), of pushes (Events) and of the screen (Quiet).                  *)
(***************************************************************************)
EXTENDS MCMessages, MCChatClient, FiniteSetTheorems, SequenceTheorems, TLAPS

Row == [at : Nat \ {0}, author : User, text : Nat, deleted : BOOLEAN]
PushedEvent == [kind : {"new", "notify", "updated", "deleted"}, id : Nat, text : Nat]
Handler ==
    [op : AllOps,
     pc : {"insert", "touch", "push", "notify", "write", "find", "count", "message", "join",
           "answered", "failed"},
     user : User, sock : Socket \cup {NoSocket}, id : Nat, cur : Nat,
     items : Seq([id : Nat, text : Nat]), more : BOOLEAN, next : Nat]

TypeOK ==
    /\ msgs \in Seq(Row)
    /\ member \subseteq User
    /\ last \in [User -> Nat] /\ seen \in [User -> Nat]
    /\ online \subseteq Socket /\ room \subseteq Socket
    /\ wire \in [Socket -> Seq(PushedEvent)]
    /\ h \in [Slot -> Handler \cup {Idle}]
    /\ moves \in Nat /\ faults \in Nat

(* What a handler and a row of a member name is stored. *)
Names(r, n) ==
    /\ r.op \in {"edit", "delete", "read"} => r.id \in 1..n
    /\ r.op = "create" /\ r.pc \notin {"insert", "failed"} => r.id \in 1..n
    /\ r.op = "read" => r.cur \in 0..n

NamesStored ==
    /\ \A s \in Slot : Names(h[s], Len(msgs))
    /\ \A u \in User : seen[u] \in 0..Len(msgs) /\ (u \notin member => seen[u] = 0)

BaseInv == TypeOK /\ NamesStored

-----------------------------------------------------------------------------
(* What a step makes of the handlers. *)
Stays(s) == \A t \in Slot : t # s => h'[t] = h[t]

LEMMA HandlerFacts ==
    ASSUME TypeOK, NEW s \in Slot
    PROVE  /\ h[s].pc = "idle" <=> h[s] = Idle
           /\ h[s].pc # "idle" => h[s] \in Handler
           /\ Idle.pc = "idle" /\ Idle.op = "none" /\ Idle.id = 0 /\ Idle \notin Handler
  BY DEF TypeOK, Idle, Handler

LEMMA GotoFacts ==
    ASSUME TypeOK, NEW s \in Slot, NEW pc, Goto(s, pc), h[s].pc # "idle",
           pc \in {"touch", "push", "notify", "write", "answered", "failed"}
    PROVE  /\ Stays(s) /\ h' \in [Slot -> Handler \cup {Idle}]
           /\ h'[s] = [h[s] EXCEPT !.pc = pc] /\ h'[s] \in Handler
  <1>1. h[s] \in Handler
    BY HandlerFacts
  <1>2. h' = [h EXCEPT ![s] = [h[s] EXCEPT !.pc = pc]]
    BY DEF Goto
  <1>3. [h[s] EXCEPT !.pc = pc] \in Handler
    BY <1>1 DEF Handler
  <1> QED
    BY <1>2, <1>3 DEF TypeOK, Stays

LEMMA FreeFacts ==
    ASSUME TypeOK, NEW s \in Slot, Free(s)
    PROVE  Stays(s) /\ h' \in [Slot -> Handler \cup {Idle}] /\ h'[s] = Idle
  BY DEF Free, TypeOK, Stays

(* An answer is left for a client or nobody waits for one. *)
LEMMA EndFacts ==
    ASSUME TypeOK, NEW s \in Slot, h[s].pc # "idle", Return(s) \/ Throw(s)
    PROVE  /\ Stays(s) /\ h' \in [Slot -> Handler \cup {Idle}]
           /\ \/ h'[s] = Idle
              \/ \E pc \in {"answered", "failed"} : /\ h'[s] = [h[s] EXCEPT !.pc = pc]
                                                    /\ pc = "answered" => Return(s)
                                                    /\ h[s].op \notin {"read", "join"}
  BY FreeFacts, GotoFacts DEF Return, Throw

LEMMA OpenFacts ==
    ASSUME TypeOK, NEW s \in Slot, NEW u \in User, NEW c \in Socket \cup {NoSocket},
           NEW op \in AllOps, NEW pc \in {"insert", "write", "message", "join", "count"},
           NEW id \in Nat, NEW cur \in Nat, Open(s, u, c, op, pc, id, cur)
    PROVE  /\ Stays(s) /\ h' \in [Slot -> Handler \cup {Idle}] /\ h'[s] \in Handler
           /\ h'[s].op = op /\ h'[s].pc = pc /\ h'[s].user = u /\ h'[s].sock = c
           /\ h'[s].id = id /\ h'[s].cur = cur /\ h'[s].items = <<>>
  <1> DEFINE r == [Idle EXCEPT !.op = op, !.pc = pc, !.user = u, !.sock = c, !.id = id, !.cur = cur]
  <1>1. h' = [h EXCEPT ![s] = r]
    BY DEF Open
  <1>2. Idle \in [op : {"none"}, pc : {"idle"}, user : {NoUser}, sock : {NoSocket}, id : Nat, cur : Nat,
                  items : {<<>>}, more : BOOLEAN, next : Nat]
    BY DEF Idle
  <1>3. r \in Handler
    <2>1. <<>> \in Seq([id : Nat, text : Nat])
      OBVIOUS
    <2> QED
      BY <1>2, <2>1 DEF Handler
  <1>4. r.op = op /\ r.pc = pc /\ r.user = u /\ r.sock = c /\ r.id = id /\ r.cur = cur /\ r.items = <<>>
    BY <1>2
  <1> HIDE DEF r
  <1> QED
    BY <1>1, <1>3, <1>4 DEF TypeOK, Stays

(* The same of an edit or a delete. *)
LEMMA OwnFacts ==
    ASSUME TypeOK, NEW s \in Slot, NEW u \in User, NEW op \in {"edit", "delete"}, NEW id \in Nat,
           Open(s, u, NoSocket, op, "write", id, 0)
    PROVE  /\ Stays(s) /\ h' \in [Slot -> Handler \cup {Idle}] /\ h'[s] \in Handler
           /\ h'[s].op = op /\ h'[s].pc = "write" /\ h'[s].sock = NoSocket /\ h'[s].id = id
           /\ h'[s].items = <<>>
  <1> DEFINE r == [Idle EXCEPT !.op = op, !.pc = "write", !.user = u, !.sock = NoSocket, !.id = id, !.cur = 0]
  <1>1. h' = [h EXCEPT ![s] = r]
    BY DEF Open
  <1>2. Idle \in [op : {"none"}, pc : {"idle"}, user : {NoUser}, sock : {NoSocket}, id : Nat, cur : Nat,
                  items : {<<>>}, more : BOOLEAN, next : Nat]
    BY DEF Idle
  <1>3. r \in Handler
    <2>1. <<>> \in Seq([id : Nat, text : Nat]) /\ op \in AllOps
      BY DEF AllOps
    <2> QED
      BY <1>2, <2>1 DEF Handler
  <1>4. r.op = op /\ r.pc = "write" /\ r.sock = NoSocket /\ r.id = id /\ r.items = <<>>
    BY <1>2
  <1> HIDE DEF r
  <1> QED
    BY <1>1, <1>3, <1>4 DEF TypeOK, Stays

-----------------------------------------------------------------------------
(* The shape of Next: handlers open, go on and fail; sockets and members come and go. *)
Opens(s) ==
    \/ \E u \in User : \/ CreateVerifies(s, u, NoSocket)
                       \/ \E op \in {"edit", "delete"}, id \in Id : FindOwn(s, u, NoSocket, op, id)
    \/ \E c \in Socket : JoinVerifies(s, c) \/ \E id \in Id : ReadRow(s, c, id)

Moves ==
    \/ \E c \in Socket : Connect(c) \/ Disconnect(c) \/ LeaveRoom(c)
    \/ \E u \in User : RemoveMember(u) \/ AddMember(u)

LEMMA NextCases ==
    ASSUME Next
    PROVE  \/ \E s \in Slot : Opens(s) \/ Continue(s) \/ Fail(s)
           \/ Moves \/ \E c \in Socket : Receive(c)
  BY DEF Next, Opens, Moves

(* A handler opens at its first query with what its caller gave and it has read. *)
LEMMA OpensFacts ==
    ASSUME BaseInv, NEW s \in Slot, Opens(s)
    PROVE  /\ h[s] = Idle /\ Stays(s) /\ h' \in [Slot -> Handler \cup {Idle}] /\ h'[s] \in Handler
           /\ UNCHANGED <<rows, sockets, bounds>>
           /\ h'[s].pc \in {"insert", "write", "message", "join"}
           /\ h'[s].op \in {"create", "edit", "delete", "read", "join"}
           /\ h'[s].op = "create" => h'[s].pc = "insert"
           /\ h'[s].op \in {"edit", "delete"} => h'[s].id \in Id
           /\ h'[s].op = "read" => /\ h'[s].pc = "message" /\ h'[s].id \in Id
                                   /\ h'[s].user \in member /\ h'[s].cur = seen[h'[s].user]
           /\ h'[s].items = <<>>
  <1>1. TypeOK /\ Id \subseteq Nat /\ \A u \in User : seen[u] \in Nat
    BY DEF BaseInv, TypeOK, Id
  <1>2. CASE \E u \in User : CreateVerifies(s, u, NoSocket)
    <2>1. PICK u \in User : CreateVerifies(s, u, NoSocket)
      BY <1>2
    <2>2. /\ Open(s, u, NoSocket, "create", "insert", 0, 0) /\ h[s].pc = "idle"
          /\ UNCHANGED <<rows, sockets, bounds>>
      BY <2>1 DEF CreateVerifies, Admits
    <2>3. "create" \in AllOps
      BY DEF AllOps
    <2>4. /\ Stays(s) /\ h' \in [Slot -> Handler \cup {Idle}] /\ h'[s] \in Handler
          /\ h'[s].op = "create" /\ h'[s].pc = "insert" /\ h'[s].items = <<>>
      BY <1>1, <2>2, <2>3, OpenFacts
    <2> QED
      BY <1>1, <2>2, <2>4, HandlerFacts
  <1>3. ASSUME NEW u \in User, NEW op \in {"edit", "delete"}, NEW id \in Id, FindOwn(s, u, NoSocket, op, id)
        PROVE  /\ h[s].pc = "idle" /\ UNCHANGED <<rows, sockets, bounds>>
               /\ Stays(s) /\ h' \in [Slot -> Handler \cup {Idle}] /\ h'[s] \in Handler
               /\ h'[s].op = op /\ h'[s].pc = "write" /\ h'[s].id = id /\ h'[s].items = <<>>
    <2>1. /\ Open(s, u, NoSocket, op, "write", id, 0) /\ h[s].pc = "idle" /\ op \in AllOps
          /\ UNCHANGED <<rows, sockets, bounds>>
      BY <1>3 DEF FindOwn, Admits, AllOps
    <2>2. id \in Nat
      BY <1>1
    <2> QED
      BY <1>1, <2>1, <2>2, OwnFacts
  <1>4. CASE \E c \in Socket : JoinVerifies(s, c)
    <2>1. PICK c \in Socket : JoinVerifies(s, c)
      BY <1>4
    <2>2. PICK u \in User : u = Owner[c]
      BY OwnerAssumption
    <2>3. PICK op \in AllOps, n \in Nat : op = "join" /\ n = 0
      BY DEF AllOps
    <2>4. /\ Open(s, u, c, op, "join", n, n) /\ h[s].pc = "idle" /\ c \in Socket \cup {NoSocket}
          /\ UNCHANGED <<rows, sockets, bounds>>
      BY <2>1, <2>2, <2>3 DEF JoinVerifies, Admits
    <2>5. /\ Stays(s) /\ h' \in [Slot -> Handler \cup {Idle}] /\ h'[s] \in Handler
          /\ h'[s].op = op /\ h'[s].pc = "join" /\ h'[s].user = u /\ h'[s].sock = c
          /\ h'[s].id = n /\ h'[s].cur = n /\ h'[s].items = <<>>
      BY <1>1, <2>4, OpenFacts
    <2> QED
      BY <1>1, <2>3, <2>4, <2>5, HandlerFacts
  <1>5. CASE \E c \in Socket, id \in Id : ReadRow(s, c, id)
    <2>1. PICK c \in Socket, id \in Id : ReadRow(s, c, id)
      BY <1>5
    <2>2. PICK u \in User : u = Owner[c]
      BY OwnerAssumption
    <2>3. /\ Open(s, u, c, "read", "message", id, seen[u]) /\ h[s].pc = "idle" /\ u \in member
          /\ UNCHANGED <<rows, sockets, bounds>>
      BY <2>1, <2>2 DEF ReadRow, Admits
    <2>4. "read" \in AllOps /\ c \in Socket \cup {NoSocket} /\ id \in Nat /\ seen[u] \in Nat
      BY <1>1 DEF AllOps
    <2>5. /\ Stays(s) /\ h' \in [Slot -> Handler \cup {Idle}] /\ h'[s] \in Handler
          /\ h'[s].op = "read" /\ h'[s].pc = "message" /\ h'[s].user = u /\ h'[s].id = id /\ h'[s].sock = c
          /\ h'[s].cur = seen[u] /\ h'[s].items = <<>>
      BY <1>1, <2>3, <2>4, OpenFacts
    <2> QED
      BY <1>1, <2>3, <2>5, HandlerFacts
  <1> QED
    BY <1>1, <1>2, <1>3, <1>4, <1>5, HandlerFacts DEF Opens

(* What a handler is about stays until it ends; each query follows its own. *)
Follows(s) ==
    \/ h'[s] = Idle
    \/ /\ h'[s] \in Handler
       /\ h'[s].op = h[s].op /\ h'[s].user = h[s].user /\ h'[s].sock = h[s].sock
       /\ h'[s].id = h[s].id \/ InsertMessage(s)
       /\ \/ h'[s].items = h[s].items /\ h'[s].more = h[s].more /\ h'[s].next = h[s].next
          \/ FindPage(s)
       /\ h[s].op = "read" => h'[s].cur = h[s].cur
       /\ h'[s].pc \in {"touch", "push", "notify", "write", "answered", "failed"}
       /\ h'[s].pc = "touch" => InsertMessage(s)
       /\ h'[s].pc \in {"push", "answered"} /\ h[s].op = "create" => h[s].pc \in {"touch", "notify"}
       /\ h'[s].pc = "notify" => PushNew(s)
       /\ h'[s].pc = "write" => ReadMessage(s)

LEMMA GotoFollows ==
    ASSUME TypeOK, NEW s \in Slot, h[s].pc # "idle",
           NEW pc \in {"push", "notify", "write", "answered", "failed"}, Goto(s, pc),
           pc \in {"push", "answered"} /\ h[s].op = "create" => h[s].pc \in {"touch", "notify"},
           pc = "notify" => PushNew(s), pc = "write" => ReadMessage(s)
    PROVE  Stays(s) /\ h' \in [Slot -> Handler \cup {Idle}] /\ Follows(s)
  <1>1. h[s] \in Handler /\ h'[s] = [h[s] EXCEPT !.pc = pc] /\ h'[s] \in Handler
    BY GotoFacts, HandlerFacts
  <1>2. /\ h'[s].pc = pc /\ h'[s].op = h[s].op /\ h'[s].user = h[s].user /\ h'[s].sock = h[s].sock
        /\ h'[s].id = h[s].id /\ h'[s].cur = h[s].cur /\ h'[s].items = h[s].items
        /\ h'[s].more = h[s].more /\ h'[s].next = h[s].next
    BY <1>1 DEF Handler
  <1> QED
    BY <1>1, <1>2, GotoFacts DEF Follows

LEMMA EndFollows ==
    ASSUME TypeOK, NEW s \in Slot, h[s].pc # "idle",
           \/ Return(s) /\ (h[s].op = "create" => h[s].pc = "notify")
           \/ Throw(s)
    PROVE  Stays(s) /\ h' \in [Slot -> Handler \cup {Idle}] /\ Follows(s)
  <1>1. CASE Free(s)
    BY <1>1, FreeFacts DEF Follows
  <1>2. CASE Goto(s, "answered") /\ (h[s].op = "create" => h[s].pc = "notify")
    BY <1>2, GotoFollows
  <1>3. CASE Goto(s, "failed")
    BY <1>3, GotoFollows
  <1> QED
    BY <1>1, <1>2, <1>3 DEF Return, Throw

(* The steps that write more than the next query. *)
LEMMA InsertFacts ==
    ASSUME BaseInv, NEW s \in Slot, InsertMessage(s)
    PROVE  /\ Stays(s) /\ h' \in [Slot -> Handler \cup {Idle}] /\ Follows(s)
           /\ h'[s].op = "create" /\ h'[s].pc = "touch" /\ h'[s].id = Len(msgs) + 1
           /\ msgs' \in Seq(Row) /\ Len(msgs') = Len(msgs) + 1 /\ Len(msgs) \in Nat
           /\ \A i \in Id : msgs'[i] = msgs[i]
           /\ msgs # <<>> => msgs[Len(msgs)].at <= msgs'[Len(msgs) + 1].at
           /\ LET m == msgs'[Len(msgs) + 1] IN m.author = h[s].user /\ m.text = 0 /\ ~m.deleted
           /\ UNCHANGED <<member, last, seen, sockets, bounds>>
  <1> DEFINE n == Len(msgs) + 1
             r == [h[s] EXCEPT !.id = n, !.pc = "touch"]
  <1>1. h[s] \in Handler /\ h[s].op = "create" /\ h[s].pc = "insert" /\ TypeOK
    BY HandlerFacts DEF InsertMessage, At, BaseInv
  <1>2. msgs \in Seq(Row) /\ n \in Nat /\ Len(msgs) \in Nat
    BY <1>1 DEF TypeOK
  <1>3. h' = [h EXCEPT ![s] = r]
    BY ZenonT(30) DEF InsertMessage
  <1> HIDE DEF n
  <1>4. /\ r \in Handler /\ r.op = h[s].op /\ r.user = h[s].user /\ r.cur = h[s].cur
        /\ r.pc = "touch" /\ r.id = n /\ r.sock = h[s].sock
        /\ r.items = h[s].items /\ r.more = h[s].more /\ r.next = h[s].next
    BY <1>1, <1>2 DEF Handler
  <1> HIDE DEF r
  <1>5. /\ Stays(s) /\ h' \in [Slot -> Handler \cup {Idle}] /\ h'[s] = r
    BY <1>1, <1>3, <1>4 DEF TypeOK, Stays
  <1>6. Follows(s)
    BY <1>1, <1>4, <1>5 DEF Follows
  <1>7. PICK dt \in 0..1 :
          msgs' = Append(msgs, [at |-> IF msgs = <<>> THEN 1 ELSE msgs[Len(msgs)].at + dt,
                                author |-> h[s].user, text |-> 0, deleted |-> FALSE])
    BY DEF InsertMessage
  <1> DEFINE t == IF msgs = <<>> THEN 1 ELSE msgs[Len(msgs)].at + dt
             m == [at |-> t, author |-> h[s].user, text |-> 0, deleted |-> FALSE]
  <1>8. t \in Nat \ {0} /\ (msgs # <<>> => msgs[Len(msgs)].at <= t)
    <2>1. CASE msgs = <<>>
      BY <2>1
    <2>2. CASE msgs # <<>>
      <3>1. msgs[Len(msgs)] \in Row
        BY <1>2, <2>2
      <3>2. msgs[Len(msgs)].at \in Nat \ {0}
        BY <3>1 DEF Row
      <3> QED
        BY <2>2, <3>2
    <2> QED
      BY <2>1, <2>2
  <1>9. m \in Row /\ m.at = t /\ m.author = h[s].user /\ m.text = 0 /\ ~m.deleted
    <2> HIDE DEF t
    <2> QED
      BY <1>1, <1>8 DEF Row, Handler
  <1>10. msgs' = Append(msgs, m)
    BY <1>7
  <1> HIDE DEF m
  <1> HIDE DEF t
  <1>11. /\ msgs' \in Seq(Row) /\ Len(msgs') = Len(msgs) + 1 /\ \A i \in Id : msgs'[i] = msgs[i]
         /\ msgs'[Len(msgs) + 1] = m
    BY <1>2, <1>9, <1>10 DEF Id
  <1>12. UNCHANGED <<member, last, seen, sockets, bounds>>
    BY DEF InsertMessage
  <1> QED
    BY <1>1, <1>2, <1>4, <1>5, <1>6, <1>8, <1>9, <1>11, <1>12 DEF n

LEMMA WriteEditFacts ==
    ASSUME BaseInv, NEW s \in Slot, WriteEdit(s)
    PROVE  /\ Stays(s) /\ h' \in [Slot -> Handler \cup {Idle}] /\ Follows(s)
           /\ msgs' \in Seq(Row) /\ Len(msgs') = Len(msgs)
           /\ \A i \in Id : msgs'[i].at = msgs[i].at /\ msgs'[i].author = msgs[i].author
                            /\ msgs'[i].deleted = msgs[i].deleted
           /\ \A i \in Id : i # h[s].id => msgs'[i].text = msgs[i].text
           /\ h'[s].cur = msgs'[h[s].id].text
           /\ h'[s].op = "edit" /\ h'[s].pc = "push" /\ h'[s].id = h[s].id
           /\ UNCHANGED <<member, last, seen, sockets, bounds>>
  <1> DEFINE i == h[s].id
             n == msgs[i].text + 1
             r == [h[s] EXCEPT !.cur = n, !.pc = "push"]
             m == [msgs[i] EXCEPT !.text = n]
  <1>1. h[s] \in Handler /\ h[s].op = "edit" /\ h[s].pc = "write" /\ TypeOK
    BY HandlerFacts DEF WriteEdit, At, BaseInv
  <1>2. msgs \in Seq(Row) /\ i \in 1..Len(msgs)
    BY <1>1 DEF TypeOK, BaseInv, NamesStored, Names
  <1>3. msgs[i] \in Row /\ n \in Nat
    <2>1. msgs[i] \in Row
      BY <1>2
    <2> QED
      BY <2>1 DEF Row
  <1>4. h' = [h EXCEPT ![s] = r]
    BY ZenonT(30) DEF WriteEdit
  <1>5. msgs' = [msgs EXCEPT ![i] = m]
    BY DEF WriteEdit
  <1>6. UNCHANGED <<member, last, seen, sockets, bounds>>
    BY DEF WriteEdit
  <1> HIDE DEF n
  <1>7. /\ r \in Handler /\ r.op = h[s].op /\ r.user = h[s].user /\ r.id = h[s].id /\ r.pc = "push"
        /\ r.sock = h[s].sock /\ r.cur = n
        /\ r.items = h[s].items /\ r.more = h[s].more /\ r.next = h[s].next
    BY <1>1, <1>3 DEF Handler
  <1>8. m \in Row /\ m.at = msgs[i].at /\ m.author = msgs[i].author /\ m.deleted = msgs[i].deleted /\ m.text = n
    BY <1>3 DEF Row
  <1>9. i = h[s].id
    OBVIOUS
  <1> HIDE DEF r, m, i
  <1>10. /\ Stays(s) /\ h' \in [Slot -> Handler \cup {Idle}] /\ h'[s] = r
    BY <1>1, <1>4, <1>7 DEF TypeOK, Stays
  <1>11. Follows(s)
    BY <1>1, <1>7, <1>10 DEF Follows
  <1>12. /\ msgs' \in Seq(Row) /\ Len(msgs') = Len(msgs) /\ msgs'[i] = m
         /\ \A j \in Id : j # i => msgs'[j] = msgs[j]
    BY <1>2, <1>5, <1>8 DEF Id
  <1> QED
    BY <1>1, <1>6, <1>7, <1>8, <1>9, <1>10, <1>11, <1>12

LEMMA WriteDeleteFacts ==
    ASSUME BaseInv, NEW s \in Slot, WriteDelete(s)
    PROVE  /\ msgs' \in Seq(Row) /\ Len(msgs') = Len(msgs)
           /\ \A i \in Id : msgs'[i].at = msgs[i].at /\ msgs'[i].author = msgs[i].author
                            /\ (msgs[i].deleted => msgs'[i].deleted)
                            /\ msgs'[i].text = msgs[i].text
           /\ msgs'[h[s].id].deleted
           /\ \A i \in Id : i # h[s].id => msgs'[i] = msgs[i]
           /\ h'[s].op = "delete" /\ h'[s].pc = "push" /\ h'[s].id = h[s].id
           /\ UNCHANGED <<member, last, seen, sockets, bounds>>
  <1> DEFINE i == h[s].id
             m == [msgs[i] EXCEPT !.deleted = TRUE]
  <1>1. h[s].op = "delete" /\ h[s].pc = "write" /\ TypeOK
    BY DEF WriteDelete, At, BaseInv
  <1>2. msgs \in Seq(Row) /\ i \in 1..Len(msgs)
    BY <1>1 DEF TypeOK, BaseInv, NamesStored, Names
  <1>3. msgs[i] \in Row
    BY <1>2
  <1>4. msgs' = [msgs EXCEPT ![i] = m]
    BY DEF WriteDelete
  <1>5. m \in Row /\ m.at = msgs[i].at /\ m.author = msgs[i].author /\ m.deleted /\ m.text = msgs[i].text
    BY <1>3 DEF Row
  <1>6. i = h[s].id
    OBVIOUS
  <1>7. h'[s].op = "delete" /\ h'[s].pc = "push" /\ h'[s].id = h[s].id
    <2>1. h[s] \in Handler /\ h'[s] = [h[s] EXCEPT !.pc = "push"]
      BY <1>1, HandlerFacts, GotoFacts DEF WriteDelete
    <2> QED
      BY <1>1, <2>1 DEF Handler
  <1> HIDE DEF m, i
  <1>8. /\ msgs' \in Seq(Row) /\ Len(msgs') = Len(msgs) /\ msgs'[i] = m
        /\ \A j \in Id : j # i => msgs'[j] = msgs[j]
    BY <1>2, <1>4, <1>5 DEF Id
  <1> QED
    BY <1>5, <1>6, <1>7, <1>8 DEF WriteDelete

LEMMA IdsFinite ==
    ASSUME TypeOK, NEW S, S \subseteq Id
    PROVE  IsFiniteSet(S) /\ Cardinality(S) \in Nat
  <1>1. Len(msgs) \in Nat
    BY DEF TypeOK
  <1>2. IsFiniteSet(Id)
    BY <1>1, FS_Interval DEF Id
  <1> QED
    BY <1>2, FS_Subset, FS_CardinalityType

(* As many places as there are elements, none of them twice: every element has one. *)
LEMMA Onto ==
    ASSUME NEW S, IsFiniteSet(S), NEW q \in [1..Cardinality(S) -> S],
           \A i, j \in 1..Cardinality(S) : q[i] = q[j] => i = j, NEW x \in S
    PROVE  \E k \in 1..Cardinality(S) : q[k] = x
  <1> DEFINE n == Cardinality(S)
             P == 1..n
  <1>1. n \in Nat
    BY FS_CardinalityType
  <1>2. Cardinality(P) = n
    <2> HIDE DEF n
    <2> QED
      BY <1>1, FS_Interval
  <1>3. q \in Injection(P, S)
    BY DEF Injection, IsInjective
  <1>4. q \in Surjection(P, S)
    BY <1>2, <1>3, FS_Injection
  <1> QED
    BY <1>4 DEF Surjection

(* A page: other messages than those from the cursor on, none twice, as they are *)
(* now; when there are more, nothing on it is older than the next cursor.  It has *)
(* all of them down to there but for the millisecond of the cursor, newest first. *)
PageOK(r, before) ==
    /\ \A i \in DOMAIN r.items : LET m == r.items[i] IN m.id \in Live /\ m.text = msgs[m.id].text
    /\ r.more => DOMAIN r.items # {}
    /\ \A x \in Live : (before = 0 \/ msgs[x].at < before) /\ (r.more => r.next <= msgs[x].at) =>
          \/ \E i \in DOMAIN r.items : r.items[i].id = x
          \/ \E j \in Id \ {x} : msgs[j].at = msgs[x].at
    /\ \A i \in DOMAIN r.items, x \in Live :
          (before = 0 \/ msgs[x].at < before) /\ msgs[r.items[i].id].at < msgs[x].at =>
              \E k \in DOMAIN r.items : k < i /\ r.items[k].id = x
    /\ \A i \in DOMAIN r.items : /\ r.items[i].id \in Id
                                 /\ before = 0 \/ msgs[r.items[i].id].at < before
    /\ \A i, j \in DOMAIN r.items : r.items[i].id = r.items[j].id => i = j
    /\ r.more => /\ r.next # 0 /\ (before = 0 \/ r.next < before)
                 /\ \E i \in Id : r.next = msgs[i].at
                 /\ \A i \in DOMAIN r.items : r.next <= msgs[r.items[i].id].at

LEMMA FindPageFollows ==
    ASSUME BaseInv, NEW s \in Slot, FindPage(s)
    PROVE  /\ Stays(s) /\ h' \in [Slot -> Handler \cup {Idle}] /\ Follows(s)
           /\ h'[s] \in Handler /\ h'[s].pc = "answered" /\ h'[s].op = "page"
           /\ h'[s].sock = h[s].sock /\ PageOK(h'[s], h[s].next)
  <1> DEFINE before == h[s].next
             found == {i \in Live : before = 0 \/ msgs[i].at < before}
             n == Cardinality(found)
             full == n > PageSize
  <1>1. h[s] \in Handler /\ h[s].op = "page" /\ h[s].pc = "find" /\ TypeOK
    BY HandlerFacts DEF FindPage, At, BaseInv
  <1>2. found \subseteq Id /\ n \in Nat /\ PageSize \in Nat \ {0} /\ msgs \in Seq(Row)
    BY <1>1, IdsFinite, BoundsAssumption DEF Live, TypeOK
  <1>3. PICK q \in NewestFirst(found) :
          h' = [h EXCEPT ![s].pc = "answered",
                         ![s].items = [i \in 1..(IF full THEN PageSize ELSE Len(q)) |-> Shown(q[i])],
                         ![s].more = full,
                         ![s].next = IF full THEN msgs[q[PageSize]].at ELSE 0]
    BY DEF FindPage
  <1>4. q \in [1..n -> found] /\ Len(q) = n
    <2>1. q \in [1..n -> found]
      BY DEF NewestFirst
    <2> HIDE DEF n, found
    <2> QED
      BY <1>2, <2>1
  <1> DEFINE k == IF full THEN PageSize ELSE Len(q)
             items == [i \in 1..k |-> Shown(q[i])]
             next == IF full THEN msgs[q[PageSize]].at ELSE 0
             r == [h[s] EXCEPT !.pc = "answered", !.items = items, !.more = full, !.next = next]
  <1>5. \A i \in Id : msgs[i].at \in Nat /\ msgs[i].text \in Nat
    <2>1. \A i \in Id : msgs[i] \in Row
      BY <1>2 DEF Id
    <2> QED
      BY <2>1 DEF Row
  <1>6. k \in Nat /\ \A i \in 1..k : q[i] \in Id
    <2> HIDE DEF n, found
    <2> QED
      BY <1>2, <1>4
  <1>7. items \in Seq([id : Nat, text : Nat])
    <2> HIDE DEF k
    <2>1. \A i \in 1..k : Shown(q[i]) \in [id : Nat, text : Nat]
      BY <1>5, <1>6 DEF Shown, Id
    <2> QED
      BY <1>6, <2>1
  <1>8. next \in Nat /\ full \in BOOLEAN
    <2> HIDE DEF n, found
    <2> QED
      BY <1>2, <1>4, <1>5
  <1>9. k <= n /\ (full => k = PageSize) /\ \A i \in 1..k : q[i] \in found
    <2> HIDE DEF n, found
    <2> QED
      BY <1>2, <1>4
  <1>10. \A i, j \in 1..k : i < j => q[i] # q[j] /\ msgs[q[i]].at >= msgs[q[j]].at
    <2>1. \A i, j \in DOMAIN q : i < j => q[i] # q[j] /\ msgs[q[i]].at >= msgs[q[j]].at
      BY DEF NewestFirst
    <2>2. \A i \in 1..k : i \in DOMAIN q
      <3> HIDE DEF n, found, k
      <3> QED
        BY <1>2, <1>4, <1>6, <1>9
    <2> QED
      BY <2>1, <2>2
  <1>11. \A i, j \in 1..n : i < j => q[i] # q[j] /\ msgs[q[i]].at >= msgs[q[j]].at
    <2>1. \A i, j \in DOMAIN q : i < j => q[i] # q[j] /\ msgs[q[i]].at >= msgs[q[j]].at
      BY DEF NewestFirst
    <2> HIDE DEF n, found
    <2> QED
      BY <1>4, <2>1
  <1>12. \A x \in found : \E j \in 1..n : q[j] = x
    <2>1. \A i, j \in 1..n : q[i] = q[j] => i = j
      <3> HIDE DEF n
      <3> QED
        BY <1>2, <1>11
    <2>2. IsFiniteSet(found)
      BY <1>1, <1>2, IdsFinite
    <2> HIDE DEF found
    <2> QED
      BY <1>4, <2>1, <2>2, Onto
  <1>13. (~full => k = n) /\ (full => k < n)
    <2> HIDE DEF n, found
    <2> QED
      BY <1>2, <1>4
  <1>14. /\ DOMAIN items = 1..k
         /\ \A i \in 1..k : items[i].id = q[i] /\ items[i].text = msgs[q[i]].text
    BY DEF Shown
  <1>15. /\ found \subseteq Live
          /\ \A x \in Live : before = 0 \/ msgs[x].at < before => x \in found
    OBVIOUS
  <1>16. full => /\ k \in 1..k /\ next = msgs[q[k]].at
    <2> HIDE DEF n, found
    <2> QED
      BY <1>2, <1>9
  <1>17. \A i \in 1..k : q[i] \in Id /\ (before = 0 \/ msgs[q[i]].at < before)
    BY <1>6, <1>9
  <1>18. h' = [h EXCEPT ![s] = r]
    BY <1>3, ZenonT(30)
  <1> HIDE DEF items, next, full, k, found, n
  <1>19. \A i, j \in 1..k : q[i] = q[j] => i = j
    BY <1>6, <1>10
  <1>20. full => \A i \in 1..k : next <= msgs[q[i]].at
    BY <1>5, <1>6, <1>10, <1>16
  <1>21. full => next # 0
    <2>1. \A i \in Id : msgs[i].at # 0
      <3>1. \A i \in Id : msgs[i] \in Row
        BY <1>2 DEF Id
      <3> QED
        BY <3>1 DEF Row
    <2> QED
      BY <1>6, <1>16, <2>1
  <1>22. /\ r \in Handler /\ r.op = "page" /\ r.pc = "answered" /\ r.user = h[s].user /\ r.id = h[s].id
         /\ r.sock = h[s].sock /\ r.items = items /\ r.more = full /\ r.next = next
    BY <1>1, <1>7, <1>8 DEF Handler
  <1> HIDE DEF r
  <1>23. /\ Stays(s) /\ h' \in [Slot -> Handler \cup {Idle}] /\ h'[s] = r
    BY <1>1, <1>18, <1>22 DEF TypeOK, Stays
  <1>24. \A i \in DOMAIN items : LET m == items[i] IN m.id \in Live /\ m.text = msgs[m.id].text
    BY <1>9, <1>14, <1>15
  <1>25. full => DOMAIN items # {}
    BY <1>14, <1>16
  <1>26. ASSUME NEW x \in Live, before = 0 \/ msgs[x].at < before, full => next <= msgs[x].at
         PROVE  \/ \E i \in DOMAIN items : items[i].id = x
                \/ \E j \in Id \ {x} : msgs[j].at = msgs[x].at
    <2>1. PICK j \in 1..n : q[j] = x
      BY <1>12, <1>15, <1>26
    <2>2. CASE j \in 1..k
      BY <1>14, <2>1, <2>2
    <2>3. CASE j \notin 1..k
      <3>1. full /\ k \in 1..n /\ k < j
        BY <1>2, <1>6, <1>13, <1>16, <2>3
      <3>2. q[k] # x /\ q[k] \in Id /\ next = msgs[q[k]].at /\ msgs[q[k]].at >= msgs[x].at
        BY <1>6, <1>11, <1>16, <2>1, <3>1
      <3>3. x \in Id
        BY DEF Live
      <3>4. msgs[q[k]].at = msgs[x].at
        BY <1>5, <1>26, <3>1, <3>2, <3>3
      <3> QED
        BY <3>2, <3>4
    <2> QED
      BY <2>2, <2>3
  <1>27. ASSUME NEW i \in DOMAIN items, NEW x \in Live, before = 0 \/ msgs[x].at < before,
                msgs[items[i].id].at < msgs[x].at
         PROVE  \E m \in DOMAIN items : m < i /\ items[m].id = x
    <2>1. PICK j \in 1..n : q[j] = x
      BY <1>12, <1>15, <1>27
    <2>2. i \in 1..k /\ i \in 1..n /\ msgs[q[i]].at < msgs[x].at /\ q[i] \in Id /\ x \in Id
      BY <1>2, <1>6, <1>9, <1>14, <1>27 DEF Live
    <2>3. ~(i < j) /\ i # j
      BY <1>5, <1>11, <2>1, <2>2
    <2>4. j \in 1..k /\ j < i
      BY <1>2, <1>6, <2>2, <2>3
    <2> QED
      BY <1>14, <2>1, <2>4
  <1>28. PageOK(r, before)
    BY <1>14, <1>16, <1>17, <1>19, <1>20, <1>21, <1>22, <1>24, <1>25, <1>26, <1>27 DEF PageOK
  <1> QED
    BY <1>1, <1>22, <1>23, <1>28 DEF Follows

LEMMA ListCountsFollows ==
    ASSUME BaseInv, NEW s \in Slot, ListCounts(s)
    PROVE  Stays(s) /\ h' \in [Slot -> Handler \cup {Idle}] /\ Follows(s)
  <1> DEFINE n == Cardinality(UnreadAfter(h[s].user, h[s].cur))
             r == [h[s] EXCEPT !.cur = n, !.pc = "answered"]
  <1>1. h[s] \in Handler /\ h[s].op = "list" /\ h[s].pc = "count" /\ TypeOK
    BY HandlerFacts DEF ListCounts, At, BaseInv
  <1>2. n \in Nat
    BY <1>1, IdsFinite DEF UnreadAfter, Live
  <1>3. h' = [h EXCEPT ![s] = r]
    BY ZenonT(30) DEF ListCounts
  <1> HIDE DEF n
  <1>4. /\ r \in Handler /\ r.op = "list" /\ r.pc = "answered" /\ r.user = h[s].user /\ r.id = h[s].id
        /\ r.sock = h[s].sock
        /\ r.items = h[s].items /\ r.more = h[s].more /\ r.next = h[s].next
    BY <1>1, <1>2 DEF Handler
  <1> HIDE DEF r
  <1>5. /\ Stays(s) /\ h' \in [Slot -> Handler \cup {Idle}] /\ h'[s] = r
    BY <1>1, <1>3, <1>4 DEF TypeOK, Stays
  <1> QED
    BY <1>1, <1>4, <1>5 DEF Follows

LEMMA WorksFacts ==
    ASSUME BaseInv, NEW s \in Slot, Continue(s) \/ Fail(s)
    PROVE  /\ h[s] \in Handler /\ Stays(s) /\ h' \in [Slot -> Handler \cup {Idle}] /\ Follows(s)
  <1> USE DEF At
  <1>1. TypeOK
    BY DEF BaseInv
  <1>2. h[s].pc # "idle" /\ h[s] \in Handler
    BY <1>1, HandlerFacts DEF Continue, Fail, InsertMessage, TouchMembers, PushNew, NotifyOthers, WriteEdit, WriteDelete,
           PushEdit, PushDeleted, FindPage, ListCounts, ReadMessage, WriteSeen, JoinRoom
  <1>3. CASE TouchMembers(s)
    BY <1>1, <1>2, <1>3, GotoFollows DEF TouchMembers
  <1>4. CASE PushNew(s)
    BY <1>1, <1>2, <1>4, GotoFollows DEF PushNew
  <1>5. CASE NotifyOthers(s)
    BY <1>1, <1>2, <1>5, EndFollows DEF NotifyOthers
  <1>6. CASE WriteDelete(s)
    BY <1>1, <1>2, <1>6, GotoFollows DEF WriteDelete
  <1>7. CASE PushEdit(s) \/ PushDeleted(s)
    BY <1>1, <1>2, <1>7, EndFollows DEF PushEdit, PushDeleted
  <1>8. CASE ReadMessage(s)
    BY <1>1, <1>2, <1>8, GotoFollows, EndFollows DEF ReadMessage
  <1>9. CASE WriteSeen(s) \/ JoinRoom(s)
    BY <1>1, <1>2, <1>9, EndFollows DEF WriteSeen, JoinRoom
  <1>10. CASE Fail(s)
    BY <1>1, <1>2, <1>10, EndFollows DEF Fail
  <1> QED
    BY <1>1, <1>2, <1>3, <1>4, <1>5, <1>6, <1>7, <1>8, <1>9, <1>10, HandlerFacts,
       InsertFacts, WriteEditFacts, FindPageFollows, ListCountsFollows DEF Continue

-----------------------------------------------------------------------------
(* Rows are appended, and their createdAt and author never change. *)
Grows ==
    /\ msgs' \in Seq(Row) /\ Len(msgs') >= Len(msgs)
    /\ \A i \in Id : /\ msgs'[i].at = msgs[i].at /\ msgs'[i].author = msgs[i].author
                     /\ msgs[i].deleted => msgs'[i].deleted
    /\ Len(msgs') # Len(msgs) => \E s \in Slot : InsertMessage(s)

LEMMA MessagesGrow == ASSUME BaseInv, Next PROVE Grows
  <1>1. msgs \in Seq(Row) /\ Len(msgs) \in Nat
    BY DEF BaseInv, TypeOK
  <1>2. CASE UNCHANGED msgs
    BY <1>1, <1>2 DEF Grows
  <1>3. ASSUME NEW s \in Slot, InsertMessage(s) PROVE Grows
    BY <1>1, <1>3, InsertFacts DEF Grows
  <1>4. ASSUME NEW s \in Slot, WriteEdit(s) PROVE Grows
    BY <1>1, <1>4, WriteEditFacts DEF Grows
  <1>5. ASSUME NEW s \in Slot, WriteDelete(s) PROVE Grows
    BY <1>1, <1>5, WriteDeleteFacts DEF Grows
  <1>6. ASSUME NEW s \in Slot, Continue(s), ~InsertMessage(s), ~WriteEdit(s), ~WriteDelete(s)
        PROVE  UNCHANGED msgs
    BY <1>6 DEF Continue, TouchMembers, PushNew, NotifyOthers, PushEdit, PushDeleted, FindPage, ListCounts,
                ReadMessage, WriteSeen, JoinRoom, rows
  <1>7. ASSUME NEW s \in Slot, Opens(s) \/ Fail(s) PROVE UNCHANGED msgs
    BY <1>7, OpensFacts DEF Fail, rows
  <1>8. CASE Moves \/ \E c \in Socket : Receive(c)
    BY <1>2, <1>8 DEF Moves, Connect, Disconnect, LeaveRoom, RemoveMember, AddMember, Receive, rows
  <1> QED
    BY <1>2, <1>3, <1>4, <1>5, <1>6, <1>7, <1>8, NextCases

LEMMA PushedType ==
    ASSUME TypeOK, NEW to, NEW kind \in {"new", "notify", "updated", "deleted"}, NEW id \in Id,
           Emit(to, kind, id)
    PROVE  wire' \in [Socket -> Seq(PushedEvent)]
  <1> DEFINE e == [kind |-> kind, id |-> id, text |-> msgs[id].text]
  <1>1. msgs[id] \in Row /\ id \in Nat
    BY DEF TypeOK, Id
  <1>2. e \in PushedEvent
    BY <1>1 DEF PushedEvent, Row
  <1>3. wire' = [c \in Socket |-> IF c \in to THEN Append(wire[c], e) ELSE wire[c]]
    BY DEF Emit
  <1> HIDE DEF e
  <1> QED
    BY <1>2, <1>3 DEF TypeOK

LEMMA SocketsType ==
    ASSUME BaseInv, Next
    PROVE  online' \subseteq Socket /\ room' \subseteq Socket /\ wire' \in [Socket -> Seq(PushedEvent)]
  <1>1. TypeOK
    BY DEF BaseInv
  <1>2. CASE UNCHANGED sockets
    BY <1>1, <1>2 DEF TypeOK, sockets
  <1>3. ASSUME NEW s \in Slot, PushNew(s) \/ NotifyOthers(s) \/ PushDeleted(s)
        PROVE  UNCHANGED <<online, room>> /\ wire' \in [Socket -> Seq(PushedEvent)]
    <2>1. h[s].id \in Id
      BY <1>3 DEF PushNew, NotifyOthers, PushDeleted, At, BaseInv, NamesStored, Names, Id
    <2> QED
      BY <1>1, <1>3, <2>1, PushedType DEF PushNew, NotifyOthers, PushDeleted
  <1>4. ASSUME NEW s \in Slot, PushEdit(s)
        PROVE  UNCHANGED <<online, room>> /\ wire' \in [Socket -> Seq(PushedEvent)]
    <2> DEFINE e == [kind |-> "updated", id |-> h[s].id, text |-> h[s].cur]
    <2>1. h[s] \in Handler
      BY <1>1, <1>4, HandlerFacts DEF PushEdit, At
    <2>2. e \in PushedEvent
      BY <2>1 DEF PushedEvent, Handler
    <2>3. wire' = [c \in Socket |-> IF c \in room THEN Append(wire[c], e) ELSE wire[c]]
      BY <1>4 DEF PushEdit
    <2> HIDE DEF e
    <2> QED
      BY <1>1, <1>4, <2>2, <2>3 DEF TypeOK, PushEdit
  <1>5. ASSUME NEW s \in Slot, JoinRoom(s)
        PROVE  online' \subseteq Socket /\ room' \subseteq Socket /\ wire' \in [Socket -> Seq(PushedEvent)]
    BY <1>1, <1>5 DEF JoinRoom, TypeOK
  <1>6. CASE Moves
    <2>1. CASE \E u \in User : RemoveMember(u) \/ AddMember(u)
      BY <1>2, <2>1 DEF RemoveMember, AddMember
    <2>2. ASSUME NEW c \in Socket, Connect(c) \/ LeaveRoom(c)
          PROVE  online' \subseteq Socket /\ room' \subseteq Socket /\ wire' \in [Socket -> Seq(PushedEvent)]
      BY <1>1, <2>2 DEF Connect, LeaveRoom, TypeOK
    <2>3. ASSUME NEW c \in Socket, Disconnect(c)
          PROVE  online' \subseteq Socket /\ room' \subseteq Socket /\ wire' \in [Socket -> Seq(PushedEvent)]
      BY <1>1, <2>3 DEF Disconnect, TypeOK
    <2> QED
      BY <1>6, <2>1, <2>2, <2>3 DEF Moves
  <1>7. CASE \E c \in Socket : Receive(c)
    BY <1>1, <1>7 DEF Receive, TypeOK
  <1>8. ASSUME NEW s \in Slot, Continue(s), ~PushNew(s), ~NotifyOthers(s), ~PushDeleted(s), ~PushEdit(s),
               ~JoinRoom(s)
        PROVE  UNCHANGED sockets
    BY <1>8 DEF Continue, InsertMessage, TouchMembers, WriteEdit, WriteDelete, FindPage, ListCounts,
                ReadMessage, WriteSeen
  <1>9. ASSUME NEW s \in Slot, Opens(s) \/ Fail(s) PROVE UNCHANGED sockets
    BY <1>9, OpensFacts DEF Fail
  <1> QED
    BY <1>1, <1>2, <1>3, <1>4, <1>5, <1>6, <1>7, <1>8, <1>9, NextCases DEF TypeOK

LEMMA MembersType ==
    ASSUME BaseInv, Next
    PROVE  /\ member' \subseteq User /\ last' \in [User -> Nat] /\ seen' \in [User -> Nat]
           /\ \A u \in User : seen'[u] \in 0..Len(msgs) /\ (u \notin member' => seen'[u] = 0)
           /\ moves' \in Nat /\ faults' \in Nat
  <1>1. TypeOK /\ NamesStored /\ Len(msgs) \in Nat
    BY DEF BaseInv, TypeOK
  <1> USE <1>1 DEF TypeOK, NamesStored
  <1>2. CASE UNCHANGED <<member, last, seen>> /\ moves' \in Nat /\ faults' \in Nat
    BY <1>2
  <1>3. ASSUME NEW s \in Slot, TouchMembers(s)
        PROVE  last' \in [User -> Nat] /\ UNCHANGED <<member, seen, moves, faults>>
    <2>1. h[s].id \in Nat
      BY <1>3 DEF TouchMembers, At, Names
    <2> QED
      BY <1>3, <2>1 DEF TouchMembers, bounds
  <1>4. ASSUME NEW s \in Slot, WriteSeen(s)
        PROVE  /\ seen' \in [User -> Nat] /\ UNCHANGED <<member, last, moves, faults>>
               /\ \A u \in User : seen'[u] \in 0..Len(msgs) /\ (u \notin member => seen'[u] = 0)
    <2>1. h[s].id \in 1..Len(msgs)
      BY <1>4 DEF WriteSeen, At, Names
    <2> QED
      BY <1>4, <2>1 DEF WriteSeen, bounds
  <1>5. ASSUME NEW s \in Slot, Opens(s) PROVE UNCHANGED <<member, last, seen, moves, faults>>
    BY <1>5, OpensFacts DEF rows, bounds
  <1>6. ASSUME NEW s \in Slot, Fail(s)
        PROVE  UNCHANGED <<member, last, seen>> /\ moves' \in Nat /\ faults' \in Nat
    BY <1>6 DEF Fail, rows
  <1>7. ASSUME NEW s \in Slot, Continue(s), ~TouchMembers(s), ~WriteSeen(s)
        PROVE  UNCHANGED <<member, last, seen, moves, faults>>
    BY <1>7 DEF Continue, InsertMessage, PushNew, NotifyOthers, WriteEdit, WriteDelete, PushEdit, PushDeleted,
                FindPage, ListCounts, ReadMessage, JoinRoom, rows, bounds
  <1>8. ASSUME NEW u \in User, RemoveMember(u)
        PROVE  /\ member' = member \ {u} /\ last' \in [User -> Nat] /\ seen' \in [User -> Nat]
               /\ \A v \in User : seen'[v] \in 0..Len(msgs) /\ (v \notin member' => seen'[v] = 0)
               /\ moves' \in Nat /\ faults' \in Nat
    BY <1>8 DEF RemoveMember
  <1>9. ASSUME NEW u \in User, AddMember(u)
        PROVE  member' = member \cup {u} /\ UNCHANGED <<last, seen, moves, faults>>
    BY <1>9 DEF AddMember, bounds
  <1>10. ASSUME NEW c \in Socket, Connect(c) \/ Disconnect(c) \/ LeaveRoom(c) \/ Receive(c)
         PROVE  UNCHANGED <<member, last, seen>> /\ moves' \in Nat /\ faults' \in Nat
    BY <1>10 DEF Connect, Disconnect, LeaveRoom, Receive, rows, bounds
  <1> QED
    BY <1>2, <1>3, <1>4, <1>5, <1>6, <1>7, <1>8, <1>9, <1>10, NextCases DEF Moves

(* What a handler names is stored when it opens, and rows are never removed. *)
LEMMA NamesStep == ASSUME BaseInv, Next, NEW s \in Slot PROVE Names(h'[s], Len(msgs'))
  <1>1. Names(h[s], Len(msgs)) /\ \A u \in User : seen[u] \in 0..Len(msgs)
    BY DEF BaseInv, NamesStored
  <1>2. Len(msgs) \in Nat /\ Len(msgs') \in Nat /\ Len(msgs) <= Len(msgs') /\ TypeOK
    BY MessagesGrow DEF Grows, BaseInv, TypeOK
  <1>3. CASE h'[s] = h[s]
    BY <1>1, <1>2, <1>3 DEF Names
  <1>4. CASE Opens(s)
    <2>1. h'[s] \in Handler
      BY <1>4, OpensFacts
    <2>2. h'[s].op = "read" => h'[s].cur \in 0..Len(msgs)
      BY <1>1, <1>4, <2>1, OpensFacts DEF Handler
    <2> QED
      BY <1>2, <1>4, <2>2, OpensFacts DEF Names, Id
  <1>5. CASE Continue(s) \/ Fail(s)
    <2>1. CASE h'[s] = Idle
      BY <2>1 DEF Idle, Names
    <2>2. CASE InsertMessage(s)
      BY <1>2, <2>2, InsertFacts DEF Names
    <2>3. CASE h'[s] # Idle /\ ~InsertMessage(s)
      <3>1. /\ h'[s].op = h[s].op /\ h'[s].id = h[s].id
            /\ h[s].op = "read" => h'[s].cur = h[s].cur
            /\ h'[s].pc \in {"push", "notify", "write", "answered", "failed"}
            /\ h'[s].pc \in {"push", "answered"} /\ h[s].op = "create" => h[s].pc \in {"touch", "notify"}
            /\ h'[s].pc = "notify" => PushNew(s)
            /\ h'[s].pc = "write" => ReadMessage(s)
        BY <1>5, <2>3, WorksFacts DEF Follows
      <3>2. h'[s].op = "create" /\ h'[s].pc # "failed" => h[s].pc \in {"touch", "push", "notify"}
        BY <3>1 DEF PushNew, ReadMessage, At
      <3> QED
        BY <1>1, <1>2, <3>1, <3>2 DEF Names
    <2> QED
      BY <2>1, <2>2, <2>3
  <1>6. ASSUME NEW t \in Slot, Opens(t) \/ Continue(t) \/ Fail(t), t # s
        PROVE  h'[s] = h[s]
    BY <1>6, OpensFacts, WorksFacts DEF Stays
  <1>7. Moves \/ (\E c \in Socket : Receive(c)) => UNCHANGED h
    BY DEF Moves, Connect, Disconnect, LeaveRoom, RemoveMember, AddMember, Receive
  <1> QED
    BY <1>3, <1>4, <1>5, <1>6, <1>7, NextCases

LEMMA BaseInit == Init => BaseInv
  <1> SUFFICES ASSUME Init PROVE BaseInv
    OBVIOUS
  <1>1. TypeOK
    BY DEF Init, TypeOK
  <1>2. \A s \in Slot : h[s] = Idle
    BY DEF Init
  <1>3. Len(msgs) = 0 /\ \A u \in User : seen[u] = 0
    BY DEF Init
  <1>4. \A s \in Slot : Names(h[s], Len(msgs))
    BY <1>2 DEF Idle, Names
  <1> QED
    BY <1>1, <1>3, <1>4 DEF BaseInv, NamesStored

LEMMA BaseStep == BaseInv /\ [Next]_vars => BaseInv'
  <1> SUFFICES ASSUME BaseInv, [Next]_vars PROVE BaseInv'
    OBVIOUS
  <1>1. CASE Next
    <2>1. Len(msgs) <= Len(msgs') /\ Len(msgs) \in Nat /\ Len(msgs') \in Nat /\ msgs' \in Seq(Row)
      BY <1>1, MessagesGrow DEF Grows, BaseInv, TypeOK
    <2>2. h' \in [Slot -> Handler \cup {Idle}]
      <3>1. Moves \/ (\E c \in Socket : Receive(c)) => UNCHANGED h
        BY DEF Moves, Connect, Disconnect, LeaveRoom, RemoveMember, AddMember, Receive
      <3>2. h \in [Slot -> Handler \cup {Idle}]
        BY DEF BaseInv, TypeOK
      <3> QED
        BY <1>1, <3>1, <3>2, NextCases, OpensFacts, WorksFacts
    <2>3. TypeOK'
      BY <1>1, <2>1, <2>2, SocketsType, MembersType DEF TypeOK
    <2>4. NamesStored'
      BY <1>1, <2>1, NamesStep, MembersType DEF NamesStored
    <2> QED
      BY <2>3, <2>4 DEF BaseInv
  <1>2. CASE UNCHANGED vars
    BY <1>2 DEF vars, rows, sockets, bounds, BaseInv, TypeOK, NamesStored
  <1> QED
    BY <1>1, <1>2

LEMMA NextOfRun == HistoryNext => Next /\ Remember
  BY DEF HistoryNext, Next

LEMMA AtMostOne ==
    ASSUME NEW S, IsFiniteSet(S), ~(Cardinality(S) > 1), NEW x \in S, NEW y \in S
    PROVE  x = y
  <1>1. /\ IsFiniteSet(S \ {x}) /\ Cardinality(S \ {x}) = Cardinality(S) - 1
        /\ Cardinality(S) \in Nat /\ Cardinality(S \ {x}) \in Nat
    BY FS_RemoveElement, FS_CardinalityType
  <1>2. S \ {x} = {}
    BY <1>1, FS_EmptySet
  <1> QED
    BY <1>2

-----------------------------------------------------------------------------
(* The preview.  Until creates cross, one create at a time is between its      *)
(* insert and its update, it is the one that inserted the newest message, and  *)
(* when there is none the rows name that message.                              *)
Newest ==
    /\ \A s, t \in Touching : s = t
    /\ \A s \in Touching : h[s].id = Len(msgs)
    /\ Touching = {} => \A u \in member \ fresh : last[u] = Len(msgs)

NewestInv == IsFiniteSet(Touching) /\ (~crossed => Newest)

(* A step that neither inserts, updates, fails nor changes the members. *)
LEMMA OtherStepTouches ==
    ASSUME BaseInv, Next,
           \A s \in Slot : ~InsertMessage(s) /\ ~TouchMembers(s) /\ ~Fail(s),
           \A u \in User : ~RemoveMember(u) /\ ~AddMember(u)
    PROVE  /\ Touching' = Touching /\ \A s \in Touching : h'[s].id = h[s].id
           /\ Len(msgs') = Len(msgs) /\ UNCHANGED <<member, last>>
  <1>1. Len(msgs') = Len(msgs)
    BY MessagesGrow DEF Grows
  <1>2. ASSUME NEW s \in Slot, Opens(s)
        PROVE  UNCHANGED <<member, last>> /\ ~At(s, "create", "touch") /\ ~At(s, "create", "touch")'
    BY <1>2, OpensFacts DEF At, Idle, rows
  <1>3. ASSUME NEW s \in Slot, Continue(s)
        PROVE  UNCHANGED <<member, last>> /\ ~At(s, "create", "touch") /\ ~At(s, "create", "touch")'
    <2>1. UNCHANGED <<member, last>> /\ ~At(s, "create", "touch")
      BY <1>3 DEF Continue, InsertMessage, TouchMembers, PushNew, NotifyOthers, WriteEdit, WriteDelete, PushEdit,
                  PushDeleted, FindPage, ListCounts, ReadMessage, WriteSeen, JoinRoom, rows, At
    <2>2. ~At(s, "create", "touch")'
      BY <1>3, WorksFacts DEF Follows, At, Idle
    <2> QED
      BY <2>1, <2>2
  <1>4. CASE \E c \in Socket : Connect(c) \/ Disconnect(c) \/ LeaveRoom(c) \/ Receive(c)
    <2>1. UNCHANGED <<h, member, last>>
      BY <1>4 DEF Connect, Disconnect, LeaveRoom, Receive, rows
    <2> QED
      BY <1>1, <2>1 DEF Touching, At
  <1>5. ASSUME NEW s \in Slot, Opens(s) \/ Continue(s)
        PROVE  Touching' = Touching /\ \A t \in Touching : h'[t].id = h[t].id
    <2>1. \A t \in Slot : t # s => h'[t] = h[t]
      BY <1>5, OpensFacts, WorksFacts DEF Stays
    <2>2. ~At(s, "create", "touch") /\ ~At(s, "create", "touch")'
      BY <1>2, <1>3, <1>5
    <2> QED
      BY <2>1, <2>2 DEF Touching, At
  <1> QED
    BY <1>1, <1>2, <1>3, <1>4, <1>5, NextCases DEF Moves

LEMMA NewestInit == HistoryInit => NewestInv
  <1> SUFFICES ASSUME HistoryInit PROVE NewestInv
    OBVIOUS
  <1>1. Touching = {} /\ Len(msgs) = 0 /\ \A u \in User : last[u] = 0
    BY DEF HistoryInit, Init, Touching, At, Idle
  <1>2. member = User
    BY DEF HistoryInit, Init
  <1> QED
    BY <1>1, <1>2, FS_EmptySet DEF NewestInv, Newest

LEMMA NewestStep ==
    ASSUME BaseInv, NewestInv, HistoryNext
    PROVE  NewestInv'
  <1>1. Next /\ Remember
    BY NextOfRun
  <1>2. /\ TypeOK /\ Len(msgs) \in Nat /\ Len(msgs') \in Nat /\ IsFiniteSet(Touching)
        /\ crossed => crossed'
        /\ Cardinality(Touching') > 1 => crossed'
        /\ faults' # faults /\ Touching' # Touching => crossed'
        /\ fresh' = (IF last' # last /\ member' = member THEN {} ELSE fresh) \cup (member' \ member)
    BY <1>1, BaseStep DEF Remember, BaseInv, TypeOK, NewestInv
  <1>3. IsFiniteSet(Touching')
    <2>1. ASSUME NEW s \in Slot, Opens(s) \/ Continue(s) \/ Fail(s)
          PROVE  Touching' \subseteq Touching \cup {s}
      BY <2>1, OpensFacts, WorksFacts DEF Stays, Touching, At
    <2>2. CASE Moves \/ \E c \in Socket : Receive(c)
      <3>1. UNCHANGED h
        BY <2>2 DEF Moves, Connect, Disconnect, LeaveRoom, RemoveMember, AddMember, Receive
      <3> QED
        BY <1>2, <3>1 DEF Touching, At
    <2>3. \A s \in Slot : IsFiniteSet(Touching \cup {s})
      BY <1>2, FS_AddElement
    <2> QED
      BY <1>1, <2>1, <2>2, <2>3, NextCases, FS_Subset
  <1> SUFFICES ASSUME ~crossed' PROVE Newest'
    BY <1>3 DEF NewestInv
  <1>4. Newest
    BY <1>2 DEF NewestInv
  <1>5. \A s, t \in Touching' : s = t
    BY <1>2, <1>3, AtMostOne
  <1>6. ASSUME NEW s \in Slot, InsertMessage(s) PROVE Newest'
    <2>1. Touching' = Touching \cup {s} /\ h'[s].id = Len(msgs')
      BY <1>6, InsertFacts DEF Touching, At, Stays
    <2> QED
      BY <1>5, <2>1 DEF Newest
  <1>7. ASSUME NEW s \in Slot, TouchMembers(s) PROVE Newest'
    <2>1. s \in Touching
      BY <1>7 DEF TouchMembers, Touching
    <2>2. s \notin Touching' /\ \A t \in Slot : t # s => h'[t] = h[t]
      <3>1. Continue(s)
        BY <1>7 DEF Continue
      <3>2. ~InsertMessage(s)
        BY <1>7 DEF InsertMessage, TouchMembers, At
      <3> QED
        BY <3>1, <3>2, WorksFacts DEF Stays, Follows, Touching, At, Idle
    <2>3. Touching' = {}
      BY <1>4, <2>1, <2>2 DEF Newest, Touching, At
    <2>4. /\ h[s].id = Len(msgs) /\ msgs' = msgs /\ member' = member
          /\ last' = [u \in User |-> IF u \in member THEN Len(msgs) ELSE last[u]]
      BY <1>4, <1>7, <2>1 DEF Newest, TouchMembers
    <2>5. \A u \in member : last'[u] = Len(msgs)
      BY <1>2, <2>4 DEF TypeOK
    <2> QED
      BY <2>3, <2>4, <2>5 DEF Newest
  <1>8. ASSUME NEW s \in Slot, Fail(s) PROVE Newest'
    <2>1. faults' # faults /\ UNCHANGED <<msgs, member, last>>
      BY <1>2, <1>8 DEF Fail, rows, TypeOK
    <2>2. Touching' = Touching
      BY <1>2, <2>1
    <2>3. s \notin Touching'
      <3>1. ~InsertMessage(s)
        BY <2>1, <1>8, InsertFacts
      <3> QED
        BY <3>1, <1>8, WorksFacts DEF Follows, Touching, At, Idle
    <2>4. \A t \in Touching : h'[t].id = h[t].id
      BY <2>2, <2>3, <1>8, WorksFacts DEF Stays, Touching
    <2> QED
      BY <1>2, <1>4, <1>5, <2>1, <2>2, <2>4 DEF Newest
  <1>9. ASSUME NEW u \in User, RemoveMember(u) PROVE Newest'
    <2>1. /\ UNCHANGED <<msgs, h>> /\ member' = member \ {u} /\ u \in member
          /\ \A v \in User : v # u => last'[v] = last[v]
      BY <1>2, <1>9 DEF RemoveMember, TypeOK
    <2>2. Touching' = Touching /\ fresh' = fresh
      BY <1>2, <2>1 DEF Touching, At
    <2> QED
      BY <1>2, <1>4, <2>1, <2>2 DEF Newest, TypeOK
  <1>10. ASSUME NEW u \in User, AddMember(u) PROVE Newest'
    <2>1. UNCHANGED <<msgs, h, last>> /\ member' = member \cup {u} /\ u \notin member
      BY <1>10 DEF AddMember
    <2>2. Touching' = Touching /\ fresh' = fresh \cup {u}
      BY <1>2, <2>1 DEF Touching, At
    <2> QED
      BY <1>2, <1>4, <2>1, <2>2 DEF Newest
  <1>11. CASE /\ \A s \in Slot : ~InsertMessage(s) /\ ~TouchMembers(s) /\ ~Fail(s)
              /\ \A u \in User : ~RemoveMember(u) /\ ~AddMember(u)
    <2>1. /\ Touching' = Touching /\ \A s \in Touching : h'[s].id = h[s].id
          /\ Len(msgs') = Len(msgs) /\ UNCHANGED <<member, last>>
      BY <1>1, <1>11, OtherStepTouches
    <2>2. fresh' = fresh
      BY <1>2, <2>1
    <2> QED
      BY <1>4, <2>1, <2>2 DEF Newest
  <1> QED
    BY <1>6, <1>7, <1>8, <1>9, <1>10, <1>11

(* create: the transaction that follows the insert leaves the newest message   *)
(* in every row of a member, as long as no two creates cross there and none     *)
(* fails there.                                                                *)
THEOREM PreviewIsNewest == HistorySpec => []LastIsNewestInTurn
  <1>1. HistoryInit => BaseInv /\ NewestInv
    BY BaseInit, NewestInit DEF HistoryInit
  <1>2. BaseInv /\ NewestInv /\ [HistoryNext]_historyVars => (BaseInv /\ NewestInv)'
    <2>1. UNCHANGED historyVars /\ NewestInv => NewestInv'
      BY DEF historyVars, vars, rows, history, NewestInv, Newest, Touching, At
    <2>2. UNCHANGED historyVars => UNCHANGED vars
      BY DEF historyVars
    <2> QED
      BY <2>1, <2>2, NextOfRun, BaseStep, NewestStep
  <1>3. BaseInv /\ NewestInv => LastIsNewestInTurn
    BY DEF NewestInv, Newest, LastIsNewestInTurn
  <1> QED
    BY <1>1, <1>2, <1>3, PTL DEF HistorySpec

-----------------------------------------------------------------------------
(* The read cursor.  Until receipts of a user overlap he has one at most; what *)
(* he acknowledged is no later than his row, than what his receipt has read of *)
(* it, and than the message it is about to write.                              *)
AtOf(i) == IF i = 0 THEN 0 ELSE msgs[i].at

Fits(s, u) ==
    /\ h[s].pc = "message" => acked[u] <= AtOf(h[s].cur)
    /\ h[s].pc = "write" => acked[u] <= AtOf(h[s].id)

Forward(u) ==
    /\ \A s, t \in Reading(u) : s = t
    /\ acked[u] <= AtOf(seen[u])
    /\ \A s \in Reading(u) : Fits(s, u)

ReadInv ==
    /\ acked \in [User -> Nat]
    /\ \A u \in User : IsFiniteSet(Reading(u)) /\ (u \notin member => acked[u] = 0)
    /\ \A u \in User \ raced : Forward(u)

(* A receipt is as it was, or goes on to its write, or has just read the row.  *)
LEMMA ReaderSteps ==
    ASSUME BaseInv, Next, NEW s \in Slot, h'[s].op = "read"
    PROVE  \/ h'[s] = h[s]
           \/ /\ ReadMessage(s) /\ h[s].op = "read" /\ h'[s].pc = "write"
              /\ h'[s].user = h[s].user /\ h'[s].id = h[s].id
           \/ /\ h'[s].pc = "message" /\ h'[s].user \in member /\ h'[s].cur = seen[h'[s].user]
              /\ UNCHANGED rows
  <1>1. CASE Opens(s)
    BY <1>1, OpensFacts
  <1>2. CASE Continue(s) \/ Fail(s)
    <2>1. h[s].op = "read" /\ h'[s].user = h[s].user /\ (~InsertMessage(s) => h'[s].id = h[s].id)
      BY <1>2, WorksFacts DEF Follows, Idle
    <2>2. ~InsertMessage(s)
      BY <2>1 DEF InsertMessage, At
    <2>3. ReadMessage(s) \/ WriteSeen(s) \/ Fail(s)
      BY <1>2, <2>1 DEF Continue, InsertMessage, TouchMembers, PushNew, NotifyOthers, WriteEdit, WriteDelete,
                        PushEdit, PushDeleted, FindPage, ListCounts, JoinRoom, At
    <2>4. (Return(s) \/ Throw(s)) => h'[s] = Idle
      BY <2>1, FreeFacts DEF Return, Throw, BaseInv
    <2>5. ReadMessage(s) /\ Goto(s, "write")
      BY <2>3, <2>4 DEF ReadMessage, WriteSeen, Fail, Idle
    <2>6. h'[s].pc = "write"
      <3>1. h[s] \in Handler /\ h' = [h EXCEPT ![s].pc = "write"]
        BY <1>2, <2>5, WorksFacts DEF Goto
      <3> QED
        BY <3>1 DEF BaseInv, TypeOK, Handler
    <2> QED
      BY <2>1, <2>2, <2>5, <2>6
  <1>3. ASSUME NEW t \in Slot, Opens(t) \/ Continue(t) \/ Fail(t), t # s
        PROVE  h'[s] = h[s]
    BY <1>3, OpensFacts, WorksFacts DEF Stays
  <1>4. Moves \/ (\E c \in Socket : Receive(c)) => UNCHANGED h
    BY DEF Moves, Connect, Disconnect, LeaveRoom, RemoveMember, AddMember, Receive
  <1> QED
    BY <1>1, <1>2, <1>3, <1>4, NextCases

(* Only the write of a receipt and the end of a membership change the cursor. *)
LEMMA SeenSteps ==
    ASSUME BaseInv, Next, NEW u \in User
    PROVE  \/ seen'[u] = seen[u]
           \/ seen'[u] = 0 /\ u \notin member'
           \/ \E s \in Slot : /\ WriteSeen(s) /\ h[s].user = u /\ u \in member'
                              /\ seen'[u] = h[s].id /\ h'[s] = Idle
  <1>1. TypeOK
    BY DEF BaseInv
  <1>2. ASSUME NEW s \in Slot, WriteSeen(s), seen'[u] # seen[u]
        PROVE  h[s].user = u /\ u \in member' /\ seen'[u] = h[s].id /\ h'[s] = Idle
    <2>1. h[s].op = "read" /\ member' = member /\ Return(s)
      BY <1>2 DEF WriteSeen, At
    <2>2. h'[s] = Idle
      BY <1>1, <2>1, FreeFacts DEF Return
    <2> QED
      BY <1>1, <1>2, <2>1, <2>2 DEF WriteSeen, TypeOK
  <1>3. ASSUME NEW v \in User, RemoveMember(v) PROVE seen'[u] = seen[u] \/ (seen'[u] = 0 /\ u \notin member')
    BY <1>1, <1>3 DEF RemoveMember, TypeOK
  <1>4. ASSUME NEW s \in Slot, Opens(s) \/ Fail(s) PROVE seen' = seen
    BY <1>4, OpensFacts DEF Fail, rows
  <1>5. ASSUME NEW s \in Slot, Continue(s), ~WriteSeen(s) PROVE seen' = seen
    BY <1>5 DEF Continue, InsertMessage, TouchMembers, PushNew, NotifyOthers, WriteEdit, WriteDelete, PushEdit,
                PushDeleted, FindPage, ListCounts, ReadMessage, JoinRoom, rows
  <1>6. ASSUME NEW v \in User, AddMember(v) PROVE seen' = seen
    BY <1>6 DEF AddMember
  <1>7. ASSUME NEW c \in Socket, Connect(c) \/ Disconnect(c) \/ LeaveRoom(c) \/ Receive(c) PROVE seen' = seen
    BY <1>7 DEF Connect, Disconnect, LeaveRoom, Receive, rows
  <1> QED
    BY <1>2, <1>3, <1>4, <1>5, <1>6, <1>7, NextCases DEF Moves

LEMMA ReadersFinite ==
    ASSUME BaseInv, Next, NEW u \in User, IsFiniteSet(Reading(u))
    PROVE  IsFiniteSet(Reading(u)')
  <1>1. ASSUME NEW s \in Slot, Opens(s) \/ Continue(s) \/ Fail(s)
        PROVE  Reading(u)' \subseteq Reading(u) \cup {s}
    BY <1>1, OpensFacts, WorksFacts DEF Stays, Reading
  <1>2. CASE Moves \/ \E c \in Socket : Receive(c)
    <2>1. UNCHANGED h
      BY <1>2 DEF Moves, Connect, Disconnect, LeaveRoom, RemoveMember, AddMember, Receive
    <2> QED
      BY <2>1 DEF Reading
  <1>3. \A s \in Slot : IsFiniteSet(Reading(u) \cup {s})
    BY FS_AddElement
  <1> QED
    BY <1>1, <1>2, <1>3, NextCases, FS_Subset

LEMMA ReadInit == HistoryInit => ReadInv
  <1> SUFFICES ASSUME HistoryInit PROVE ReadInv
    OBVIOUS
  <1>1. /\ acked = [u \in User |-> 0] /\ seen = [u \in User |-> 0]
        /\ \A u \in User : Reading(u) = {}
    BY DEF HistoryInit, Init, Reading, Idle
  <1> QED
    BY <1>1, FS_EmptySet DEF ReadInv, Forward, AtOf

(* What the history remembers of a user. *)
LEMMA AckedFacts ==
    ASSUME BaseInv, ReadInv, Next, Remember
    PROVE  /\ acked' \in [User -> Nat]
           /\ \A u \in User :
                 /\ u \notin member' => acked'[u] = 0
                 /\ seen'[u] \in {0, seen[u]} => acked'[u] \in {0, acked[u]}
                 /\ acked'[u] \in {0, acked[u], msgs[seen'[u]].at}
                 /\ u \notin raced' => u \notin raced /\ ~(Cardinality(Reading(u)') > 1)
  <1> DEFINE newer(v) == msgs[seen'[v]].at
             to(v) == IF v \notin member' THEN 0
                      ELSE IF seen'[v] \in {0, seen[v]} THEN acked[v]
                      ELSE IF newer(v) > acked[v] THEN newer(v) ELSE acked[v]
  <1>1. acked' = [v \in User |-> to(v)]
    BY DEF Remember
  <1>2. \A v \in User : seen'[v] # 0 => newer(v) \in Nat
    <2>1. ASSUME NEW v \in User, seen'[v] # 0 PROVE msgs[seen'[v]] \in Row
      BY <2>1, MembersType DEF BaseInv, TypeOK
    <2> QED
      BY <2>1 DEF Row
  <1>3. \A v \in User : acked[v] \in Nat
    BY DEF ReadInv
  <1> HIDE DEF newer
  <1>4. \A v \in User : to(v) \in Nat
    BY <1>2, <1>3
  <1>5. \A u \in User : /\ u \notin member' => to(u) = 0
                        /\ seen'[u] \in {0, seen[u]} => to(u) \in {0, acked[u]}
                        /\ to(u) \in {0, acked[u], newer(u)}
    OBVIOUS
  <1>6. \A u \in User : u \notin raced' => u \notin raced /\ ~(Cardinality(Reading(u)') > 1)
    BY DEF Remember
  <1>7. (\A u \in User : acked'[u] = to(u)) /\ acked' \in [User -> Nat]
    BY <1>1, <1>4
  <1> HIDE DEF to
  <1> QED
    BY <1>5, <1>6, <1>7 DEF newer

LEMMA ReadStep ==
    ASSUME BaseInv, ReadInv, HistoryNext
    PROVE  ReadInv'
  <1>1. Next /\ Remember /\ TypeOK
    BY NextOfRun DEF BaseInv
  <1>2. \A i \in 0..Len(msgs) : i # 0 => msgs'[i].at = msgs[i].at /\ msgs[i].at \in Nat
    <2>1. \A i \in Id : msgs'[i].at = msgs[i].at
      BY <1>1, MessagesGrow DEF Grows
    <2>2. \A i \in Id : msgs[i] \in Row
      BY <1>1 DEF TypeOK, Id
    <2>3. \A i \in 0..Len(msgs) : i = 0 \/ i \in Id
      BY <1>1 DEF Id, TypeOK
    <2> QED
      BY <2>1, <2>2, <2>3 DEF Row
  <1>3. \A u \in User : IsFiniteSet(Reading(u)')
    BY <1>1, ReadersFinite DEF ReadInv
  <1>4. acked' \in [User -> Nat] /\ \A u \in User : u \notin member' => acked'[u] = 0
    BY <1>1, AckedFacts
  <1> SUFFICES ASSUME NEW u \in User, u \notin raced' PROVE Forward(u)'
    BY <1>3, <1>4 DEF ReadInv
  <1>5. /\ Forward(u) /\ acked[u] \in Nat /\ acked'[u] \in Nat
        /\ \A s, t \in Reading(u)' : s = t
    BY <1>1, <1>3, AckedFacts, AtMostOne DEF ReadInv
  <1>6. /\ seen[u] \in 0..Len(msgs) /\ seen'[u] \in 0..Len(msgs)
        /\ \A s \in Slot : Names(h[s], Len(msgs))
    BY <1>1, MembersType DEF BaseInv, NamesStored
  <1>7. ASSUME acked'[u] <= acked[u], acked'[u] <= AtOf(seen'[u])
        PROVE  Forward(u)'
    <2>1. acked'[u] <= AtOf(seen[u])'
      BY <1>2, <1>6, <1>7 DEF AtOf
    <2>2. ASSUME NEW s \in Reading(u)' PROVE Fits(s, u)'
      <3>1. s \in Slot /\ h'[s].op = "read" /\ h'[s].user = u
        BY DEF Reading
      <3>2. CASE h'[s] = h[s]
        <4>1. Fits(s, u) /\ h[s].op = "read"
          BY <1>5, <3>1, <3>2 DEF Forward, Reading
        <4>2. h[s].cur \in 0..Len(msgs) /\ h[s].id \in 0..Len(msgs)
          BY <1>1, <1>6, <3>1, <4>1 DEF Names, TypeOK
        <4>3. /\ AtOf(h[s].cur)' = AtOf(h[s].cur) /\ AtOf(h[s].cur) \in Nat
              /\ AtOf(h[s].id)' = AtOf(h[s].id) /\ AtOf(h[s].id) \in Nat
          BY <1>2, <3>2, <4>2 DEF AtOf
        <4> QED
          BY <1>5, <1>7, <3>2, <4>1, <4>3 DEF Fits
      <3>3. CASE /\ ReadMessage(s) /\ h[s].op = "read" /\ h'[s].pc = "write"
                 /\ h'[s].user = h[s].user /\ h'[s].id = h[s].id
        <4>1. Fits(s, u) /\ h[s].pc = "message"
          BY <1>5, <3>1, <3>3 DEF Forward, Reading, ReadMessage, At
        <4>2. h[s].cur \in 0..Len(msgs) /\ h[s].id \in 1..Len(msgs)
          BY <1>1, <1>6, <3>1, <3>3 DEF Names, TypeOK
        <4>3. h[s].cur # 0 => msgs[h[s].cur].at < msgs[h[s].id].at
          <5>1. CASE Return(s)
            <6>1. h'[s] = Idle
              BY <1>1, <3>1, <3>3, <5>1, FreeFacts DEF Return
            <6> QED
              BY <3>1, <6>1 DEF Idle
          <5>2. CASE ~Return(s)
            BY <3>3, <5>2 DEF ReadMessage
          <5> QED
            BY <5>1, <5>2
        <4>4. /\ AtOf(h[s].id)' = AtOf(h[s].id) /\ AtOf(h[s].id) \in Nat /\ AtOf(h[s].cur) \in Nat
          BY <1>2, <3>3, <4>2 DEF AtOf
        <4>5. acked[u] <= AtOf(h[s].cur) /\ AtOf(h[s].cur) <= AtOf(h[s].id)
          BY <4>1, <4>2, <4>3, <4>4 DEF Fits, AtOf
        <4> QED
          BY <1>5, <1>7, <3>3, <4>4, <4>5 DEF Fits
      <3>4. CASE /\ h'[s].pc = "message" /\ h'[s].user \in member /\ h'[s].cur = seen[h'[s].user]
                 /\ UNCHANGED rows
        <4>1. seen'[u] = seen[u] /\ h'[s].cur = seen'[u] /\ msgs' = msgs
          BY <3>1, <3>4 DEF rows
        <4> QED
          BY <2>1, <3>4, <4>1 DEF Fits, AtOf
      <3> QED
        BY <1>1, <3>1, <3>2, <3>3, <3>4, ReaderSteps
    <2> QED
      BY <1>5, <2>1, <2>2 DEF Forward
  <1>8. CASE seen'[u] = seen[u] \/ (seen'[u] = 0 /\ u \notin member')
    <2>1. acked'[u] \in {0, acked[u]} /\ (u \notin member' => acked'[u] = 0)
      BY <1>1, <1>8, AckedFacts
    <2>2. acked[u] <= AtOf(seen[u]) /\ AtOf(seen[u]) \in Nat /\ AtOf(seen'[u]) \in Nat
      BY <1>2, <1>5, <1>6 DEF Forward, AtOf
    <2>3. acked'[u] <= acked[u] /\ acked'[u] <= AtOf(seen'[u])
      BY <1>5, <1>8, <2>1, <2>2
    <2> QED
      BY <1>7, <2>3
  <1>9. ASSUME NEW s \in Slot, WriteSeen(s), h[s].user = u, u \in member', seen'[u] = h[s].id, h'[s] = Idle
        PROVE  Forward(u)'
    <2>1. s \in Reading(u) /\ h[s].pc = "write" /\ h[s].id \in 1..Len(msgs) /\ msgs' = msgs
      BY <1>6, <1>9 DEF Reading, WriteSeen, At, Names
    <2>2. acked[u] <= msgs[h[s].id].at
      BY <1>5, <2>1 DEF Forward, Fits, AtOf
    <2>3. acked'[u] <= msgs[h[s].id].at
      BY <1>1, <1>2, <1>9, <2>1, <2>2, AckedFacts
    <2>4. acked'[u] <= AtOf(seen[u])'
      BY <1>9, <2>1, <2>3 DEF AtOf
    <2>5. Reading(u)' = {}
      <3>1. \A t \in Slot : t # s => h'[t] = h[t]
        BY <1>9, WorksFacts DEF Continue, Stays
      <3>2. \A t \in Reading(u) : t = s
        BY <1>5, <2>1 DEF Forward
      <3> QED
        BY <1>9, <3>1, <3>2 DEF Reading, Idle
    <2> QED
      BY <2>4, <2>5 DEF Forward
  <1> QED
    BY <1>1, <1>8, <1>9, SeenSteps

(* message:read: what a member acknowledged stays read, whatever other handlers *)
(* do and however often he leaves and comes back, until two of his own receipts *)
(* are handled at once.                                                         *)
THEOREM ReadIsFinal == HistorySpec => []ReadStaysReadInTurn
  <1>1. HistoryInit => BaseInv /\ ReadInv
    BY BaseInit, ReadInit DEF HistoryInit
  <1>2. BaseInv /\ ReadInv /\ [HistoryNext]_historyVars => (BaseInv /\ ReadInv)'
    <2>1. UNCHANGED historyVars /\ ReadInv => ReadInv'
      BY DEF historyVars, vars, rows, history, ReadInv, Forward, Fits, AtOf, Reading
    <2>2. UNCHANGED historyVars => UNCHANGED vars
      BY DEF historyVars
    <2> QED
      BY <2>1, <2>2, NextOfRun, BaseStep, ReadStep
  <1>3. BaseInv /\ ReadInv => ReadStaysReadInTurn
    <2> SUFFICES ASSUME BaseInv, ReadInv, NEW u \in member \ raced, NEW i \in UnreadAfter(u, seen[u])
                 PROVE  msgs[i].at > acked[u]
      BY DEF ReadStaysReadInTurn
    <2>1. u \in User /\ i \in Id /\ seen[u] \in 0..Len(msgs) /\ msgs \in Seq(Row)
      BY DEF BaseInv, TypeOK, NamesStored, UnreadAfter, Live
    <2>2. acked[u] \in Nat /\ acked[u] <= AtOf(seen[u])
      BY <2>1 DEF ReadInv, Forward
    <2>3. msgs[i].at \in Nat \ {0}
      <3>1. msgs[i] \in Row
        BY <2>1 DEF Id
      <3> QED
        BY <3>1 DEF Row
    <2>4. seen[u] # 0 => msgs[i].at > msgs[seen[u]].at /\ msgs[seen[u]].at \in Nat
      <3>1. seen[u] # 0 => msgs[seen[u]] \in Row
        BY <2>1
      <3> QED
        BY <3>1 DEF UnreadAfter, Row
    <2> QED
      BY <2>2, <2>3, <2>4 DEF AtOf
  <1> QED
    BY <1>1, <1>2, <1>3, PTL DEF HistorySpec

-----------------------------------------------------------------------------
(* The pushes.  Between the push of a message to the room and its notification *)
(* to those outside, whoever is in the room was pushed it or has joined since. *)
ToldInv == \A s \in Notifying, c \in room : <<c, h[s].id>> \in told \cup late

(* A handler between the two is where it was, or has just pushed. *)
LEMMA NotifyingSteps ==
    ASSUME BaseInv, Next, NEW s \in Notifying'
    PROVE  /\ h'[s].id = h[s].id
           /\ s \notin Notifying => PushNew(s)
  <1>1. s \in Slot /\ h'[s].op = "create" /\ h'[s].pc = "notify"
    BY DEF Notifying, At
  <1>2. CASE h'[s] = h[s]
    BY <1>1, <1>2 DEF Notifying, At
  <1>3. CASE Continue(s) \/ Fail(s)
    <2>1. PushNew(s) /\ (h'[s].id = h[s].id \/ InsertMessage(s))
      BY <1>1, <1>3, WorksFacts DEF Follows, Idle
    <2>2. ~InsertMessage(s)
      BY <2>1 DEF PushNew, InsertMessage, At
    <2> QED
      BY <2>1, <2>2
  <1>4. ~Opens(s)
    BY <1>1, OpensFacts
  <1>5. ASSUME NEW t \in Slot, Opens(t) \/ Continue(t) \/ Fail(t), t # s
        PROVE  h'[s] = h[s]
    BY <1>1, <1>5, OpensFacts, WorksFacts DEF Stays
  <1>6. Moves \/ (\E c \in Socket : Receive(c)) => UNCHANGED h
    BY DEF Moves, Connect, Disconnect, LeaveRoom, RemoveMember, AddMember, Receive
  <1> QED
    BY <1>2, <1>3, <1>4, <1>5, <1>6, NextCases

LEMMA ToldStep ==
    ASSUME BaseInv, ToldInv, HistoryNext
    PROVE  ToldInv'
  <1>1. Next /\ Remember /\ TypeOK
    BY NextOfRun DEF BaseInv
  <1> SUFFICES ASSUME NEW s \in Notifying', NEW c \in room'
               PROVE  <<c, h'[s].id>> \in told' \cup late'
    BY DEF ToldInv
  <1>2. h'[s].id = h[s].id
    BY <1>1, NotifyingSteps
  <1>3. /\ told' = {<<d, h[t].id>> : d \in {e \in Socket : Len(wire'[e]) > Len(wire[e])},
                                     t \in Notifying' \ Notifying}
                   \cup {p \in told : \E t \in Notifying' : h[t].id = p[2]}
        /\ late' = {<<d, h[t].id>> : d \in room' \ room, t \in Notifying}
                   \cup {p \in late : \E t \in Notifying' : h[t].id = p[2]}
    BY <1>1 DEF Remember
  <1>4. CASE s \in Notifying /\ c \in room
    <2>1. <<c, h[s].id>> \in told \cup late /\ <<c, h[s].id>>[2] = h[s].id
      BY <1>4 DEF ToldInv
    <2> QED
      BY <1>2, <1>3, <2>1
  <1>5. CASE s \in Notifying /\ c \notin room
    BY <1>2, <1>3, <1>5
  <1>6. CASE s \notin Notifying
    <2>1. PushNew(s)
      BY <1>1, <1>6, NotifyingSteps
    <2> DEFINE e == [kind |-> "new", id |-> h[s].id, text |-> msgs[h[s].id].text]
    <2>2. /\ room' = room
          /\ wire' = [d \in Socket |-> IF d \in room THEN Append(wire[d], e) ELSE wire[d]]
      BY <2>1 DEF PushNew, Emit
    <2> HIDE DEF e
    <2>3. c \in Socket /\ wire[c] \in Seq(PushedEvent) /\ wire'[c] = Append(wire[c], e)
      BY <1>1, <2>2 DEF TypeOK
    <2>4. Len(wire'[c]) > Len(wire[c])
      BY <2>3
    <2> QED
      BY <1>2, <1>3, <1>6, <2>3, <2>4
  <1> QED
    BY <1>4, <1>5, <1>6

(* create, toRoom and toRoomIfNotIn: when the last push of a message is out,    *)
(* every connected socket of every other member has been sent it on one of the *)
(* two ways, or joined the room between them.                                  *)
THEOREM NobodyLeftUntold == HistorySpec => EveryoneTold
  <1> DEFINE Sent(s) == \A c \in online : Owner[c] \in member \ {h[s].user} =>
                            \/ <<c, h[s].id>> \in told \cup late
                            \/ wire'[c] # <<>> /\ wire'[c][1].id = h[s].id
  <1>1. HistoryInit => BaseInv /\ ToldInv
    BY BaseInit DEF HistoryInit, Init, ToldInv
  <1>2. BaseInv /\ ToldInv /\ [HistoryNext]_historyVars => (BaseInv /\ ToldInv)'
    <2>1. UNCHANGED historyVars /\ ToldInv => ToldInv'
      BY DEF historyVars, vars, sockets, history, ToldInv, Notifying, At
    <2>2. UNCHANGED historyVars => UNCHANGED vars
      BY DEF historyVars
    <2> QED
      BY <2>1, <2>2, NextOfRun, BaseStep, ToldStep
  <1>3. BaseInv /\ ToldInv /\ [HistoryNext]_historyVars
        => [\A s \in Notifying \ Notifying' : faults' = faults => Sent(s)]_historyVars
    <2> SUFFICES ASSUME BaseInv, ToldInv, HistoryNext, NEW s \in Notifying \ Notifying', faults' = faults,
                        NEW c \in online, Owner[c] \in member \ {h[s].user}, c \notin room
                 PROVE  wire'[c] # <<>> /\ wire'[c][1].id = h[s].id
      BY DEF ToldInv
    <2>1. s \in Slot /\ h[s].op = "create" /\ h[s].pc = "notify" /\ c \in Socket
      BY DEF Notifying, At, BaseInv, TypeOK
    <2>2. h'[s] # h[s]
      BY DEF Notifying, At
    <2>3. ~(Moves \/ \E d \in Socket : Receive(d))
      BY <2>2 DEF Moves, Connect, Disconnect, LeaveRoom, RemoveMember, AddMember, Receive
    <2>4. Next /\ wire[c] = <<>>
      BY <2>1, <2>3 DEF HistoryNext
    <2>5. Continue(s)
      <3>1. ASSUME NEW t \in Slot, Opens(t) \/ Continue(t) \/ Fail(t) PROVE t = s
        BY <2>1, <2>2, <3>1, OpensFacts, WorksFacts DEF Stays
      <3>2. ~Opens(s)
        BY <2>1, OpensFacts DEF Idle
      <3>3. ~Fail(s)
        BY DEF Fail, BaseInv, TypeOK
      <3> QED
        BY <2>3, <2>4, <3>1, <3>2, <3>3, NextCases
    <2>6. NotifyOthers(s)
      BY <2>1, <2>5 DEF Continue, InsertMessage, TouchMembers, PushNew, WriteEdit, WriteDelete, PushEdit,
                        PushDeleted, FindPage, ListCounts, ReadMessage, WriteSeen, JoinRoom, At
    <2> DEFINE e == [kind |-> "notify", id |-> h[s].id, text |-> msgs[h[s].id].text]
    <2>7. wire'[c] = Append(wire[c], e)
      BY <2>1, <2>6 DEF NotifyOthers, Emit
    <2>8. wire'[c] = <<e>>
      BY <2>4, <2>7
    <2> QED
      BY <2>8
  <1> QED
    BY <1>1, <1>2, <1>3, PTL DEF HistorySpec, EveryoneTold

-----------------------------------------------------------------------------
(* What a client shows.  Until a second page is asked for before the first has *)
(* come, or a push and a page meet: a page that is fetched begins where the    *)
(* list ends, and while more is to be had, whatever is new is on this side of  *)
(* the cursor.                                                                 *)
Entry == [id : Nat, text : Nat]

ClientOK ==
    /\ list \in Seq(Entry) /\ \A i \in DOMAIN list : list[i].id \in Id
    /\ more \in BOOLEAN /\ cursor \in Nat
    /\ up \in Seq([kind : {"join", "read"}, id : Nat])
    /\ \A i \in DOMAIN up : up[i].kind = "read" => up[i].id \in Id
    /\ \A i \in DOMAIN wire[Me] : wire[Me][i].id \in Id
    /\ \A s \in Slot : \A i \in DOMAIN h[s].items : h[s].items[i].id \in Id

InOrder == \A i, j \in Id : i <= j => msgs[i].at <= msgs[j].at

OneUnseen == \A s, t \in Unseen : s = t

Distinct(q) == \A i, j \in DOMAIN q : q[i].id = q[j].id => i = j
Disjoint(p, q) == \A i \in DOMAIN p, j \in DOMAIN q : p[i].id # q[j].id
NotBefore(q, t) == \A i \in DOMAIN q : t <= msgs[q[i].id].at
Reached(t) == t # 0 /\ \E i \in Id : t = msgs[i].at

FetchOK(s) ==
    /\ h[s].pc = "find" => IF h[s].next = 0 THEN list = <<>> ELSE NotBefore(list, h[s].next)
    /\ h[s].pc = "answered" =>
         /\ Distinct(h[s].items) /\ Disjoint(list, h[s].items)
         /\ h[s].more => /\ Reached(h[s].next)
                         /\ NotBefore(list, h[s].next) /\ NotBefore(h[s].items, h[s].next)

(* A create whose message this client may still be told of. *)
Pending(s) == h[s].op = "create" /\ h[s].pc \in {"touch", "push", "notify", "answered"}

CursorOK ==
    more => /\ Reached(cursor) /\ NotBefore(list, cursor)
            /\ \A s \in Slot : Pending(s) => cursor <= msgs[h[s].id].at
            /\ \A i \in DOMAIN wire[Me] : wire[Me][i].kind = "new" => cursor <= msgs[wire[Me][i].id].at

Once ==
    /\ Distinct(list) /\ CursorOK
    /\ \A s, t \in Fetches : s = t
    /\ \A s \in Fetches : FetchOK(s)
    /\ Fetches # {} => ~OnItsWay

Orderly == BaseInv /\ ClientOK /\ InOrder /\ OneUnseen /\ IsFiniteSet(Fetches)
OnceInv == Orderly /\ ("once" \notin excused => Once)

-----------------------------------------------------------------------------
LEMMA ExcuseFacts ==
    ASSUME DesktopNext, "once" \notin excused'
    PROVE  /\ "once" \notin excused
           /\ ~(Cardinality(Fetches') > 1)
           /\ Fetches' # {} => ~OnItsWay'
  <1>1. excused' = excused \cup Excuses
    BY DEF DesktopNext
  <1>2. ~FetchTwice /\ ~PushMeetsPage
    BY <1>1 DEF Excuses
  <1>3. ~(Fetches # {} /\ OnItsWay)'
    BY <1>2 DEF PushMeetsPage
  <1> QED
    BY <1>1, <1>2, <1>3 DEF FetchTwice

(* The kinds of steps: a handler begins, one goes on, the client takes an answer *)
(* or an event, its socket connects or drops, or only the screen changes.        *)
Fetched(s) == \/ PageVerifies(s, me, Me, 0) /\ list = <<>>
              \/ PageVerifies(s, me, Me, cursor) /\ more
Asks(s) ==
    \E u \in User \ {me} :
       \/ CreateVerifies(s, u, NoSocket)
       \/ \E op \in {"edit", "delete"}, id \in Id : FindOwn(s, u, NoSocket, op, id)
Begins(s) ==
    \/ Asks(s) /\ UNCHANGED client
    \/ EventArrives(s) \/ OpenChats(s) \/ LoadOlder(s) \/ Send(s)
    \/ OpenThread(s) /\ Fetched(s)
Takes(s) == TakePage(s) \/ TakeList(s) \/ TakeSent(s) \/ TakeFailure(s)
Events == ReceiveNew \/ ReceiveUpdated \/ ReceiveDeleted \/ ReceiveNotification
Looks ==
    \/ UNCHANGED <<vars, list, more, cursor>> /\ \E s \in Slot : OpenThread(s)
    \/ OpenOther \/ OtherAnswers \/ CloseThread \/ LeaveChats

LEMMA RunCases ==
    ASSUME DesktopNext
    PROVE  \/ \E s \in Slot : (Continue(s) \/ Fail(s)) /\ UNCHANGED client /\ (Unseen = {} \/ s \in Unseen)
           \/ Unseen = {} /\ \E s \in Slot : Begins(s) \/ Takes(s)
           \/ Events
           \/ Unseen = {} /\ (Looks \/ SocketConnects \/ SocketDrops)
  <1>1. CASE ReceiveNotification
    BY <1>1 DEF Events
  <1>2. CASE \E s \in Unseen : (Continue(s) \/ Fail(s)) /\ UNCHANGED client
    BY <1>2 DEF Unseen
  <1>3. CASE Unseen = {} /\ ClientNext
    <2>1. ASSUME NEW s \in Slot, Server(s), UNCHANGED client
          PROVE  Continue(s) \/ Fail(s) \/ Begins(s)
      BY <2>1 DEF Server, Begins, Asks
    <2>2. ASSUME NEW s \in Slot, OpenThread(s)
          PROVE  Begins(s) \/ Looks
      <3>1. UNCHANGED <<list, more, cursor>>
        BY <2>2 DEF OpenThread
      <3>2. Fetched(s) \/ UNCHANGED vars
        BY <2>2 DEF OpenThread, Fetched
      <3> QED
        BY <2>2, <3>1, <3>2 DEF Begins, Looks
    <2> QED
      BY <1>3, <2>1, <2>2 DEF ClientNext, Begins, Takes, Events, Looks
  <1> QED
    BY <1>1, <1>2, <1>3 DEF DesktopNext

-----------------------------------------------------------------------------
LEMMA MeFacts ==
    Me \in Socket /\ me \in User /\ Me \in Socket \cup {NoSocket} /\ Me # NoSocket
  BY OwnerAssumption, MeAssumption, UserAssumption DEF me

LEMMA EmitsOK ==
    ASSUME TypeOK, up \in Seq([kind : {"join", "read"}, id : Nat]),
           \A i \in DOMAIN up : up[i].kind = "read" => up[i].id \in Id,
           NEW e \in [kind : {"join", "read"}, id : Nat], e.kind = "read" => e.id \in Id
    PROVE  /\ Append(up, e) \in Seq([kind : {"join", "read"}, id : Nat])
           /\ \A i \in DOMAIN Append(up, e) : Append(up, e)[i].kind = "read" => Append(up, e)[i].id \in Id
  OBVIOUS

(* What is emitted to the server names a message that is shown. *)
LEMMA MarkReadOK ==
    ASSUME TypeOK, ClientOK, NEW q \in Seq(Entry), \A i \in DOMAIN q : q[i].id \in Id,
           NEW a, NEW n, MarkRead(a, q, n)
    PROVE  /\ up' \in Seq([kind : {"join", "read"}, id : Nat])
           /\ \A i \in DOMAIN up' : up'[i].kind = "read" => up'[i].id \in Id
  <1>1. CASE up' = up
    BY <1>1 DEF ClientOK
  <1>2. CASE q # <<>> /\ up' = Append(up, [kind |-> "read", id |-> q[1].id])
    <2> DEFINE e == [kind |-> "read", id |-> q[1].id]
    <2>1. e \in [kind : {"join", "read"}, id : Nat] /\ e.kind = "read" /\ e.id \in Id
      BY <1>2 DEF Id
    <2> HIDE DEF e
    <2>2. up' = Append(up, e)
      BY <1>2 DEF e
    <2> QED
      BY <2>1, <2>2, EmitsOK DEF ClientOK
  <1> QED
    BY <1>1, <1>2 DEF MarkRead

LEMMA PageFacts ==
    ASSUME TypeOK, ClientOK, NEW s \in Slot, NEW n \in Nat, PageVerifies(s, me, Me, n)
    PROVE  /\ h[s] = Idle /\ Stays(s) /\ h' \in [Slot -> Handler \cup {Idle}] /\ h'[s] \in Handler
           /\ UNCHANGED <<rows, sockets, bounds>>
           /\ h'[s].items = <<>> /\ h'[s].pc = "find" /\ h'[s].op = "page" /\ h'[s].sock = Me
           /\ h'[s].next = n
  <1> DEFINE r == [Idle EXCEPT !.op = "page", !.pc = "find", !.user = me, !.sock = Me, !.next = n]
  <1>1. h' = [h EXCEPT ![s] = r]
    BY DEF PageVerifies
  <1>2. Idle \in [op : {"none"}, pc : {"idle"}, user : {NoUser}, sock : {NoSocket}, id : Nat, cur : Nat,
                  items : {<<>>}, more : BOOLEAN, next : Nat]
    BY DEF Idle
  <1>3. r \in Handler
    <2>1. <<>> \in Seq([id : Nat, text : Nat]) /\ "page" \in AllOps
      BY DEF AllOps
    <2> QED
      BY <1>2, <2>1, MeFacts DEF Handler
  <1>4. r.op = "page" /\ r.pc = "find" /\ r.sock = Me /\ r.items = <<>> /\ r.next = n
    BY <1>2
  <1> HIDE DEF r
  <1>5. h[s].pc = "idle" /\ UNCHANGED <<rows, sockets, bounds>>
    BY DEF PageVerifies, Admits
  <1> QED
    BY <1>1, <1>3, <1>4, <1>5, HandlerFacts DEF TypeOK, Stays

LEMMA ListFacts ==
    ASSUME TypeOK, NEW s \in Slot, Open(s, me, Me, "list", "count", 0, seen[me])
    PROVE  /\ Stays(s) /\ h' \in [Slot -> Handler \cup {Idle}] /\ h'[s] \in Handler
           /\ h'[s].op = "list" /\ h'[s].pc = "count" /\ h'[s].items = <<>>
  <1> DEFINE n == seen[me]
             r == [Idle EXCEPT !.op = "list", !.pc = "count", !.user = me, !.sock = Me, !.id = 0, !.cur = n]
  <1>1. n \in Nat
    BY MeFacts DEF TypeOK
  <1> HIDE DEF n
  <1>2. h' = [h EXCEPT ![s] = r]
    BY DEF Open, n
  <1>3. Idle \in [op : {"none"}, pc : {"idle"}, user : {NoUser}, sock : {NoSocket}, id : Nat, cur : Nat,
                  items : {<<>>}, more : BOOLEAN, next : Nat]
    BY DEF Idle
  <1>4. r \in Handler
    <2>1. <<>> \in Seq([id : Nat, text : Nat]) /\ "list" \in AllOps
      BY DEF AllOps
    <2> QED
      BY <1>1, <1>3, <2>1, MeFacts DEF Handler
  <1>5. r.op = "list" /\ r.pc = "count" /\ r.items = <<>>
    BY <1>3
  <1> HIDE DEF r
  <1> QED
    BY <1>2, <1>4, <1>5 DEF TypeOK, Stays

LEMMA BeginsFacts ==
    ASSUME BaseInv, ClientOK, NEW s \in Slot, Begins(s)
    PROVE  /\ h[s] = Idle /\ Stays(s) /\ h' \in [Slot -> Handler \cup {Idle}] /\ h'[s] \in Handler
           /\ UNCHANGED <<rows, sockets, bounds, list, more, cursor>>
           /\ h'[s].items = <<>>
           /\ h'[s].pc \notin {"touch", "push", "notify", "answered"}
           /\ Names(h'[s], Len(msgs))
           /\ h'[s].op = "page" => \/ h'[s].next = 0 /\ list = <<>>
                                   \/ h'[s].next = cursor /\ more
           /\ up' \in Seq([kind : {"join", "read"}, id : Nat])
           /\ \A i \in DOMAIN up' : up'[i].kind = "read" => up'[i].id \in Id
  <1> DEFINE UpFine == /\ up' \in Seq([kind : {"join", "read"}, id : Nat])
                       /\ \A i \in DOMAIN up' : up'[i].kind = "read" => up'[i].id \in Id
             Begun == /\ h[s] = Idle /\ Stays(s) /\ h' \in [Slot -> Handler \cup {Idle}] /\ h'[s] \in Handler
                      /\ UNCHANGED <<rows, sockets, bounds>>
                      /\ h'[s].items = <<>>
                      /\ h'[s].pc \notin {"touch", "push", "notify", "answered"}
                      /\ Names(h'[s], Len(msgs))
                      /\ h'[s].op = "page" => \/ h'[s].next = 0 /\ list = <<>>
                                              \/ h'[s].next = cursor /\ more
  <1>1. /\ TypeOK /\ seen[me] \in 0..Len(msgs) /\ seen[me] \in Nat /\ cursor \in Nat
        /\ \A u \in User : seen[u] \in 0..Len(msgs)
    BY MeFacts DEF BaseInv, ClientOK, TypeOK, NamesStored
  <1>2. (UNCHANGED up) => UpFine
    BY DEF ClientOK
  <1>3. Opens(s) => Begun
    <2> SUFFICES ASSUME Opens(s) PROVE Begun
      OBVIOUS
    <2>1. /\ h'[s] \in Handler /\ h'[s].user \in User
          /\ h'[s].op = "create" => h'[s].pc = "insert"
          /\ h'[s].op \in {"edit", "delete"} => h'[s].id \in Id
          /\ h'[s].op = "read" => h'[s].id \in Id /\ h'[s].cur = seen[h'[s].user]
      BY OpensFacts DEF Handler
    <2>2. Names(h'[s], Len(msgs))
      BY <1>1, <2>1 DEF Names, Id
    <2> QED
      BY <2>2, OpensFacts
  <1>4. PageVerifies(s, me, Me, 0) /\ list = <<>> => Begun
    BY <1>1, PageFacts DEF Names
  <1>5. PageVerifies(s, me, Me, cursor) /\ more => Begun
    BY <1>1, PageFacts DEF Names
  <1> HIDE DEF Begun
  <1>6. CASE Asks(s) /\ UNCHANGED client
    <2>1. Opens(s)
      BY <1>6 DEF Asks, Opens
    <2> QED
      BY <1>2, <1>3, <1>6, <2>1 DEF client, store, Begun
  <1>7. CASE EventArrives(s)
    <2>1. up # <<>> /\ up' = Tail(up) /\ UNCHANGED <<list, more, cursor>>
      BY <1>7 DEF EventArrives, store
    <2>2. UpFine
      <3> DEFINE S == [kind : {"join", "read"}, id : Nat]
      <3>1. up \in Seq(S) /\ \A i \in DOMAIN up : up[i].kind = "read" => up[i].id \in Id
        BY DEF ClientOK
      <3> HIDE DEF S
      <3>2. /\ up' \in Seq(S) /\ \A i \in DOMAIN up' : up'[i] = up[i + 1] /\ i + 1 \in DOMAIN up
        BY <2>1, <3>1
      <3> QED
        BY <3>1, <3>2 DEF S
    <2>3. Head(up) = up[1] /\ 1 \in DOMAIN up /\ up[1].kind \in {"join", "read"}
      <3> DEFINE S == [kind : {"join", "read"}, id : Nat]
      <3>1. up \in Seq(S)
        BY DEF ClientOK
      <3>2. \A e \in S : e.kind \in {"join", "read"}
        OBVIOUS
      <3> HIDE DEF S
      <3>3. Head(up) = up[1] /\ 1 \in DOMAIN up /\ up[1] \in S
        BY <2>1, <3>1
      <3> QED
        BY <3>2, <3>3
    <2>4. JoinVerifies(s, Me) \/ \E id \in Id : ReadRow(s, Me, id)
      BY <1>7, <2>3 DEF EventArrives, ClientOK
    <2>5. Opens(s)
      BY <2>4, MeFacts DEF Opens
    <2> QED
      BY <1>3, <2>1, <2>2, <2>5 DEF Begun
  <1>8. CASE OpenChats(s)
    <2>1. /\ Open(s, me, Me, "list", "count", 0, seen[me]) /\ h[s].pc = "idle"
          /\ UNCHANGED <<rows, sockets, bounds, list, more, cursor, up>>
      BY <1>8 DEF OpenChats, ListReads, Admits, store
    <2>2. /\ Stays(s) /\ h' \in [Slot -> Handler \cup {Idle}] /\ h'[s] \in Handler
          /\ h'[s].op = "list" /\ h'[s].pc = "count" /\ h'[s].items = <<>>
      BY <1>1, <2>1, ListFacts
    <2> QED
      BY <1>1, <1>2, <2>1, <2>2, HandlerFacts DEF Names, Begun
  <1>9. CASE LoadOlder(s)
    <2>1. PageVerifies(s, me, Me, cursor) /\ more /\ UNCHANGED <<list, more, cursor, up>>
      BY <1>9 DEF LoadOlder, store
    <2>2. Begun
      BY <1>5, <2>1
    <2> QED
      BY <1>2, <2>1, <2>2 DEF Begun
  <1>10. CASE Send(s)
    <2>1. /\ Open(s, me, Me, "create", "insert", 0, 0) /\ h[s].pc = "idle"
          /\ UNCHANGED <<rows, sockets, bounds, list, more, cursor, up>>
      BY <1>10 DEF Send, CreateVerifies, Admits, client, store
    <2>2. "create" \in AllOps /\ 0 \in Nat /\ "insert" \in {"insert", "write", "message", "join", "count"}
      BY DEF AllOps
    <2>3. /\ Stays(s) /\ h' \in [Slot -> Handler \cup {Idle}] /\ h'[s] \in Handler
          /\ h'[s].op = "create" /\ h'[s].pc = "insert" /\ h'[s].items = <<>>
      BY <1>1, <2>1, <2>2, MeFacts, OpenFacts
    <2> QED
      BY <1>1, <1>2, <2>1, <2>3, HandlerFacts DEF Names, Begun
  <1>11. CASE OpenThread(s) /\ Fetched(s)
    <2>1. MarkRead(TRUE, list, 0) /\ UNCHANGED <<list, more, cursor>>
      BY <1>11 DEF OpenThread
    <2>2. UpFine
      BY <1>1, <2>1, MarkReadOK DEF ClientOK
    <2>3. Begun
      BY <1>4, <1>5, <1>11 DEF Fetched
    <2> QED
      BY <2>1, <2>2, <2>3 DEF Begun
  <1> QED
    BY <1>6, <1>7, <1>8, <1>9, <1>10, <1>11 DEF Begins

-----------------------------------------------------------------------------
LEMMA QuietBase ==
    ASSUME BaseInv, UNCHANGED <<rows, online, room>>, wire' \in [Socket -> Seq(PushedEvent)],
           h' \in [Slot -> Handler \cup {Idle}], \A s \in Slot : Names(h'[s], Len(msgs)),
           moves' \in Nat, faults' \in Nat
    PROVE  BaseInv'
  BY DEF BaseInv, TypeOK, NamesStored, rows

LEMMA FetchesFinite ==
    ASSUME IsFiniteSet(Fetches), UNCHANGED h \/ \E s \in Slot : Stays(s)
    PROVE  IsFiniteSet(Fetches')
  <1>1. CASE UNCHANGED h
    BY <1>1 DEF Fetches
  <1>2. ASSUME NEW s \in Slot, Stays(s) PROVE IsFiniteSet(Fetches')
    <2>1. Fetches' \subseteq Fetches \cup {s}
      BY <1>2 DEF Fetches, Stays
    <2> QED
      BY <2>1, FS_AddElement, FS_Subset
  <1> QED
    BY <1>1, <1>2

(* A step that leaves the list alone. *)
LEMMA ListKept ==
    ASSUME Once, UNCHANGED <<msgs, list, more, cursor>>,
           \A s, t \in Fetches' : s = t, Fetches' # {} => ~OnItsWay',
           \A t \in Fetches' : h'[t] = h[t] \/ FetchOK(t)',
           \A t \in Slot : Pending(t)' => Pending(t) /\ h'[t].id = h[t].id,
           \A i \in DOMAIN wire'[Me] : \E j \in DOMAIN wire[Me] : wire'[Me][i] = wire[Me][j]
    PROVE  Once'
  <1>1. Distinct(list)'
    BY DEF Once, Distinct
  <1>2. CursorOK'
    BY DEF Once, CursorOK, Reached, NotBefore, Id
  <1>3. ASSUME NEW t \in Fetches', h'[t] = h[t] PROVE FetchOK(t)'
    <2>1. FetchOK(t)
      BY <1>3 DEF Once, Fetches
    <2> QED
      BY <1>3, <2>1 DEF FetchOK, Distinct, Disjoint, Reached, NotBefore, Id
  <1> QED
    BY <1>1, <1>2, <1>3 DEF Once

LEMMA BeginsKeep ==
    ASSUME OnceInv, DesktopNext, Unseen = {}, NEW s \in Slot, Begins(s)
    PROVE  OnceInv'
  <1>1. /\ BaseInv /\ TypeOK /\ ClientOK /\ InOrder /\ IsFiniteSet(Fetches) /\ NamesStored
    BY DEF OnceInv, Orderly, BaseInv
  <1>2. /\ h[s] = Idle /\ Stays(s) /\ h' \in [Slot -> Handler \cup {Idle}] /\ h'[s] \in Handler
        /\ UNCHANGED <<rows, sockets, bounds, list, more, cursor>>
        /\ h'[s].items = <<>>
        /\ h'[s].pc \notin {"touch", "push", "notify", "answered"}
        /\ Names(h'[s], Len(msgs))
        /\ h'[s].op = "page" => \/ h'[s].next = 0 /\ list = <<>>
                                \/ h'[s].next = cursor /\ more
        /\ up' \in Seq([kind : {"join", "read"}, id : Nat])
        /\ \A i \in DOMAIN up' : up'[i].kind = "read" => up'[i].id \in Id
    BY <1>1, BeginsFacts
  <1>3. UNCHANGED <<msgs, wire, online, room, moves, faults>>
    BY <1>2 DEF rows, sockets, bounds
  <1>4. BaseInv'
    <2>1. \A t \in Slot : Names(h'[t], Len(msgs))
      BY <1>1, <1>2 DEF NamesStored, Stays
    <2> QED
      BY <1>1, <1>2, <1>3, <2>1, QuietBase DEF TypeOK
  <1>5. ClientOK'
    <2>1. \A t \in Slot : \A i \in DOMAIN h'[t].items : h'[t].items[i].id \in Id
      <3>1. DOMAIN h'[s].items = {}
        BY <1>2
      <3>2. \A t \in Slot : t # s => \A i \in DOMAIN h'[t].items : h'[t].items[i].id \in Id
        BY <1>1, <1>2 DEF ClientOK, Stays
      <3> QED
        BY <3>1, <3>2
    <2> QED
      BY <1>1, <1>2, <1>3, <2>1 DEF ClientOK, Id
  <1>6. InOrder' /\ OneUnseen' /\ IsFiniteSet(Fetches')
    BY <1>1, <1>2, <1>3, FetchesFinite DEF InOrder, Id, OneUnseen, Unseen, Pauses, Stays
  <1>7. ASSUME "once" \notin excused' PROVE Once'
    <2>1. Once /\ Fetches' # {} => ~OnItsWay'
      BY <1>7, ExcuseFacts DEF OnceInv
    <2>2. \A t, v \in Fetches' : t = v
      BY <1>6, <1>7, ExcuseFacts, AtMostOne
    <2>3. FetchOK(s)' \/ s \notin Fetches'
      <3>1. CASE h'[s].op = "page" /\ h'[s].next = 0 /\ list = <<>>
        BY <1>2, <3>1 DEF FetchOK
      <3>2. CASE h'[s].op = "page" /\ h'[s].next = cursor /\ more
        <4>1. cursor # 0 /\ NotBefore(list, cursor)
          BY <1>7, <3>2, ExcuseFacts DEF OnceInv, Once, CursorOK, Reached
        <4>2. NotBefore(list, h[s].next)'
          BY <1>2, <1>3, <3>2, <4>1 DEF NotBefore
        <4> QED
          BY <1>2, <3>2, <4>1, <4>2 DEF FetchOK
      <3> QED
        BY <1>2, <3>1, <3>2 DEF Fetches
    <2>4. \A t \in Slot : t # s => h'[t] = h[t]
      BY <1>2 DEF Stays
    <2>5. \A t \in Slot : Pending(t)' => Pending(t) /\ h'[t].id = h[t].id
      BY <1>2, <2>4 DEF Pending
    <2>6. \A t \in Fetches' : h'[t] = h[t] \/ FetchOK(t)'
      BY <2>3, <2>4 DEF Fetches
    <2> QED
      BY <1>2, <1>3, <1>7, <2>1, <2>2, <2>5, <2>6, ExcuseFacts, ListKept DEF OnceInv
  <1> QED
    BY <1>4, <1>5, <1>6, <1>7 DEF OnceInv, Orderly

-----------------------------------------------------------------------------
(* What a step of a handler puts on the wire, and what it makes of the handlers *)
(* this client waits for.                                                       *)
LEMMA AppendAdds ==
    ASSUME TypeOK, NEW e, wire'[Me] \in {wire[Me], Append(wire[Me], e)}, NEW i \in DOMAIN wire'[Me]
    PROVE  wire'[Me][i] = e \/ \E j \in DOMAIN wire[Me] : wire'[Me][i] = wire[Me][j]
  <1> DEFINE q == wire[Me]
  <1>1. q \in Seq(PushedEvent)
    BY MeFacts DEF TypeOK
  <1> HIDE DEF q
  <1>2. \A k \in DOMAIN Append(q, e) : Append(q, e)[k] = e \/ \E j \in DOMAIN q : Append(q, e)[k] = q[j]
    BY <1>1
  <1> QED
    BY <1>2 DEF q

LEMMA EmitAdds ==
    ASSUME TypeOK, NEW to, NEW kind, NEW id, Emit(to, kind, id), NEW i \in DOMAIN wire'[Me]
    PROVE  \/ \E j \in DOMAIN wire[Me] : wire'[Me][i] = wire[Me][j]
           \/ wire'[Me][i].id = id /\ wire'[Me][i].kind = kind
  <1> DEFINE e == [kind |-> kind, id |-> id, text |-> msgs[id].text]
  <1>1. wire' = [c \in Socket |-> IF c \in to THEN Append(wire[c], e) ELSE wire[c]]
    BY DEF Emit
  <1>2. e.id = id /\ e.kind = kind
    OBVIOUS
  <1> HIDE DEF e
  <1>3. wire'[Me][i] = e \/ \E j \in DOMAIN wire[Me] : wire'[Me][i] = wire[Me][j]
    <2>1. wire'[Me] \in {wire[Me], Append(wire[Me], e)}
      BY <1>1, MeFacts
    <2> QED
      BY <2>1, AppendAdds
  <1> QED
    BY <1>2, <1>3

LEMMA WireWorks ==
    ASSUME BaseInv, NEW s \in Slot, Continue(s) \/ Fail(s), NEW i \in DOMAIN wire'[Me]
    PROVE  \/ \E j \in DOMAIN wire[Me] : wire'[Me][i] = wire[Me][j]
           \/ /\ wire'[Me][i].id = h[s].id /\ h[s].id \in Id
              /\ wire'[Me][i].kind = "new" => Pending(s)
  <1>1. TypeOK /\ Names(h[s], Len(msgs))
    BY DEF BaseInv, NamesStored
  <1>2. CASE wire' = wire
    BY <1>2
  <1>3. CASE PushNew(s)
    <2>1. Emit(room, "new", h[s].id) /\ Pending(s) /\ h[s].id \in Id
      BY <1>1, <1>3 DEF PushNew, At, Names, Id, Pending
    <2> QED
      BY <1>1, <2>1, EmitAdds
  <1>4. CASE NotifyOthers(s)
    <2>1. (\E to : Emit(to, "notify", h[s].id)) /\ h[s].id \in Id
      BY <1>1, <1>4 DEF NotifyOthers, At, Names, Id
    <2> QED
      BY <1>1, <2>1, EmitAdds
  <1>5. CASE PushDeleted(s)
    <2>1. Emit(room, "deleted", h[s].id) /\ h[s].id \in Id
      BY <1>1, <1>5 DEF PushDeleted, At, Names, Id
    <2> QED
      BY <1>1, <2>1, EmitAdds
  <1>6. CASE PushEdit(s)
    <2> DEFINE e == [kind |-> "updated", id |-> h[s].id, text |-> h[s].cur]
    <2>1. wire' = [c \in Socket |-> IF c \in room THEN Append(wire[c], e) ELSE wire[c]]
      BY <1>6 DEF PushEdit
    <2>2. e.id = h[s].id /\ e.kind = "updated" /\ h[s].id \in Id
      BY <1>1, <1>6 DEF PushEdit, At, Names, Id
    <2> HIDE DEF e
    <2>3. wire'[Me][i] = e \/ \E j \in DOMAIN wire[Me] : wire'[Me][i] = wire[Me][j]
      <3>1. wire'[Me] \in {wire[Me], Append(wire[Me], e)}
        BY <2>1, MeFacts
      <3> QED
        BY <1>1, <3>1, AppendAdds
    <2> QED
      BY <2>2, <2>3
  <1>7. CASE Fail(s)
    BY <1>2, <1>7 DEF Fail, sockets
  <1> QED
    BY <1>2, <1>3, <1>4, <1>5, <1>6, <1>7 DEF Continue, InsertMessage, TouchMembers, WriteEdit, WriteDelete, FindPage,
       ListCounts, ReadMessage, WriteSeen, JoinRoom, sockets

LEMMA PendingWorks ==
    ASSUME BaseInv, NEW s \in Slot, Continue(s) \/ Fail(s), NEW t \in Slot, Pending(t)'
    PROVE  \/ Pending(t) /\ h'[t].id = h[t].id
           \/ InsertMessage(s) /\ h'[t].id = Len(msgs) + 1
  <1>1. /\ h[s] \in Handler /\ Stays(s) /\ Follows(s)
    BY WorksFacts
  <1>2. CASE t # s
    BY <1>1, <1>2 DEF Stays, Pending
  <1>3. CASE t = s /\ InsertMessage(s)
    BY <1>3, InsertFacts
  <1>4. CASE t = s /\ ~InsertMessage(s)
    <2>1. h'[s].op = "create" /\ h'[s].pc \in {"push", "notify", "answered"}
      BY <1>1, <1>4 DEF Follows, Pending, Idle
    <2>2. h[s].op = "create" /\ h'[s].id = h[s].id /\ h[s].pc \in {"touch", "push", "notify"}
      BY <1>1, <1>4, <2>1 DEF Follows, Idle, PushNew, At
    <2> QED
      BY <1>4, <2>2 DEF Pending
  <1> QED
    BY <1>2, <1>3, <1>4

LEMMA FetchWorks ==
    ASSUME BaseInv, NEW s \in Slot, Continue(s) \/ Fail(s), s \in Fetches'
    PROVE  s \in Fetches /\ (FindPage(s) \/ h'[s].pc = "failed")
  <1>1. /\ h[s] \in Handler /\ Follows(s) /\ TypeOK /\ h[s].pc # "idle"
    BY WorksFacts, HandlerFacts DEF BaseInv
  <1>2. h'[s].op = "page" /\ h'[s].sock = Me /\ h'[s] # Idle
    BY DEF Fetches, Idle
  <1>3. h[s].op = "page" /\ h[s].sock = Me
    BY <1>1, <1>2 DEF Follows
  <1>4. CASE Continue(s)
    BY <1>3, <1>4 DEF Continue, InsertMessage, TouchMembers, PushNew, NotifyOthers, WriteEdit, WriteDelete, PushEdit,
                PushDeleted, ListCounts, ReadMessage, WriteSeen, JoinRoom, At, Fetches
  <1>5. CASE Fail(s)
    <2>1. Goto(s, "failed")
      BY <1>1, <1>2, <1>5, FreeFacts DEF Fail, Throw
    <2> QED
      BY <1>1, <1>3, <2>1 DEF Goto, Fetches, TypeOK, Handler
  <1> QED
    BY <1>4, <1>5

-----------------------------------------------------------------------------
LEMMA GrowthFacts ==
    ASSUME BaseInv, InOrder, Next
    PROVE  /\ InOrder' /\ Id \subseteq Id'
           /\ \A i \in Id : msgs'[i].at = msgs[i].at /\ msgs[i].at \in Nat
  <1>1. Grows /\ msgs \in Seq(Row) /\ Len(msgs) \in Nat /\ Len(msgs') \in Nat
    BY MessagesGrow DEF BaseInv, TypeOK, Grows
  <1>2. \A i \in Id : msgs'[i].at = msgs[i].at /\ msgs[i].at \in Nat
    <2>1. \A i \in Id : msgs[i] \in Row
      BY <1>1 DEF Id
    <2> QED
      BY <1>1, <2>1 DEF Grows, Row
  <1>3. Id \subseteq Id'
    BY <1>1 DEF Grows, Id
  <1>4. InOrder'
    <2>1. CASE Len(msgs') = Len(msgs)
      <3>1. Id' = Id
        BY <2>1 DEF Id
      <3> QED
        BY <1>2, <3>1 DEF InOrder
    <2>2. ASSUME NEW s \in Slot, InsertMessage(s) PROVE InOrder'
      <3> DEFINE n == Len(msgs) + 1
      <3>1. Len(msgs') = n /\ (msgs # <<>> => msgs[Len(msgs)].at <= msgs'[n].at) /\ msgs'[n] \in Row
        BY <1>1, <2>2, InsertFacts
      <3>2. msgs'[n].at \in Nat
        BY <3>1 DEF Row
      <3>3. \A i \in Id : msgs[i].at <= msgs'[n].at
        <4> SUFFICES ASSUME NEW i \in Id PROVE msgs[i].at <= msgs'[n].at
          OBVIOUS
        <4>1. msgs # <<>> /\ Len(msgs) \in Id /\ i <= Len(msgs)
          BY <1>1 DEF Id
        <4>2. msgs[i].at <= msgs[Len(msgs)].at
          BY <4>1 DEF InOrder
        <4> QED
          BY <1>2, <3>1, <3>2, <4>1, <4>2
      <3> SUFFICES ASSUME NEW i \in Id', NEW j \in Id', i <= j PROVE msgs'[i].at <= msgs'[j].at
        BY DEF InOrder
      <3>4. i \in Id \cup {n} /\ j \in Id \cup {n} /\ (i = n => j = n)
        BY <1>1, <3>1 DEF Id
      <3> QED
        BY <1>2, <3>2, <3>3, <3>4 DEF InOrder
    <2> QED
      BY <1>1, <2>1, <2>2 DEF Grows
  <1> QED
    BY <1>2, <1>3, <1>4

LEMMA WorksOrderly ==
    ASSUME Orderly, NEW s \in Slot, Continue(s) \/ Fail(s), UNCHANGED client, Unseen = {} \/ s \in Unseen
    PROVE  Orderly'
  <1>1. /\ BaseInv /\ TypeOK /\ ClientOK /\ InOrder /\ OneUnseen /\ IsFiniteSet(Fetches)
    BY DEF Orderly, BaseInv
  <1>2. /\ h[s] \in Handler /\ Stays(s) /\ Follows(s)
    BY <1>1, WorksFacts
  <1>3. Next /\ UNCHANGED <<list, more, cursor, up>>
    BY DEF Next, client, store
  <1>4. BaseInv'
    BY <1>1, <1>3, BaseStep
  <1>5. InOrder' /\ Id \subseteq Id'
    BY <1>1, <1>3, GrowthFacts
  <1>6. OneUnseen' /\ IsFiniteSet(Fetches')
    <2>1. \A t \in Unseen : t = s
      BY <1>1 DEF OneUnseen
    <2>2. \A t \in Slot : t # s => h'[t] = h[t]
      BY <1>2 DEF Stays
    <2>3. \A t \in Unseen' : t = s
      BY <2>1, <2>2 DEF Unseen, Pauses
    <2> QED
      BY <1>1, <1>2, <2>3, FetchesFinite DEF OneUnseen
  <1>7. \A t \in Slot : \A i \in DOMAIN h'[t].items : h'[t].items[i].id \in Id
    <2> SUFFICES ASSUME NEW t \in Slot, NEW i \in DOMAIN h'[t].items PROVE h'[t].items[i].id \in Id
      OBVIOUS
    <2>1. CASE h'[t].items = h[t].items
      BY <1>1, <2>1 DEF ClientOK
    <2>2. CASE t = s /\ FindPage(s)
      BY <1>1, <2>2, FindPageFollows DEF PageOK
    <2>3. CASE h'[t] = Idle
      BY <2>3 DEF Idle
    <2> QED
      BY <1>2, <2>1, <2>2, <2>3 DEF Stays, Follows
  <1>8. \A i \in DOMAIN wire'[Me] : wire'[Me][i].id \in Id
    BY <1>1, WireWorks DEF ClientOK
  <1>9. ClientOK'
    BY <1>1, <1>3, <1>5, <1>7, <1>8 DEF ClientOK
  <1> QED
    BY <1>4, <1>5, <1>6, <1>9 DEF Orderly

(* The page that was asked for, as it was found. *)
LEMMA FetchAnswered ==
    ASSUME Orderly, Once, NEW s \in Fetches, FindPage(s), UNCHANGED list
    PROVE  FetchOK(s)'
  <1> DEFINE before == h[s].next
  <1>1. /\ TypeOK /\ BaseInv /\ ClientOK /\ s \in Slot /\ h[s].pc = "find" /\ FetchOK(s)
    BY DEF Orderly, BaseInv, Once, Fetches, FindPage, At
  <1>2. /\ h'[s].pc = "answered" /\ PageOK(h'[s], before) /\ h'[s] \in Handler /\ msgs' = msgs
    BY <1>1, FindPageFollows DEF FindPage, rows
  <1>3. IF before = 0 THEN list = <<>> ELSE NotBefore(list, before)
    BY <1>1 DEF FetchOK
  <1>4. /\ h[s] \in Handler /\ before \in Nat /\ h'[s].next \in Nat
    BY <1>1, <1>2, HandlerFacts DEF Handler
  <1>5. \A i \in Id : msgs[i].at \in Nat
    <2>1. \A i \in Id : msgs[i] \in Row
      BY <1>1 DEF TypeOK, Id
    <2> QED
      BY <2>1 DEF Row
  <1> HIDE DEF before
  <1>6. Distinct(h'[s].items)
    BY <1>2 DEF PageOK, Distinct
  <1>7. Disjoint(list, h'[s].items)
    <2> SUFFICES ASSUME NEW i \in DOMAIN list, NEW j \in DOMAIN h'[s].items PROVE list[i].id # h'[s].items[j].id
      BY DEF Disjoint
    <2>1. list # <<>> /\ list[i].id \in Id
      BY <1>1 DEF ClientOK
    <2>2. before # 0 /\ before <= msgs[list[i].id].at
      BY <1>3, <2>1 DEF NotBefore
    <2>3. h'[s].items[j].id \in Id /\ msgs[h'[s].items[j].id].at < before
      BY <1>2, <2>2 DEF PageOK
    <2> QED
      BY <1>4, <1>5, <2>1, <2>2, <2>3
  <1>8. ASSUME h'[s].more
        PROVE  /\ Reached(h'[s].next) /\ NotBefore(list, h'[s].next) /\ NotBefore(h'[s].items, h'[s].next)
    <2>1. /\ h'[s].next # 0 /\ (before = 0 \/ h'[s].next < before) /\ \E i \in Id : h'[s].next = msgs[i].at
          /\ \A i \in DOMAIN h'[s].items : h'[s].next <= msgs[h'[s].items[i].id].at
      BY <1>2, <1>8 DEF PageOK
    <2>2. NotBefore(list, h'[s].next)
      <3> SUFFICES ASSUME NEW i \in DOMAIN list PROVE h'[s].next <= msgs[list[i].id].at
        BY DEF NotBefore
      <3>1. list # <<>> /\ list[i].id \in Id
        BY <1>1 DEF ClientOK
      <3>2. before # 0 /\ before <= msgs[list[i].id].at
        BY <1>3, <3>1 DEF NotBefore
      <3> QED
        BY <1>4, <1>5, <2>1, <3>1, <3>2
    <2> QED
      BY <2>1, <2>2 DEF Reached, NotBefore
  <1> QED
    BY <1>2, <1>6, <1>7, <1>8 DEF FetchOK, Distinct, Disjoint, Reached, NotBefore, Id

LEMMA WorksKeep ==
    ASSUME OnceInv, DesktopNext, NEW s \in Slot, Continue(s) \/ Fail(s), UNCHANGED client,
           Unseen = {} \/ s \in Unseen
    PROVE  OnceInv'
  <1>1. Orderly /\ Orderly' /\ BaseInv /\ TypeOK /\ ClientOK
    BY WorksOrderly DEF OnceInv, Orderly, BaseInv
  <1> SUFFICES ASSUME "once" \notin excused' PROVE Once'
    BY <1>1 DEF OnceInv
  <1>2. Once /\ (Fetches' # {} => ~OnItsWay')
    BY ExcuseFacts DEF OnceInv
  <1>3. Stays(s) /\ h[s] \in Handler /\ UNCHANGED <<list, more, cursor>>
    BY <1>1, WorksFacts DEF client, store
  <1>4. \A i \in Id : msgs'[i].at = msgs[i].at /\ msgs[i].at \in Nat /\ i \in Id'
    <2>1. Next
      BY DEF Next
    <2> QED
      BY <1>1, <2>1, GrowthFacts DEF Orderly
  <1>5. \A t, v \in Fetches' : t = v
    BY <1>1, ExcuseFacts, AtMostOne DEF Orderly
  <1>6. \A n \in Nat : NotBefore(list, n) => \A i \in DOMAIN list : n <= msgs'[list[i].id].at
    BY <1>1, <1>4 DEF NotBefore, ClientOK
  <1>7. ASSUME NEW t \in Fetches', h'[t] = h[t] PROVE FetchOK(t)'
    <2>1. FetchOK(t) /\ t \in Slot
      BY <1>2, <1>7 DEF Once, Fetches
    <2>2. h[t] \in Handler /\ h[t].next \in Nat /\ h'[t].next \in Nat
      BY <1>1, <1>7, <2>1, HandlerFacts DEF Fetches, Handler, Idle
    <2> DEFINE n == h[t].next
               q == h[t].items
    <2>3. h[t].pc = "find" => IF n = 0 THEN list = <<>> ELSE \A i \in DOMAIN list : n <= msgs'[list[i].id].at
      BY <1>6, <2>1, <2>2 DEF FetchOK
    <2>4. NotBefore(q, n) => \A i \in DOMAIN q : n <= msgs'[q[i].id].at
      BY <1>1, <1>4, <2>1 DEF NotBefore, ClientOK
    <2>5. h[t].pc = "answered" =>
            /\ Distinct(q) /\ Disjoint(list, q)
            /\ h[t].more => /\ Reached(n)
                            /\ \A i \in DOMAIN list : n <= msgs'[list[i].id].at
                            /\ \A i \in DOMAIN q : n <= msgs'[q[i].id].at
      BY <1>6, <2>1, <2>2, <2>4 DEF FetchOK
    <2>6. Reached(n) => n # 0 /\ \E i \in Id' : n = msgs'[i].at
      BY <1>4 DEF Reached
    <2> QED
      BY <1>3, <1>7, <2>3, <2>5, <2>6 DEF FetchOK, Distinct, Disjoint, NotBefore, Reached
  <1>8. ASSUME s \in Fetches' PROVE FetchOK(s)'
    <2>1. s \in Fetches /\ (FindPage(s) \/ h'[s].pc = "failed")
      BY <1>1, <1>8, FetchWorks
    <2>2. h'[s].pc = "failed" => FetchOK(s)'
      BY DEF FetchOK
    <2> QED
      BY <1>1, <1>2, <1>3, <2>1, <2>2, FetchAnswered
  <1>9. CursorOK'
    <2> SUFFICES ASSUME more
                 PROVE  /\ Reached(cursor)' /\ NotBefore(list, cursor)'
                        /\ \A t \in Slot : Pending(t)' => cursor <= msgs'[h'[t].id].at
                        /\ \A i \in DOMAIN wire'[Me] : wire'[Me][i].kind = "new"
                                                        => cursor <= msgs'[wire'[Me][i].id].at
      BY <1>3 DEF CursorOK
    <2>1. /\ Reached(cursor) /\ NotBefore(list, cursor) /\ cursor \in Nat
          /\ \A t \in Slot : Pending(t) => cursor <= msgs[h[t].id].at
          /\ \A i \in DOMAIN wire[Me] : wire[Me][i].kind = "new" => cursor <= msgs[wire[Me][i].id].at
      BY <1>1, <1>2 DEF Once, CursorOK, ClientOK
    <2>2. Reached(cursor)' /\ NotBefore(list, cursor)'
      BY <1>3, <1>4, <1>6, <2>1 DEF Reached, NotBefore
    <2>3. \A t \in Slot : Pending(t) => h[t].id \in Id
      BY <1>1 DEF BaseInv, NamesStored, Names, Pending, Id
    <2>4. ASSUME InsertMessage(s) PROVE cursor <= msgs'[Len(msgs) + 1].at
      <3>1. msgs \in Seq(Row) /\ Len(msgs) \in Nat /\ InOrder
        BY <1>1 DEF TypeOK, Orderly
      <3>2. PICK i \in Id : cursor = msgs[i].at
        BY <2>1 DEF Reached
      <3>3. msgs # <<>> /\ Len(msgs) \in Id /\ i <= Len(msgs)
        BY <3>1, <3>2 DEF Id
      <3>4. cursor <= msgs[Len(msgs)].at
        BY <3>1, <3>2, <3>3 DEF InOrder
      <3>5. msgs[Len(msgs)].at <= msgs'[Len(msgs) + 1].at /\ msgs'[Len(msgs) + 1] \in Row
        BY <1>1, <2>4, <3>1, <3>3, InsertFacts
      <3>6. msgs'[Len(msgs) + 1].at \in Nat
        BY <3>5 DEF Row
      <3> QED
        BY <1>4, <2>1, <3>3, <3>4, <3>5, <3>6
    <2>5. ASSUME NEW t \in Slot, Pending(t)' PROVE cursor <= msgs'[h'[t].id].at
      BY <1>1, <1>4, <2>1, <2>3, <2>4, <2>5, PendingWorks
    <2>6. ASSUME NEW i \in DOMAIN wire'[Me], wire'[Me][i].kind = "new"
          PROVE  cursor <= msgs'[wire'[Me][i].id].at
      <3>1. CASE \E j \in DOMAIN wire[Me] : wire'[Me][i] = wire[Me][j]
        BY <1>1, <1>4, <2>1, <2>6, <3>1 DEF ClientOK
      <3>2. CASE wire'[Me][i].id = h[s].id /\ h[s].id \in Id /\ Pending(s)
        BY <1>4, <2>1, <3>2
      <3> QED
        BY <1>1, <2>6, <3>1, <3>2, WireWorks
    <2> QED
      BY <2>2, <2>5, <2>6
  <1>10. Distinct(list)'
    BY <1>2, <1>3 DEF Once, Distinct
  <1>11. \A t \in Fetches' : FetchOK(t)'
    BY <1>3, <1>7, <1>8 DEF Stays, Fetches
  <1> QED
    BY <1>2, <1>5, <1>9, <1>10, <1>11 DEF Once

-----------------------------------------------------------------------------
(* The store's operations on the list. *)
FromList(q) == \A i \in DOMAIN q : \E j \in DOMAIN list : q[i].id = list[j].id

LEMMA AddMessageFacts ==
    ASSUME ClientOK, NEW m \in Entry
    PROVE  /\ AddMessage(m) \in Seq(Entry)
           /\ \A i \in DOMAIN AddMessage(m) : \/ AddMessage(m)[i].id = m.id
                                              \/ \E j \in DOMAIN list : AddMessage(m)[i].id = list[j].id
           /\ Distinct(list) => Distinct(AddMessage(m))
  <1> DEFINE q == AddMessage(m)
  <1>1. list \in Seq(Entry) /\ Len(list) \in Nat /\ DOMAIN list = 1..Len(list)
    BY DEF ClientOK
  <1>2. CASE \E i \in DOMAIN list : list[i].id = m.id
    <2>1. q = [i \in DOMAIN list |-> IF list[i].id = m.id THEN m ELSE list[i]]
      BY <1>2 DEF AddMessage
    <2>2. DOMAIN q = DOMAIN list /\ \A i \in DOMAIN list : q[i] \in Entry /\ q[i].id = list[i].id
      BY <1>1, <2>1
    <2>3. q \in Seq(Entry)
      <3> HIDE DEF q
      <3>1. q = [i \in 1..Len(list) |-> q[i]]
        BY <1>1, <2>1, <2>2
      <3> QED
        BY <1>1, <2>2, <3>1
    <2> QED
      BY <2>2, <2>3 DEF Distinct
  <1>3. CASE \A i \in DOMAIN list : list[i].id # m.id
    <2>1. q = <<m>> \o list
      BY <1>3 DEF AddMessage
    <2>2. /\ q \in Seq(Entry) /\ Len(q) = Len(list) + 1 /\ q[1] = m
          /\ \A i \in 1..Len(q) : i # 1 => q[i] = list[i - 1] /\ i - 1 \in DOMAIN list
      <3> HIDE DEF q
      <3> QED
        BY <1>1, <2>1
    <2>3. DOMAIN q = 1..Len(q)
      BY <2>2
    <2> HIDE DEF q
    <2>4. \A i \in DOMAIN q : q[i].id = m.id \/ \E j \in DOMAIN list : q[i].id = list[j].id
      BY <2>2, <2>3
    <2>5. ASSUME Distinct(list) PROVE Distinct(q)
      <3> SUFFICES ASSUME NEW i \in 1..Len(q), NEW j \in 1..Len(q), q[i].id = q[j].id PROVE i = j
        BY <2>3 DEF Distinct
      <3>1. CASE i = 1 \/ j = 1
        BY <1>3, <2>2, <3>1
      <3>2. CASE i # 1 /\ j # 1
        <4>1. list[i - 1].id = list[j - 1].id /\ i - 1 \in DOMAIN list /\ j - 1 \in DOMAIN list
          BY <2>2, <3>2
        <4>2. i - 1 = j - 1
          BY <2>5, <4>1 DEF Distinct
        <4> QED
          BY <1>1, <2>2, <4>2
      <3> QED
        BY <3>1, <3>2
    <2> QED
      BY <2>2, <2>4, <2>5 DEF q
  <1> QED
    BY <1>2, <1>3

LEMMA UpdateFacts ==
    ASSUME ClientOK, NEW m \in Entry
    PROVE  UpdateMessage(m) \in Seq(Entry) /\ FromList(UpdateMessage(m))
           /\ (Distinct(list) => Distinct(UpdateMessage(m)))
  <1> DEFINE q == UpdateMessage(m)
  <1>1. list \in Seq(Entry) /\ Len(list) \in Nat /\ DOMAIN list = 1..Len(list)
    BY DEF ClientOK
  <1>2. q = [i \in DOMAIN list |-> IF list[i].id = m.id THEN m ELSE list[i]]
    BY DEF UpdateMessage
  <1>3. DOMAIN q = DOMAIN list /\ \A i \in DOMAIN list : q[i] \in Entry /\ q[i].id = list[i].id
    BY <1>1, <1>2
  <1>4. q \in Seq(Entry)
    <2> HIDE DEF q
    <2>1. q = [i \in 1..Len(list) |-> q[i]]
      BY <1>1, <1>2, <1>3
    <2> QED
      BY <1>1, <1>3, <2>1
  <1> QED
    BY <1>3, <1>4 DEF Distinct, FromList

LEMMA KeptFacts ==
    ASSUME ClientOK, NEW id, NEW p \in Kept(id)
    PROVE  LET q == [i \in DOMAIN p |-> list[p[i]]]
           IN  q \in Seq(Entry) /\ FromList(q) /\ (Distinct(list) => Distinct(q))
  <1> DEFINE others == {i \in DOMAIN list : list[i].id # id}
             n == Cardinality(others)
             q == [i \in DOMAIN p |-> list[p[i]]]
  <1>1. list \in Seq(Entry) /\ Len(list) \in Nat /\ DOMAIN list = 1..Len(list)
    BY DEF ClientOK
  <1>2. p \in [1..n -> others] /\ \A i, j \in DOMAIN p : i < j => p[i] < p[j]
    BY DEF Kept
  <1>3. n \in Nat
    <2>1. IsFiniteSet(DOMAIN list) /\ others \subseteq DOMAIN list
      BY <1>1, FS_Interval
    <2> QED
      BY <2>1, FS_Subset, FS_CardinalityType
  <1> HIDE DEF n
  <1>4. DOMAIN q = 1..n /\ \A i \in 1..n : p[i] \in DOMAIN list /\ q[i] = list[p[i]] /\ q[i] \in Entry
    BY <1>1, <1>2
  <1>5. q \in Seq(Entry)
    BY <1>3, <1>4
  <1>6. ASSUME Distinct(list) PROVE Distinct(q)
    <2> SUFFICES ASSUME NEW i \in 1..n, NEW j \in 1..n, q[i].id = q[j].id PROVE i = j
      BY <1>4 DEF Distinct
    <2>1. p[i] = p[j]
      BY <1>4, <1>6 DEF Distinct
    <2>2. ~(i < j) /\ ~(j < i)
      BY <1>1, <1>2, <1>4, <2>1
    <2> QED
      BY <1>3, <2>2
  <1> QED
    BY <1>4, <1>5, <1>6 DEF FromList

-----------------------------------------------------------------------------
LEMMA ShowListOK ==
    ASSUME TypeOK, ClientOK, NEW q \in Seq(Entry), \A i \in DOMAIN q : q[i].id \in Id, NEW n, ShowList(q, n)
    PROVE  /\ list' = q
           /\ up' \in Seq([kind : {"join", "read"}, id : Nat])
           /\ \A i \in DOMAIN up' : up'[i].kind = "read" => up'[i].id \in Id
  <1>1. MarkRead(active, q, n) \/ up' = up
    BY DEF ShowList
  <1>2. list' = q
    BY DEF ShowList
  <1>3. CASE up' = up
    BY <1>2, <1>3 DEF ClientOK
  <1>4. CASE MarkRead(active, q, n)
    BY <1>2, <1>4, MarkReadOK
  <1> QED
    BY <1>1, <1>3, <1>4

(* A step that only moves events and the screen. *)
LEMMA HandlersKept ==
    ASSUME OnceInv, DesktopNext, UNCHANGED <<msgs, h, list, more, cursor>>, BaseInv',
           up' \in Seq([kind : {"join", "read"}, id : Nat]),
           \A i \in DOMAIN up' : up'[i].kind = "read" => up'[i].id \in Id,
           \A i \in DOMAIN wire'[Me] : \E j \in DOMAIN wire[Me] : wire'[Me][i] = wire[Me][j]
    PROVE  OnceInv'
  <1>1. ClientOK /\ InOrder /\ OneUnseen /\ IsFiniteSet(Fetches)
    BY DEF OnceInv, Orderly
  <1>2. ClientOK'
    BY <1>1 DEF ClientOK, Id
  <1>3. InOrder' /\ OneUnseen' /\ Fetches' = Fetches
    BY <1>1 DEF InOrder, Id, OneUnseen, Unseen, Pauses, Fetches
  <1>4. ASSUME "once" \notin excused' PROVE Once'
    <2>1. Once /\ (Fetches' # {} => ~OnItsWay')
      BY <1>4, ExcuseFacts DEF OnceInv
    <2>2. \A s, t \in Fetches' : s = t
      BY <1>3, <2>1 DEF Once
    <2>3. \A t \in Slot : Pending(t)' => Pending(t) /\ h'[t].id = h[t].id
      BY DEF Pending
    <2> QED
      BY <2>1, <2>2, <2>3, ListKept
  <1> QED
    BY <1>1, <1>2, <1>3, <1>4 DEF OnceInv, Orderly

(* A list that changes while no page is fetched. *)
LEMMA ListChanged ==
    ASSUME Once, UNCHANGED <<msgs, more, cursor>>, Fetches' = {}, Distinct(list)',
           \A i \in DOMAIN list' : \/ \E j \in DOMAIN list : list'[i].id = list[j].id
                                   \/ more => cursor <= msgs[list'[i].id].at,
           \A t \in Slot : Pending(t)' => Pending(t) /\ h'[t].id = h[t].id,
           \A i \in DOMAIN wire'[Me] : \E j \in DOMAIN wire[Me] : wire'[Me][i] = wire[Me][j]
    PROVE  Once'
  <1>1. NotBefore(list, cursor) /\ more => NotBefore(list, cursor)'
    BY DEF NotBefore
  <1>2. CursorOK'
    BY <1>1 DEF Once, CursorOK, Reached, Id
  <1> QED
    BY <1>2 DEF Once

LEMMA TakenFromWire ==
    ASSUME TypeOK, wire[Me] # <<>>, Took(Me)
    PROVE  /\ \A i \in DOMAIN wire'[Me] : \E j \in DOMAIN wire[Me] : wire'[Me][i] = wire[Me][j]
           /\ Head(wire[Me]) = wire[Me][1] /\ 1 \in DOMAIN wire[Me] /\ wire[Me][1] \in PushedEvent
  <1> DEFINE q == wire[Me]
  <1>1. q \in Seq(PushedEvent) /\ wire'[Me] = Tail(q) /\ q # <<>>
    BY MeFacts DEF TypeOK, Took
  <1> HIDE DEF q
  <1>2. \A i \in DOMAIN Tail(q) : Tail(q)[i] = q[i + 1] /\ i + 1 \in DOMAIN q
    BY <1>1
  <1>3. Head(q) = q[1] /\ 1 \in DOMAIN q /\ q[1] \in PushedEvent
    BY <1>1
  <1> QED
    BY <1>1, <1>2, <1>3 DEF q

LEMMA EventsKeep ==
    ASSUME OnceInv, DesktopNext, Events
    PROVE  OnceInv'
  <1> DEFINE e == wire[Me][1]
  <1>1. /\ BaseInv /\ TypeOK /\ ClientOK /\ InOrder /\ OneUnseen /\ IsFiniteSet(Fetches)
    BY DEF OnceInv, Orderly, BaseInv
  <1>2. /\ wire[Me] # <<>> /\ Took(Me) /\ UNCHANGED <<rows, online, room, h, bounds, more, cursor>>
    BY DEF Events, ReceiveNew, ReceiveUpdated, ReceiveDeleted, ReceiveNotification, Pushed, client, store
  <1>3. BaseInv'
    <2>1. Receive(Me)
      BY <1>2 DEF Receive, Took
    <2> QED
      BY <1>1, <2>1, MeFacts, BaseStep DEF Next
  <1>4. /\ \A i \in DOMAIN wire'[Me] : \E j \in DOMAIN wire[Me] : wire'[Me][i] = wire[Me][j]
        /\ Head(wire[Me]) = e /\ 1 \in DOMAIN wire[Me] /\ e \in PushedEvent
    BY <1>1, <1>2, TakenFromWire
  <1>5. Push \in Entry /\ Push.id = e.id /\ e.id \in Id
    BY <1>1, <1>4 DEF Push, Entry, PushedEvent, ClientOK
  <1>6. UNCHANGED <<msgs, h>>
    BY <1>2 DEF rows
  <1>7. ASSUME NEW q \in Seq(Entry), list' = q, Distinct(list) => Distinct(q),
               \A i \in DOMAIN q : \/ \E j \in DOMAIN list : q[i].id = list[j].id
                                   \/ q[i].id = e.id /\ e.kind = "new",
               up' \in Seq([kind : {"join", "read"}, id : Nat]),
               \A i \in DOMAIN up' : up'[i].kind = "read" => up'[i].id \in Id
        PROVE  OnceInv'
    <2>1. \A i \in DOMAIN list' : list'[i].id \in Id
      BY <1>1, <1>5, <1>7 DEF ClientOK
    <2>2. ClientOK'
      BY <1>1, <1>2, <1>4, <1>6, <1>7, <2>1 DEF ClientOK, Id
    <2>3. InOrder' /\ OneUnseen' /\ Fetches' = Fetches
      BY <1>1, <1>6 DEF InOrder, Id, OneUnseen, Unseen, Pauses, Fetches
    <2>4. ASSUME "once" \notin excused' PROVE Once'
      <3>1. Once
        BY <2>4, ExcuseFacts DEF OnceInv
      <3>2. Fetches' = {}
        BY <1>2, <2>3, <3>1 DEF Once, OnItsWay
      <3>3. Distinct(list)'
        BY <1>7, <3>1 DEF Once, Distinct
      <3>4. \A i \in DOMAIN list' : \/ \E j \in DOMAIN list : list'[i].id = list[j].id
                                    \/ more => cursor <= msgs[list'[i].id].at
        BY <1>4, <1>7, <3>1 DEF Once, CursorOK
      <3>5. \A t \in Slot : Pending(t)' => Pending(t) /\ h'[t].id = h[t].id
        BY <1>6 DEF Pending
      <3> QED
        BY <1>2, <1>4, <1>6, <3>1, <3>2, <3>3, <3>4, <3>5, ListChanged
    <2> QED
      BY <1>1, <1>3, <2>2, <2>3, <2>4 DEF OnceInv, Orderly
  <1>8. CASE ReceiveNew
    <2>1. PICK n : ShowList(AddMessage(Push), n)
      BY <1>8 DEF ReceiveNew
    <2>2. /\ AddMessage(Push) \in Seq(Entry)
          /\ \A i \in DOMAIN AddMessage(Push) : \/ AddMessage(Push)[i].id = Push.id
                                                \/ \E j \in DOMAIN list : AddMessage(Push)[i].id = list[j].id
          /\ Distinct(list) => Distinct(AddMessage(Push))
      BY <1>1, <1>5, AddMessageFacts
    <2>3. \A i \in DOMAIN AddMessage(Push) : AddMessage(Push)[i].id \in Id
      BY <1>1, <1>5, <2>2 DEF ClientOK
    <2>4. e.kind = "new"
      BY <1>4, <1>8 DEF ReceiveNew, Pushed
    <2> QED
      BY <1>1, <1>5, <1>7, <2>1, <2>2, <2>3, <2>4, ShowListOK
  <1>9. CASE ReceiveUpdated
    BY <1>1, <1>5, <1>7, <1>9, UpdateFacts DEF ReceiveUpdated, FromList, ClientOK
  <1>10. CASE ReceiveDeleted
    <2>1. PICK p \in Kept(Push.id) : ShowList([i \in DOMAIN p |-> list[p[i]]], badge)
      BY <1>10 DEF ReceiveDeleted
    <2> DEFINE q == [i \in DOMAIN p |-> list[p[i]]]
    <2>2. q \in Seq(Entry) /\ FromList(q) /\ (Distinct(list) => Distinct(q))
      BY <1>1, <2>1, KeptFacts
    <2> HIDE DEF q
    <2>3. \A i \in DOMAIN q : q[i].id \in Id
      BY <1>1, <2>2 DEF ClientOK, FromList
    <2>4. ShowList(q, badge)
      BY <2>1 DEF q
    <2> QED
      BY <1>1, <1>7, <2>2, <2>3, <2>4, ShowListOK DEF FromList
  <1>11. CASE ReceiveNotification
    BY <1>1, <1>2, <1>3, <1>4, <1>6, <1>11, HandlersKept DEF ReceiveNotification, client, store, ClientOK
  <1> QED
    BY <1>8, <1>9, <1>10, <1>11 DEF Events

LEMMA QuietKeep ==
    ASSUME OnceInv, DesktopNext, Looks \/ SocketConnects \/ SocketDrops
    PROVE  OnceInv'
  <1>1. BaseInv /\ TypeOK /\ ClientOK
    BY DEF OnceInv, Orderly, BaseInv
  <1> DEFINE UpFine == /\ up' \in Seq([kind : {"join", "read"}, id : Nat])
                       /\ \A i \in DOMAIN up' : up'[i].kind = "read" => up'[i].id \in Id
  <1>2. up' = up => UpFine
    BY <1>1 DEF ClientOK
  <1>3. wire' = wire => \A i \in DOMAIN wire'[Me] : \E j \in DOMAIN wire[Me] : wire'[Me][i] = wire[Me][j]
    OBVIOUS
  <1>4. CASE UNCHANGED <<vars, list, more, cursor>> /\ \E s \in Slot : OpenThread(s)
    <2>1. MarkRead(TRUE, list, 0)
      BY <1>4 DEF OpenThread
    <2>2. UpFine
      BY <1>1, <2>1, MarkReadOK DEF ClientOK
    <2>3. BaseInv'
      BY <1>1, <1>4, BaseStep
    <2>4. UNCHANGED <<msgs, h, wire>>
      BY <1>4 DEF vars, rows, sockets
    <2> QED
      BY <1>3, <1>4, <2>2, <2>3, <2>4, HandlersKept
  <1>5. CASE OpenOther \/ OtherAnswers \/ CloseThread
    <2>1. UNCHANGED <<vars, list, more, cursor, up>>
      BY <1>5 DEF OpenOther, OtherAnswers, CloseThread, store
    <2>2. BaseInv'
      BY <1>1, <2>1, BaseStep
    <2>3. UNCHANGED <<msgs, h, wire>>
      BY <2>1 DEF vars, rows, sockets
    <2> QED
      BY <1>2, <1>3, <2>1, <2>2, <2>3, HandlersKept
  <1>6. CASE LeaveChats
    <2>1. UNCHANGED <<rows, sockets, h, faults, list, more, cursor, up>> /\ moves' = moves + 1
      BY <1>6 DEF LeaveChats, store
    <2>2. BaseInv'
      BY <1>1, <2>1, QuietBase DEF sockets, BaseInv, TypeOK, NamesStored
    <2>3. UNCHANGED <<msgs, h, wire>>
      BY <2>1 DEF rows, sockets
    <2> QED
      BY <1>2, <1>3, <2>1, <2>2, <2>3, HandlersKept
  <1>7. CASE SocketConnects
    <2>1. /\ Connect(Me) /\ UNCHANGED <<list, more, cursor>>
          /\ up' = IF known THEN <<[kind |-> "join", id |-> 0]>> ELSE <<>>
      BY <1>7 DEF SocketConnects, store
    <2>2. BaseInv'
      BY <1>1, <2>1, BaseStep, MeFacts DEF Next
    <2>3. UNCHANGED <<msgs, h, wire>>
      BY <2>1 DEF Connect, rows
    <2>4. UpFine
      <3> DEFINE e == [kind |-> "join", id |-> 0]
      <3>1. e \in [kind : {"join", "read"}, id : Nat] /\ e.kind # "read" /\ up' \in {<<e>>, <<>>}
        BY <2>1
      <3> HIDE DEF e
      <3>2. CASE up' = <<e>>
        BY <3>1, <3>2
      <3>3. CASE up' = <<>>
        BY <3>3
      <3> QED
        BY <3>1, <3>2, <3>3
    <2> QED
      BY <1>3, <2>1, <2>2, <2>3, <2>4, HandlersKept
  <1>8. CASE SocketDrops
    <2>1. Disconnect(Me) /\ UNCHANGED <<list, more, cursor>> /\ up' = <<>>
      BY <1>8 DEF SocketDrops, store
    <2>2. BaseInv'
      BY <1>1, <2>1, BaseStep, MeFacts DEF Next
    <2>3. UNCHANGED <<msgs, h>> /\ wire'[Me] = <<>>
      BY <1>1, <2>1, MeFacts DEF Disconnect, rows, TypeOK
    <2>4. UpFine
      BY <2>1
    <2> QED
      BY <2>1, <2>2, <2>3, <2>4, HandlersKept
  <1> QED
    BY <1>4, <1>5, <1>6, <1>7, <1>8 DEF Looks

(* The client takes an answer: a page goes behind the list it was fetched for. *)
LEMMA TakesFacts ==
    ASSUME BaseInv, ClientOK, NEW s \in Slot, Takes(s)
    PROVE  /\ h[s].pc \in {"answered", "failed"} /\ h[s] \in Handler /\ Free(s)
           /\ Stays(s) /\ h'[s] = Idle /\ BaseInv'
           /\ UNCHANGED <<msgs, wire>>
  <1>1. TypeOK /\ NamesStored
    BY DEF BaseInv
  <1>2. Free(s) /\ h[s].pc \in {"answered", "failed"} /\ UNCHANGED <<rows, sockets, bounds>>
    BY DEF Takes, TakePage, TakeList, TakeSent, TakeFailure, Answered, At
  <1>3. /\ Stays(s) /\ h' \in [Slot -> Handler \cup {Idle}] /\ h'[s] = Idle
    BY <1>1, <1>2, FreeFacts
  <1>4. h[s] \in Handler
    BY <1>1, <1>2, HandlerFacts
  <1>5. \A t \in Slot : Names(h'[t], Len(msgs))
    <2>1. Names(Idle, Len(msgs))
      BY DEF Names, Idle
    <2> QED
      BY <1>1, <1>3, <2>1 DEF NamesStored, Stays
  <1> QED
    BY <1>1, <1>2, <1>3, <1>4, <1>5, QuietBase DEF rows, sockets, bounds, TypeOK

(* A page behind a list. *)
Joins(q, l, p) ==
    /\ Len(l) \in Nat /\ Len(p) \in Nat
    /\ DOMAIN l = 1..Len(l) /\ DOMAIN p = 1..Len(p) /\ DOMAIN q = 1..(Len(l) + Len(p))
    /\ \A i \in 1..Len(l) : q[i] = l[i]
    /\ \A i \in 1..(Len(l) + Len(p)) : i > Len(l) => i - Len(l) \in 1..Len(p) /\ q[i] = p[i - Len(l)]

(* ChatClient appends with \o: the places of both, in their order. *)
LEMMA JoinFacts ==
    ASSUME NEW S, NEW l \in Seq(S), NEW p \in Seq(S)
    PROVE  l \o p \in Seq(S) /\ Joins(l \o p, l, p)
  <1>1. /\ l \o p \in Seq(S) /\ Len(l \o p) = Len(l) + Len(p)
        /\ \A i \in 1..(Len(l) + Len(p)) : (l \o p)[i] = IF i <= Len(l) THEN l[i] ELSE p[i - Len(l)]
    BY ConcatProperties
  <1>2. Len(l) \in Nat /\ Len(p) \in Nat /\ DOMAIN l = 1..Len(l) /\ DOMAIN p = 1..Len(p)
    OBVIOUS
  <1>3. DOMAIN (l \o p) = 1..(Len(l) + Len(p))
    BY <1>1
  <1> DEFINE q == l \o p
  <1> HIDE DEF q
  <1>4. /\ \A i \in 1..(Len(l) + Len(p)) : q[i] = IF i <= Len(l) THEN l[i] ELSE p[i - Len(l)]
        /\ DOMAIN q = 1..(Len(l) + Len(p))
    BY <1>1, <1>3 DEF q
  <1>5. Joins(q, l, p)
    BY <1>2, <1>4 DEF Joins
  <1> QED
    BY <1>1, <1>5 DEF q

LEMMA JoinMembers ==
    ASSUME NEW q, NEW l, NEW p, Joins(q, l, p), NEW i \in DOMAIN q
    PROVE  (\E j \in DOMAIN l : q[i] = l[j]) \/ \E j \in DOMAIN p : q[i] = p[j]
  BY DEF Joins

LEMMA JoinDistinct ==
    ASSUME NEW q, NEW l, NEW p, Joins(q, l, p), Distinct(l), Distinct(p), Disjoint(l, p)
    PROVE  Distinct(q)
  <1> DEFINE n == Len(l)
  <1>1. n \in Nat /\ Len(p) \in Nat /\ DOMAIN q = 1..(n + Len(p))
    BY DEF Joins
  <1>2. ASSUME NEW i \in DOMAIN q
        PROVE  /\ i \in Int
               /\ i <= n => i \in DOMAIN l /\ q[i] = l[i]
               /\ i > n => i - n \in DOMAIN p /\ q[i] = p[i - n]
    BY DEF Joins
  <1> HIDE DEF n
  <1>3. SUFFICES ASSUME NEW i \in DOMAIN q, NEW j \in DOMAIN q, q[i].id = q[j].id
                 PROVE  i = j
    BY DEF Distinct
  <1>4. CASE i <= n /\ j <= n
    BY <1>2, <1>3, <1>4 DEF Distinct
  <1>5. CASE i > n /\ j > n
    <2>1. i - n = j - n
      BY <1>2, <1>3, <1>5 DEF Distinct
    <2> QED
      BY <1>1, <1>2, <2>1
  <1>6. CASE i <= n /\ j > n
    BY <1>2, <1>3, <1>6 DEF Disjoint
  <1>7. CASE i > n /\ j <= n
    BY <1>2, <1>3, <1>7 DEF Disjoint
  <1> QED
    BY <1>1, <1>2, <1>4, <1>5, <1>6, <1>7

LEMMA TakesKeep ==
    ASSUME OnceInv, DesktopNext, Unseen = {}, NEW s \in Slot, Takes(s)
    PROVE  OnceInv'
  <1> DEFINE UpFine == /\ up' \in Seq([kind : {"join", "read"}, id : Nat])
                       /\ \A i \in DOMAIN up' : up'[i].kind = "read" => up'[i].id \in Id
  <1>1. /\ BaseInv /\ TypeOK /\ NamesStored /\ ClientOK /\ InOrder /\ OneUnseen /\ IsFiniteSet(Fetches)
    BY DEF OnceInv, Orderly, BaseInv
  <1>2. /\ h[s].pc \in {"answered", "failed"} /\ h[s] \in Handler
        /\ \A t \in Slot : t # s => h'[t] = h[t]
        /\ Stays(s) /\ h'[s] = Idle /\ BaseInv' /\ UNCHANGED <<msgs, wire>>
    BY <1>1, TakesFacts DEF Stays
  <1>3. InOrder' /\ OneUnseen' /\ IsFiniteSet(Fetches')
    BY <1>1, <1>2, FetchesFinite DEF InOrder, Id, OneUnseen, Unseen, Pauses, Idle
  <1>4. ASSUME list' \in Seq(Entry), \A i \in DOMAIN list' : list'[i].id \in Id,
               more' \in BOOLEAN, cursor' \in Nat, UpFine
        PROVE  ClientOK'
    <2>1. \A t \in Slot : \A i \in DOMAIN h'[t].items : h'[t].items[i].id \in Id
      <3>1. DOMAIN h'[s].items = {}
        BY <1>2 DEF Idle
      <3>2. \A t \in Slot : t # s => \A i \in DOMAIN h'[t].items : h'[t].items[i].id \in Id
        BY <1>1, <1>2 DEF ClientOK
      <3> QED
        BY <3>1, <3>2
    <2> QED
      BY <1>1, <1>2, <1>4, <2>1 DEF ClientOK, Id
  <1>5. \A t \in Slot : Pending(t)' => Pending(t) /\ h'[t].id = h[t].id
    BY <1>2 DEF Pending, Idle
  <1>6. \A t \in Fetches' : t \in Fetches /\ h'[t] = h[t]
    BY <1>2 DEF Fetches, Idle
  <1>7. \A i \in DOMAIN wire'[Me] : \E j \in DOMAIN wire[Me] : wire'[Me][i] = wire[Me][j]
    BY <1>2
  <1>8. "once" \notin excused' => Once /\ (Fetches' # {} => ~OnItsWay')
    BY ExcuseFacts DEF OnceInv
  <1>9. CASE TakeList(s) \/ TakeFailure(s)
    <2>1. UNCHANGED <<list, more, cursor>>
      BY <1>9 DEF TakeList, TakeFailure, store
    <2>2. UpFine
      <3>1. CASE up' = Append(up, [kind |-> "join", id |-> 0])
        <4> DEFINE e == [kind |-> "join", id |-> 0]
        <4>1. e \in [kind : {"join", "read"}, id : Nat] /\ e.kind # "read" /\ up' = Append(up, e)
          BY <3>1
        <4> HIDE DEF e
        <4> QED
          BY <1>1, <4>1, EmitsOK DEF ClientOK
      <3>2. CASE up' = up
        BY <1>1, <3>2 DEF ClientOK
      <3> QED
        BY <1>9, <3>1, <3>2 DEF TakeList, TakeFailure
    <2>3. ClientOK'
      BY <1>1, <1>4, <2>1, <2>2 DEF ClientOK
    <2>4. ASSUME "once" \notin excused' PROVE Once'
      <3>1. \A t, v \in Fetches' : t = v
        BY <1>6, <1>8, <2>4 DEF Once
      <3> QED
        BY <1>2, <1>5, <1>6, <1>7, <1>8, <2>1, <2>4, <3>1, ListKept
    <2> QED
      BY <1>1, <1>2, <1>3, <2>3, <2>4 DEF OnceInv, Orderly
  <1>10. CASE TakeSent(s)
    <2> DEFINE m == [id |-> h[s].id, text |-> 0]
    <2>1. /\ h[s].op = "create" /\ h[s].pc = "answered" /\ h[s].sock = Me
          /\ ShowList(AddMessage(m), badge) /\ UNCHANGED <<more, cursor>>
      BY <1>10 DEF TakeSent, Answered, At
    <2>2. h[s].id \in Id /\ m.id = h[s].id /\ m \in Entry
      <3>1. h[s].id \in Id
        BY <1>1, <1>2, <2>1 DEF NamesStored, Names, Id
      <3>2. h[s].id \in Nat
        BY <1>1, <3>1 DEF Id, TypeOK
      <3> QED
        BY <3>1, <3>2 DEF Entry
    <2> HIDE DEF m
    <2>3. /\ AddMessage(m) \in Seq(Entry)
          /\ \A i \in DOMAIN AddMessage(m) : \/ AddMessage(m)[i].id = m.id
                                             \/ \E j \in DOMAIN list : AddMessage(m)[i].id = list[j].id
          /\ Distinct(list) => Distinct(AddMessage(m))
      BY <1>1, <2>2, AddMessageFacts
    <2>4. \A i \in DOMAIN AddMessage(m) : AddMessage(m)[i].id \in Id
      BY <1>1, <2>2, <2>3 DEF ClientOK
    <2>5. list' = AddMessage(m) /\ UpFine
      BY <1>1, <2>1, <2>3, <2>4, ShowListOK
    <2>6. ClientOK'
      BY <1>1, <1>4, <2>1, <2>3, <2>4, <2>5 DEF ClientOK
    <2>7. ASSUME "once" \notin excused' PROVE Once'
      <3>1. Fetches' = {}
        <4>1. At(s, "create", "answered") /\ s \in Writes
          BY <2>1 DEF At, Writes
        <4>2. OnItsWay
          BY <4>1 DEF OnItsWay
        <4> QED
          BY <1>6, <1>8, <2>7, <4>2 DEF Once
      <3>2. Distinct(list)'
        BY <1>8, <2>3, <2>5, <2>7 DEF Once, Distinct
      <3>3. more => cursor <= msgs[m.id].at
        BY <1>8, <2>1, <2>2, <2>7 DEF Once, CursorOK, Pending
      <3>4. \A i \in DOMAIN list' : \/ \E j \in DOMAIN list : list'[i].id = list[j].id
                                    \/ more => cursor <= msgs[list'[i].id].at
        BY <2>3, <2>5, <3>3
      <3> QED
        BY <1>2, <1>5, <1>7, <1>8, <2>1, <2>7, <3>1, <3>2, <3>4, ListChanged
    <2> QED
      BY <1>1, <1>2, <1>3, <2>6, <2>7 DEF OnceInv, Orderly
  <1>11. CASE TakePage(s)
    <2> DEFINE p == h[s].items
               q == list \o p
    <2>1. /\ h[s].op = "page" /\ h[s].pc = "answered" /\ h[s].sock = Me
          /\ ShowList(q, badge) /\ more' = h[s].more /\ cursor' = h[s].next
      BY <1>11 DEF TakePage, Answered, At
    <2>2. /\ p \in Seq(Entry) /\ list \in Seq(Entry) /\ h[s].more \in BOOLEAN /\ h[s].next \in Nat
          /\ \A i \in DOMAIN p : p[i].id \in Id
          /\ \A i \in DOMAIN list : list[i].id \in Id
      BY <1>1, <1>2 DEF ClientOK, Handler, Entry
    <2>3. q \in Seq(Entry) /\ Joins(q, list, p)
      BY <2>2, JoinFacts
    <2> HIDE DEF q
    <2>4. \A i \in DOMAIN q : \/ \E j \in DOMAIN list : q[i] = list[j]
                              \/ \E j \in DOMAIN p : q[i] = p[j]
      BY <2>3, JoinMembers
    <2>5. \A i \in DOMAIN q : q[i].id \in Id
      BY <2>2, <2>4
    <2>6. list' = q /\ UpFine
      BY <1>1, <2>1, <2>3, <2>5, ShowListOK
    <2>7. ClientOK'
      BY <1>1, <1>4, <2>1, <2>2, <2>3, <2>5, <2>6
    <2>8. ASSUME "once" \notin excused' PROVE Once'
      <3>1. s \in Fetches /\ FetchOK(s) /\ Once /\ ~OnItsWay
        BY <1>8, <2>1, <2>8 DEF Once, Fetches
      <3>2. Fetches' = {}
        BY <1>2, <1>6, <3>1 DEF Once, Fetches, Idle
      <3>3. Distinct(list) /\ Distinct(p) /\ Disjoint(list, p)
        BY <2>1, <3>1 DEF Once, FetchOK
      <3>4. Distinct(q)
        BY <2>2, <2>3, <3>3, JoinDistinct
      <3>5. ASSUME h[s].more
            PROVE  /\ Reached(h[s].next) /\ \A i \in DOMAIN q : h[s].next <= msgs[q[i].id].at
        <4>1. Reached(h[s].next) /\ NotBefore(list, h[s].next) /\ NotBefore(p, h[s].next)
          BY <2>1, <3>1, <3>5 DEF FetchOK
        <4> QED
          BY <2>4, <4>1 DEF NotBefore
      <3>6. wire'[Me] = <<>>
        BY <1>2, <3>1 DEF OnItsWay
      <3>7. \A t \in Slot : ~Pending(t)'
        <4> SUFFICES ASSUME NEW t \in Slot, Pending(t) PROVE FALSE
          BY <1>5
        <4>1. h[t].pc \in {"push", "answered"}
          BY DEF Unseen, Pauses, Pending
        <4> QED
          BY <3>1, <4>1 DEF Pending, OnItsWay, Pushing, Writes, At
      <3>8. CursorOK'
        BY <1>2, <2>1, <2>6, <3>5, <3>6, <3>7 DEF CursorOK, Reached, NotBefore, Id
      <3> QED
        BY <2>6, <3>2, <3>4, <3>8 DEF Once, Distinct
    <2> QED
      BY <1>1, <1>2, <1>3, <2>7, <2>8 DEF OnceInv, Orderly
  <1> QED
    BY <1>9, <1>10, <1>11 DEF Takes

LEMMA OnceInit == MCInit => OnceInv
  <1> SUFFICES ASSUME MCInit PROVE OnceInv
    OBVIOUS
  <1>1. Init /\ list = <<>> /\ more = FALSE /\ cursor = 0 /\ up = <<>>
    BY DEF MCInit, ClientInit
  <1>2. /\ msgs = <<>> /\ wire[Me] = <<>> /\ \A s \in Slot : h[s] = Idle
    BY <1>1, MeFacts DEF Init
  <1>3. Fetches = {} /\ Unseen = {} /\ \A s \in Slot : h[s].items = <<>>
    BY <1>2 DEF Fetches, Unseen, Pauses, Idle
  <1>4. ClientOK
    <2>1. <<>> \in Seq(Entry) /\ <<>> \in Seq([kind : {"join", "read"}, id : Nat])
      OBVIOUS
    <2>2. DOMAIN list = {} /\ DOMAIN up = {} /\ DOMAIN wire[Me] = {}
      BY <1>1, <1>2
    <2>3. \A s \in Slot : DOMAIN h[s].items = {}
      BY <1>3
    <2> QED
      BY <1>1, <2>1, <2>2, <2>3 DEF ClientOK
  <1>5. InOrder
    BY <1>2 DEF InOrder, Id
  <1>6. Once
    BY <1>1, <1>3 DEF Once, CursorOK, Distinct
  <1> QED
    BY <1>1, <1>3, <1>4, <1>5, <1>6, BaseInit, FS_EmptySet DEF OnceInv, Orderly, OneUnseen

LEMMA OnceStep == OnceInv /\ [DesktopNext]_mcVars => OnceInv'
  <1> SUFFICES ASSUME OnceInv, [DesktopNext]_mcVars PROVE OnceInv'
    OBVIOUS
  <1>1. CASE DesktopNext
    BY <1>1, RunCases, WorksKeep, BeginsKeep, TakesKeep, EventsKeep, QuietKeep
  <1>2. CASE UNCHANGED mcVars
    <2>1. UNCHANGED <<vars, list, more, cursor, up, excused>>
      BY <1>2 DEF mcVars, allVars, client, store
    <2>2. BaseInv'
      BY <2>1, BaseStep DEF OnceInv, Orderly
    <2>3. UNCHANGED <<msgs, h, wire>>
      BY <2>1 DEF vars, rows, sockets
    <2>4. ClientOK' /\ InOrder' /\ OneUnseen' /\ IsFiniteSet(Fetches')
      BY <2>1, <2>3 DEF OnceInv, Orderly, ClientOK, InOrder, OneUnseen, Unseen, Pauses, Fetches, Id
    <2>5. Once => Once'
      BY <2>1, <2>3 DEF Once, CursorOK, FetchOK, OnItsWay, Pushing, Writes, Fetches, Pending, Distinct, Disjoint,
                        NotBefore, Reached, Id, At
    <2> QED
      BY <2>1, <2>2, <2>4, <2>5 DEF OnceInv, Orderly
  <1> QED
    BY <1>1, <1>2

(* useChatSocket, chatStore and the cursor of findByConverse: a message is shown *)
(* once, however its push, the answer to its author, deletions, drops and any    *)
(* number of pages follow each other, until a page meets a push or another page. *)
THEOREM ShownOnlyOnce == DesktopSpec => []ShownOnce
  <1>1. OnceInv => ShownOnce
    BY DEF OnceInv, Once, Distinct, ShownOnce
  <1> QED
    BY <1>1, OnceInit, OnceStep, PTL DEF DesktopSpec

(* The same of the specification the run checks. *)
THEOREM RunShowsOnce == MCSpec => []ShownOnce
  <1>1. OnceInv => ShownOnce
    BY DEF OnceInv, Once, Distinct, ShownOnce
  <1>2. [MCNext]_mcVars => [DesktopNext]_mcVars
    BY DEF MCNext
  <1> QED
    BY <1>1, <1>2, OnceInit, OnceStep, PTL DEF MCSpec

-----------------------------------------------------------------------------
(* What a client is shown is current, its history complete, an open thread read. *)
Adds(e) ==
    LET n == Len(wire[Me])
    IN  /\ n \in Nat /\ DOMAIN wire[Me] = 1..n /\ DOMAIN wire'[Me] = 1..(n + 1)
        /\ \A i \in 1..n : wire'[Me][i] = wire[Me][i]
        /\ wire'[Me][n + 1] = e

Pops ==
    LET n == Len(wire[Me])
    IN  /\ n \in Nat \ {0} /\ DOMAIN wire[Me] = 1..n /\ DOMAIN wire'[Me] = 1..(n - 1)
        /\ \A i \in 1..(n - 1) : wire'[Me][i] = wire[Me][i + 1]

LEMMA AddsFacts ==
    ASSUME TypeOK, NEW e, wire'[Me] = Append(wire[Me], e)
    PROVE  Adds(e)
  <1> DEFINE q == wire[Me]
  <1>1. q \in Seq(PushedEvent)
    BY MeFacts DEF TypeOK
  <1> HIDE DEF q
  <1>2. /\ Len(q) \in Nat /\ DOMAIN q = 1..Len(q) /\ DOMAIN Append(q, e) = 1..(Len(q) + 1)
        /\ \A i \in 1..Len(q) : Append(q, e)[i] = q[i]
        /\ Append(q, e)[Len(q) + 1] = e
    BY <1>1
  <1> QED
    BY <1>2 DEF q, Adds

LEMMA PopsFacts ==
    ASSUME TypeOK, wire[Me] # <<>>, Took(Me)
    PROVE  Pops
  <1> DEFINE q == wire[Me]
  <1>1. q \in Seq(PushedEvent) /\ q # <<>> /\ wire'[Me] = Tail(q)
    BY MeFacts DEF TypeOK, Took
  <1> HIDE DEF q
  <1>2. /\ Len(q) \in Nat \ {0} /\ DOMAIN q = 1..Len(q) /\ DOMAIN Tail(q) = 1..(Len(q) - 1)
        /\ \A i \in 1..(Len(q) - 1) : Tail(q)[i] = q[i + 1]
    BY <1>1
  <1> QED
    BY <1>1, <1>2 DEF q, Pops

(* What reaches the wire of this client. *)
Tells(kind, id, text) == Adds([kind |-> kind, id |-> id, text |-> text])

LEMMA EmitTells ==
    ASSUME TypeOK, NEW to, NEW kind, NEW id, Emit(to, kind, id)
    PROVE  IF Me \in to THEN Tells(kind, id, msgs[id].text) ELSE wire'[Me] = wire[Me]
  <1> DEFINE e == [kind |-> kind, id |-> id, text |-> msgs[id].text]
  <1>1. wire' = [c \in Socket |-> IF c \in to THEN Append(wire[c], e) ELSE wire[c]]
    BY DEF Emit
  <1> HIDE DEF e
  <1>2. wire'[Me] = IF Me \in to THEN Append(wire[Me], e) ELSE wire[Me]
    BY <1>1, MeFacts
  <1>3. CASE Me \in to
    BY <1>2, <1>3, AddsFacts DEF Tells, e
  <1> QED
    BY <1>2, <1>3

LEMMA PushTells ==
    ASSUME TypeOK, NEW s \in Slot
    PROVE  /\ PushNew(s) => IF Me \in room THEN Tells("new", h[s].id, msgs[h[s].id].text)
                                           ELSE wire'[Me] = wire[Me]
           /\ PushDeleted(s) => IF Me \in room THEN Tells("deleted", h[s].id, msgs[h[s].id].text)
                                               ELSE wire'[Me] = wire[Me]
           /\ PushEdit(s) => IF Me \in room THEN Tells("updated", h[s].id, h[s].cur)
                                            ELSE wire'[Me] = wire[Me]
           /\ NotifyOthers(s) => \/ wire'[Me] = wire[Me]
                                 \/ Tells("notify", h[s].id, msgs[h[s].id].text)
  <1>1. ASSUME PushEdit(s)
        PROVE  IF Me \in room THEN Tells("updated", h[s].id, h[s].cur) ELSE wire'[Me] = wire[Me]
    <2> DEFINE e == [kind |-> "updated", id |-> h[s].id, text |-> h[s].cur]
    <2>1. wire' = [c \in Socket |-> IF c \in room THEN Append(wire[c], e) ELSE wire[c]]
      BY <1>1 DEF PushEdit
    <2> HIDE DEF e
    <2>2. wire'[Me] = IF Me \in room THEN Append(wire[Me], e) ELSE wire[Me]
      BY <2>1, MeFacts
    <2>3. CASE Me \in room
      BY <2>2, <2>3, AddsFacts DEF Tells, e
    <2> QED
      BY <2>2, <2>3
  <1>2. ASSUME NotifyOthers(s)
        PROVE  wire'[Me] = wire[Me] \/ Tells("notify", h[s].id, msgs[h[s].id].text)
    <2>1. PICK to : Emit(to, "notify", h[s].id)
      BY <1>2 DEF NotifyOthers
    <2> QED
      BY <2>1, EmitTells
  <1>3. PushNew(s) => Emit(room, "new", h[s].id)
    BY DEF PushNew
  <1>4. PushDeleted(s) => Emit(room, "deleted", h[s].id)
    BY DEF PushDeleted
  <1> QED
    BY <1>1, <1>2, <1>3, <1>4, EmitTells

(* The steps of handlers that neither write messages nor push. *)
Calm(s) == TouchMembers(s) \/ FindPage(s) \/ ListCounts(s) \/ ReadMessage(s) \/ WriteSeen(s) \/ JoinRoom(s)
Emits(s) == PushNew(s) \/ NotifyOthers(s) \/ PushEdit(s) \/ PushDeleted(s)

LEMMA ContinueCases ==
    ASSUME NEW s \in Slot, Continue(s)
    PROVE  InsertMessage(s) \/ WriteEdit(s) \/ WriteDelete(s) \/ Emits(s) \/ Calm(s)
  BY DEF Continue, Emits, Calm

LEMMA CalmFacts ==
    ASSUME NEW s \in Slot, Calm(s)
    PROVE  UNCHANGED <<msgs, wire>> /\ (At(s, "create", "touch") \/ h[s].op \in {"page", "list", "read", "join"})
  BY DEF Calm, TouchMembers, FindPage, ListCounts, ReadMessage, WriteSeen, JoinRoom, rows, sockets, At

(* What is pushed to this client. *)
LEMMA WireStep ==
    ASSUME TypeOK, NEW s \in Slot, Continue(s) \/ Fail(s)
    PROVE  \/ wire'[Me] = wire[Me] /\ (PushNew(s) \/ PushEdit(s) \/ PushDeleted(s) => Me \notin room)
           \/ PushNew(s) /\ Me \in room /\ Tells("new", h[s].id, msgs[h[s].id].text)
           \/ PushDeleted(s) /\ Me \in room /\ Tells("deleted", h[s].id, msgs[h[s].id].text)
           \/ PushEdit(s) /\ Me \in room /\ Tells("updated", h[s].id, h[s].cur)
           \/ NotifyOthers(s) /\ Tells("notify", h[s].id, msgs[h[s].id].text)
  <1> DEFINE Pushes == PushNew(s) \/ PushEdit(s) \/ PushDeleted(s)
  <1>1. CASE Pushes
    BY <1>1, PushTells
  <1>2. CASE NotifyOthers(s)
    <2>1. ~Pushes
      BY <1>2 DEF NotifyOthers, PushNew, PushEdit, PushDeleted, At
    <2> QED
      BY <1>2, <2>1, PushTells
  <1>3. CASE ~Pushes /\ ~NotifyOthers(s)
    <2>1. wire' = wire
      BY <1>3 DEF Continue, Fail, InsertMessage, WriteEdit, WriteDelete, TouchMembers, FindPage, ListCounts,
                  ReadMessage, WriteSeen, JoinRoom, sockets
    <2> QED
      BY <1>3, <2>1
  <1> QED
    BY <1>1, <1>2, <1>3

LEMMA RoomStep ==
    ASSUME NEW s \in Slot, Continue(s) \/ Fail(s)
    PROVE  room \subseteq room' /\ member' = member /\ online' = online
  BY DEF Continue, Fail, InsertMessage, WriteEdit, WriteDelete, TouchMembers, FindPage, ListCounts, ReadMessage,
         WriteSeen, JoinRoom, PushNew, NotifyOthers, PushEdit, PushDeleted, sockets, rows

(* A handler comes to its push by the write before. *)
LEMMA PushStep ==
    ASSUME BaseInv, NEW s \in Slot, Continue(s) \/ Fail(s), h'[s].pc = "push"
    PROVE  /\ h'[s].op = "create" => TouchMembers(s)
           /\ h'[s].op = "edit" => WriteEdit(s)
           /\ h'[s].op = "delete" => WriteDelete(s)
  <1>1. h[s] \in Handler /\ Follows(s) /\ TypeOK
    BY WorksFacts DEF BaseInv
  <1>2. h'[s].op = h[s].op /\ h'[s] # Idle
    BY <1>1 DEF Follows, Idle
  <1>3. ~Return(s) /\ ~Throw(s)
    <2>1. Free(s) => h'[s] = Idle
      BY <1>1, FreeFacts
    <2>2. ASSUME NEW pc \in {"answered", "failed"}, Goto(s, pc) PROVE FALSE
      <3>1. h'[s] = [h[s] EXCEPT !.pc = pc]
        BY <1>1, <2>2 DEF Goto, TypeOK
      <3>2. h'[s].pc = pc
        BY <1>1, <3>1 DEF Handler
      <3> QED
        BY <3>2
    <2> QED
      BY <1>2, <2>1, <2>2 DEF Return, Throw
  <1>4. Continue(s) /\ (h[s].op = "create" => h[s].pc \in {"touch", "notify"})
    BY <1>1, <1>2, <1>3 DEF Fail, Follows
  <1> QED
    BY <1>2, <1>3, <1>4 DEF Continue, InsertMessage, WriteEdit, WriteDelete, TouchMembers, FindPage, ListCounts,
       ReadMessage, WriteSeen, JoinRoom, PushNew, NotifyOthers, PushEdit, PushDeleted, At

(* Message:read comes from this client only. *)
ReaderOK(s) ==
    h[s].op = "read" =>
        /\ h[s].user = me /\ h[s].sock = Me /\ h[s].pc \in {"message", "write"}
        /\ h[s].pc = "write" /\ h[s].cur # 0 => msgs[h[s].cur].at < msgs[h[s].id].at

OnlyNotified == \A i \in DOMAIN wire[Me] : wire[Me][i].kind = "notify"

ServerOK ==
    /\ member = User
    /\ Me \notin room => OnlyNotified
    /\ \A i \in DOMAIN wire[Me] : wire[Me][i].kind = "deleted" => msgs[wire[Me][i].id].deleted
    /\ \A s \in Slot : At(s, "delete", "push") => msgs[h[s].id].deleted
    /\ \A s \in Slot : Pending(s) => msgs[h[s].id].author = h[s].user
    /\ \A s \in Slot : h[s].op = "create" /\ h[s].sock = Me => h[s].user = me
    /\ \A s \in Slot : ReaderOK(s)

LEMMA ReaderStep ==
    ASSUME BaseInv, NEW s \in Slot, Continue(s) \/ Fail(s), ReaderOK(s)
    PROVE  ReaderOK(s)'
  <1> SUFFICES ASSUME h'[s].op = "read" PROVE ReaderOK(s)'
    BY DEF ReaderOK
  <1>1. h[s] \in Handler /\ Follows(s) /\ TypeOK /\ h[s].pc # "idle"
    BY WorksFacts, HandlerFacts DEF BaseInv
  <1>2. /\ h[s].op = "read" /\ h'[s].user = h[s].user /\ h'[s].sock = h[s].sock
        /\ h'[s].cur = h[s].cur /\ h'[s] # Idle
    BY <1>1 DEF Follows, Idle
  <1>3. ~Return(s) /\ ~Throw(s)
    BY <1>1, <1>2, FreeFacts DEF Return, Throw
  <1>4. ReadMessage(s) /\ Goto(s, "write")
    BY <1>2, <1>3 DEF Continue, Fail, InsertMessage, WriteEdit, WriteDelete, TouchMembers, FindPage, ListCounts,
       ReadMessage, WriteSeen, JoinRoom, PushNew, NotifyOthers, PushEdit, PushDeleted, At
  <1>5. /\ UNCHANGED <<msgs, seen>>
        /\ h[s].cur # 0 => msgs[h[s].cur].at < msgs[h[s].id].at
    BY <1>3, <1>4 DEF ReadMessage, rows
  <1>6. h'[s].pc = "write" /\ h'[s].id = h[s].id
    <2>1. h'[s] = [h[s] EXCEPT !.pc = "write"]
      BY <1>1, <1>4, GotoFacts
    <2> QED
      BY <1>1, <2>1 DEF Handler
  <1> QED
    BY <1>2, <1>5, <1>6 DEF ReaderOK

LEMMA WorksServer ==
    ASSUME Orderly, ServerOK, NEW s \in Slot, Continue(s) \/ Fail(s), Unseen = {} \/ s \in Unseen
    PROVE  ServerOK'
  <1>1. BaseInv /\ TypeOK /\ ClientOK /\ OneUnseen /\ Next /\ NamesStored
    BY DEF Orderly, BaseInv, Next
  <1>2. h[s] \in Handler /\ Follows(s) /\ \A t \in Slot : t # s => h'[t] = h[t]
    BY <1>1, WorksFacts DEF Stays
  <1>3. room \subseteq room' /\ member' = member
    BY RoomStep
  <1>4. \A i \in Id : /\ msgs'[i].author = msgs[i].author
                      /\ msgs[i].deleted => msgs'[i].deleted
    BY <1>1, MessagesGrow DEF Grows
  <1>5. Me \notin room' => OnlyNotified'
    <2> SUFFICES ASSUME Me \notin room', NEW i \in DOMAIN wire'[Me] PROVE wire'[Me][i].kind = "notify"
      BY DEF OnlyNotified
    <2>1. \A j \in DOMAIN wire[Me] : wire[Me][j].kind = "notify"
      BY <1>3 DEF ServerOK, OnlyNotified
    <2>2. CASE wire'[Me] = wire[Me]
      BY <2>1, <2>2
    <2>3. CASE Tells("notify", h[s].id, msgs[h[s].id].text)
      BY <2>1, <2>3 DEF Tells, Adds
    <2> QED
      BY <1>1, <1>3, <2>2, <2>3, WireStep
  <1>6. ASSUME NEW i \in DOMAIN wire'[Me], wire'[Me][i].kind = "deleted"
        PROVE  msgs'[wire'[Me][i].id].deleted
    <2>1. \A j \in DOMAIN wire[Me] :
             wire[Me][j].id \in Id /\ (wire[Me][j].kind = "deleted" => msgs[wire[Me][j].id].deleted)
      BY <1>1 DEF ServerOK, ClientOK
    <2>2. CASE wire'[Me] = wire[Me]
      BY <1>4, <1>6, <2>1, <2>2
    <2>3. CASE \E kind, text : kind # "deleted" /\ Tells(kind, h[s].id, text)
      BY <1>4, <1>6, <2>1, <2>3 DEF Tells, Adds
    <2>4. CASE PushDeleted(s) /\ Tells("deleted", h[s].id, msgs[h[s].id].text)
      <3>1. msgs[h[s].id].deleted /\ msgs' = msgs
        BY <2>4 DEF PushDeleted, ServerOK, rows
      <3> QED
        BY <1>4, <1>6, <2>1, <2>4, <3>1 DEF Tells, Adds
    <2> QED
      BY <1>1, <2>2, <2>3, <2>4, WireStep
  <1>7. ASSUME NEW t \in Slot, At(t, "delete", "push")' PROVE msgs'[h'[t].id].deleted
    <2>1. CASE t = s
      BY <1>1, <1>7, <2>1, PushStep, WriteDeleteFacts DEF At
    <2>2. CASE t # s
      <3>1. At(t, "delete", "push") /\ h'[t] = h[t] /\ h[t].id \in Id
        BY <1>1, <1>2, <1>7, <2>2 DEF At, NamesStored, Names, Id
      <3> QED
        BY <1>4, <3>1 DEF ServerOK
    <2> QED
      BY <2>1, <2>2
  <1>8. ASSUME NEW t \in Slot, Pending(t)' PROVE msgs'[h'[t].id].author = h'[t].user
    <2>1. CASE t = s /\ InsertMessage(s)
      <3>1. h'[s].user = h[s].user
        BY <1>2, <1>8, <2>1 DEF Follows, Pending, Idle
      <3> QED
        BY <1>1, <2>1, <3>1, InsertFacts
    <2>2. CASE t # s \/ ~InsertMessage(s)
      <3>1. Pending(t) /\ h'[t].id = h[t].id /\ h'[t].user = h[t].user
        BY <1>1, <1>2, <1>8, <2>2, PendingWorks DEF Follows, Pending, Idle
      <3>2. h[t].id \in Id
        BY <1>1, <3>1 DEF Pending, NamesStored, Names, Id
      <3> QED
        BY <1>4, <3>1, <3>2 DEF ServerOK
    <2> QED
      BY <2>1, <2>2
  <1>9. ASSUME NEW t \in Slot, h'[t].op = "create" /\ h'[t].sock = Me PROVE h'[t].user = me
    BY <1>2, <1>9 DEF ServerOK, Follows, Idle
  <1>10. ASSUME NEW t \in Slot PROVE ReaderOK(t)'
    <2>1. CASE t = s
      BY <1>1, <2>1, ReaderStep DEF ServerOK
    <2>2. CASE t # s
      <3>1. h'[t] = h[t] /\ ReaderOK(t)
        BY <1>2, <2>2 DEF ServerOK
      <3>2. h[t].op = "read" => h[t].id \in Id /\ (h[t].cur # 0 => h[t].cur \in Id)
        BY <1>1 DEF NamesStored, Names, Id, TypeOK
      <3>3. \A i \in Id : msgs'[i].at = msgs[i].at
        BY <1>1, MessagesGrow DEF Grows
      <3> QED
        BY <3>1, <3>2, <3>3 DEF ReaderOK
    <2> QED
      BY <2>1, <2>2
  <1> QED
    BY <1>3, <1>5, <1>6, <1>7, <1>8, <1>9, <1>10 DEF ServerOK

(* What each handler is when it begins. *)
BegunAs(s) ==
    /\ h'[s].op = "create" => h'[s].pc = "insert" /\ (h'[s].sock = Me => h'[s].user = me)
    /\ h'[s].op \in {"edit", "delete"} => h'[s].pc = "write"
    /\ h'[s].op = "read" =>
         h'[s].pc = "message" /\ h'[s].user = me /\ h'[s].sock = Me /\ h'[s].cur = seen[me]
    /\ h'[s].op = "page" => h'[s].pc = "find" /\ h'[s].sock = Me

LEMMA OpenGives ==
    ASSUME TypeOK, NEW s \in Slot, NEW u, NEW c, NEW op, NEW pc, NEW id, NEW cur, Open(s, u, c, op, pc, id, cur)
    PROVE  /\ h'[s].op = op /\ h'[s].pc = pc /\ h'[s].user = u /\ h'[s].sock = c
           /\ h'[s].id = id /\ h'[s].cur = cur
  <1> DEFINE r == [Idle EXCEPT !.op = op, !.pc = pc, !.user = u, !.sock = c, !.id = id, !.cur = cur]
  <1>1. h' = [h EXCEPT ![s] = r]
    BY DEF Open
  <1>2. r.op = op /\ r.pc = pc /\ r.user = u /\ r.sock = c /\ r.id = id /\ r.cur = cur
    BY DEF Idle
  <1> HIDE DEF r
  <1> QED
    BY <1>1, <1>2 DEF TypeOK

LEMMA BeginsKinds ==
    ASSUME BaseInv, ClientOK, NEW s \in Slot, Begins(s)
    PROVE  BegunAs(s) /\ (loading' = loading \/ (loading' = s /\ s \in Fetches'))
  <1>1. TypeOK /\ Me # NoSocket /\ Me \in Socket \cup {NoSocket} /\ me \in User /\ seen[me] \in Nat /\ cursor \in Nat
    BY MeFacts DEF BaseInv, TypeOK, ClientOK
  <1>2. ASSUME NEW u \in User, CreateVerifies(s, u, NoSocket)
        PROVE  BegunAs(s)
    <2>1. Open(s, u, NoSocket, "create", "insert", 0, 0)
      BY <1>2 DEF CreateVerifies
    <2>2. h'[s].op = "create" /\ h'[s].pc = "insert" /\ h'[s].sock = NoSocket
      BY <1>1, <2>1, OpenGives
    <2> QED
      BY <1>1, <2>2 DEF BegunAs
  <1>3. ASSUME NEW u \in User, NEW op \in {"edit", "delete"}, NEW id \in Id, FindOwn(s, u, NoSocket, op, id)
        PROVE  BegunAs(s)
    <2>1. Open(s, u, NoSocket, op, "write", id, 0)
      BY <1>3 DEF FindOwn
    <2>2. h'[s].op = op /\ h'[s].pc = "write"
      BY <1>1, <2>1, OpenGives
    <2> QED
      BY <2>2 DEF BegunAs
  <1>4. ASSUME JoinVerifies(s, Me)
        PROVE  BegunAs(s)
    <2>1. Open(s, me, Me, "join", "join", 0, 0)
      BY <1>4 DEF JoinVerifies, me
    <2>2. h'[s].op = "join"
      BY <1>1, <2>1, OpenGives
    <2> QED
      BY <2>2 DEF BegunAs
  <1>5. ASSUME NEW id \in Nat, ReadRow(s, Me, id) PROVE BegunAs(s)
    <2>1. Open(s, me, Me, "read", "message", id, seen[me])
      BY <1>5 DEF ReadRow, me
    <2>2. /\ h'[s].op = "read" /\ h'[s].pc = "message" /\ h'[s].user = me /\ h'[s].sock = Me
          /\ h'[s].cur = seen[me]
      BY <1>1, <2>1, OpenGives
    <2> QED
      BY <2>2 DEF BegunAs
  <1>6. ASSUME NEW n \in Nat, PageVerifies(s, me, Me, n) PROVE BegunAs(s) /\ s \in Fetches'
    BY <1>1, <1>6, PageFacts DEF BegunAs, Fetches
  <1>7. CASE Asks(s) /\ UNCHANGED client
    <2>1. UNCHANGED loading
      BY <1>7 DEF client, screen
    <2>2. BegunAs(s)
      BY <1>2, <1>3, <1>7 DEF Asks
    <2> QED
      BY <2>1, <2>2
  <1>8. CASE EventArrives(s)
    <2>1. Head(up).id \in Nat
      <3> DEFINE S == [kind : {"join", "read"}, id : Nat]
      <3>1. up \in Seq(S) /\ up # <<>>
        BY <1>8 DEF ClientOK, EventArrives
      <3>2. \A e \in S : e.id \in Nat
        OBVIOUS
      <3> HIDE DEF S
      <3>3. Head(up) \in S
        BY <3>1
      <3> QED
        BY <3>2, <3>3
    <2>2. UNCHANGED loading /\ (JoinVerifies(s, Me) \/ ReadRow(s, Me, Head(up).id))
      BY <1>8 DEF EventArrives, screen
    <2> QED
      BY <1>4, <1>5, <2>1, <2>2
  <1>9. CASE OpenChats(s)
    <2>1. Open(s, me, Me, "list", "count", 0, seen[me]) /\ UNCHANGED loading
      BY <1>9 DEF OpenChats, ListReads
    <2>2. h'[s].op = "list"
      BY <1>1, <2>1, OpenGives
    <2> QED
      BY <2>1, <2>2 DEF BegunAs
  <1>10. CASE LoadOlder(s)
    <2>1. PageVerifies(s, me, Me, cursor) /\ loading' = s
      BY <1>10 DEF LoadOlder
    <2> QED
      BY <1>1, <1>6, <2>1
  <1>11. CASE Send(s)
    <2>1. Open(s, me, Me, "create", "insert", 0, 0) /\ UNCHANGED loading
      BY <1>11 DEF Send, CreateVerifies, client, screen
    <2>2. h'[s].op = "create" /\ h'[s].pc = "insert" /\ h'[s].user = me
      BY <1>1, <2>1, OpenGives
    <2> QED
      BY <2>1, <2>2 DEF BegunAs
  <1>12. CASE OpenThread(s) /\ Fetched(s)
    <2>1. BegunAs(s) /\ s \in Fetches'
      BY <1>1, <1>6, <1>12 DEF Fetched
    <2>2. loading' \in {loading, s}
      BY <1>12 DEF OpenThread
    <2> QED
      BY <2>1, <2>2
  <1> QED
    BY <1>7, <1>8, <1>9, <1>10, <1>11, <1>12 DEF Begins

(* A handler that begins with its first query, or ends. *)
Inert(r) ==
    /\ r.op = "create" => r.pc \notin {"touch", "push", "notify", "answered"}
    /\ r.op \in {"edit", "delete"} => r.pc # "push"

LEMMA ServerKept ==
    ASSUME ServerOK, UNCHANGED <<msgs, member, seen>>,
           wire'[Me] = wire[Me] \/ Pops \/ OnlyNotified', Me \notin room' => Me \notin room \/ OnlyNotified',
           \A t \in Slot : \/ h'[t] = h[t]
                           \/ /\ Inert(h'[t]) /\ ReaderOK(t)'
                              /\ (h'[t].op = "create" /\ h'[t].sock = Me => h'[t].user = me)
    PROVE  ServerOK'
  <1>1. wire'[Me] = wire[Me] \/ Pops =>
           \A i \in DOMAIN wire'[Me] : \E j \in DOMAIN wire[Me] : wire'[Me][i] = wire[Me][j]
    BY DEF Pops
  <1>2. Me \notin room' => OnlyNotified'
    BY <1>1 DEF ServerOK, OnlyNotified
  <1>3. \A i \in DOMAIN wire'[Me] : wire'[Me][i].kind = "deleted" => msgs'[wire'[Me][i].id].deleted
    BY <1>1 DEF ServerOK, OnlyNotified
  <1>4. \A t \in Slot : At(t, "delete", "push")' => msgs'[h'[t].id].deleted
    BY DEF ServerOK, Inert, At
  <1>5. \A t \in Slot : Pending(t)' => msgs'[h'[t].id].author = h'[t].user
    BY DEF ServerOK, Inert, Pending
  <1>6. \A t \in Slot : h'[t].op = "create" /\ h'[t].sock = Me => h'[t].user = me
    BY DEF ServerOK
  <1>7. \A t \in Slot : ReaderOK(t)'
    BY DEF ServerOK, ReaderOK
  <1> QED
    BY <1>2, <1>3, <1>4, <1>5, <1>6, <1>7 DEF ServerOK

LEMMA BeginsServer ==
    ASSUME Orderly, ServerOK, NEW s \in Slot, Begins(s)
    PROVE  ServerOK'
  <1>1. BaseInv /\ ClientOK
    BY DEF Orderly
  <1>2. /\ Stays(s) /\ UNCHANGED <<rows, sockets>> /\ BegunAs(s)
    BY <1>1, BeginsFacts, BeginsKinds
  <1>3. Inert(h'[s]) /\ ReaderOK(s)' /\ (h'[s].op = "create" /\ h'[s].sock = Me => h'[s].user = me)
    BY <1>2 DEF BegunAs, Inert, ReaderOK, rows
  <1> QED
    BY <1>2, <1>3, ServerKept DEF Stays, rows, sockets

LEMMA TakesServer ==
    ASSUME Orderly, ServerOK, NEW s \in Slot, Takes(s)
    PROVE  ServerOK'
  <1>1. Stays(s) /\ h'[s] = Idle
    BY TakesFacts DEF Orderly
  <1>2. UNCHANGED <<rows, sockets>>
    BY DEF Takes, TakePage, TakeList, TakeSent, TakeFailure
  <1>3. Inert(h'[s]) /\ ReaderOK(s)' /\ h'[s].op # "create"
    BY <1>1 DEF Inert, ReaderOK, Idle
  <1> QED
    BY <1>1, <1>2, <1>3, ServerKept DEF Stays, rows, sockets

LEMMA EventsFacts ==
    ASSUME TypeOK, Events
    PROVE  Pops /\ Took(Me) /\ wire[Me] # <<>> /\ UNCHANGED <<rows, online, room, h, bounds>>
  BY PopsFacts DEF Events, ReceiveNew, ReceiveUpdated, ReceiveDeleted, ReceiveNotification, Pushed

LEMMA QuietFacts ==
    ASSUME TypeOK, Looks \/ SocketConnects \/ SocketDrops
    PROVE  /\ UNCHANGED <<rows, h, list, more, cursor>>
           /\ Looks => UNCHANGED sockets
           /\ SocketConnects => UNCHANGED <<room, wire>> /\ Me \notin online
           /\ SocketDrops => wire'[Me] = <<>> /\ Me \in online /\ Me \notin online'
  <1>1. Looks => UNCHANGED <<rows, h, list, more, cursor, sockets>>
    BY DEF Looks, OpenOther, OtherAnswers, CloseThread, LeaveChats, vars, store
  <1>2. SocketConnects => UNCHANGED <<rows, h, list, more, cursor, room, wire>> /\ Me \notin online
    BY DEF SocketConnects, Connect, store
  <1>3. SocketDrops => /\ UNCHANGED <<rows, h, list, more, cursor>> /\ wire'[Me] = <<>>
                       /\ Me \in online /\ Me \notin online'
    BY MeFacts DEF SocketDrops, Disconnect, store, TypeOK
  <1> QED
    BY <1>1, <1>2, <1>3

LEMMA ServerStep ==
    ASSUME OnceInv, ServerOK, [DesktopNext]_mcVars
    PROVE  ServerOK'
  <1>1. Orderly /\ TypeOK
    BY DEF OnceInv, Orderly, BaseInv
  <1>2. CASE Events
    BY <1>1, <1>2, EventsFacts, ServerKept DEF rows
  <1>3. CASE Looks \/ SocketConnects \/ SocketDrops
    <2>1. SocketDrops => OnlyNotified'
      BY <1>1, QuietFacts DEF OnlyNotified
    <2> QED
      BY <1>1, <1>3, <2>1, QuietFacts, ServerKept DEF rows, sockets
  <1>4. CASE UNCHANGED mcVars
    BY <1>4, ServerKept DEF mcVars, allVars, vars, rows, sockets
  <1> QED
    BY <1>1, <1>2, <1>3, <1>4, RunCases, WorksServer, BeginsServer, TakesServer

(* What the screen shows of the conversation. *)
ScreenOK ==
    /\ loading \in Slot \cup {NoSlot, Elsewhere} /\ (loading \in Slot => loading \in Fetches)
    /\ page = "thread" => active
    /\ page \in {"list", "other"} => ~active
    /\ badge \in Nat

LEMMA FetchStays ==
    ASSUME BaseInv, NEW s \in Fetches, Continue(s) \/ Fail(s)
    PROVE  s \in Fetches'
  <1>1. s \in Slot /\ h[s].op = "page" /\ h[s].sock = Me /\ h[s] \in Handler /\ TypeOK /\ Follows(s)
    BY WorksFacts DEF Fetches, BaseInv
  <1>2. Me # NoSocket
    BY MeFacts
  <1>3. CASE Continue(s)
    <2>1. FindPage(s)
      BY <1>1, <1>3 DEF Continue, InsertMessage, WriteEdit, WriteDelete, TouchMembers, FindPage, ListCounts,
         ReadMessage, WriteSeen, JoinRoom, PushNew, NotifyOthers, PushEdit, PushDeleted, At
    <2> QED
      BY <1>1, <2>1, FindPageFollows DEF Fetches
  <1>4. CASE Fail(s)
    <2>1. Goto(s, "failed") /\ h[s].pc # "idle"
      BY <1>1, <1>2, <1>4 DEF Fail, Throw
    <2>2. h'[s] = [h[s] EXCEPT !.pc = "failed"]
      BY <1>1, <2>1, GotoFacts
    <2> QED
      BY <1>1, <2>2 DEF Handler, Fetches
  <1> QED
    BY <1>3, <1>4

LEMMA ScreenFacts ==
    ASSUME DesktopNext
    PROVE  \/ UNCHANGED <<page, active>>
           \/ page' = "thread" /\ active' = TRUE
           \/ page' \in {"other", "list"} /\ active' = FALSE
           \/ page' = "away" /\ active' = active
  <1>1. CASE UNCHANGED client \/ UNCHANGED screen
    BY <1>1 DEF client, screen
  <1>2. ASSUME NEW s \in Slot, EventArrives(s) \/ OpenChats(s) \/ OpenThread(s) \/ LoadOlder(s) \/ Send(s)
        PROVE  \/ UNCHANGED <<page, active>>
               \/ page' = "thread" /\ active' = TRUE
               \/ page' = "list" /\ active' = FALSE
    BY <1>2 DEF EventArrives, OpenChats, OpenThread, LoadOlder, Send, client, screen
  <1>3. ASSUME NEW s \in Slot, Takes(s) PROVE UNCHANGED <<page, active>>
    BY <1>3 DEF Takes, TakePage, TakeList, TakeSent, TakeFailure, screen
  <1>4. Events => UNCHANGED <<page, active>>
    BY DEF Events, ReceiveNew, ReceiveUpdated, ReceiveDeleted, ReceiveNotification, client, screen
  <1>5. SocketConnects \/ SocketDrops => UNCHANGED screen
    BY DEF SocketConnects, SocketDrops
  <1>6. CASE Looks
    <2>1. (\E s \in Slot : OpenThread(s)) \/ OpenOther \/ OtherAnswers \/ CloseThread \/ LeaveChats
      BY <1>6 DEF Looks
    <2> QED
      BY <1>2, <2>1 DEF OpenOther, OtherAnswers, CloseThread, LeaveChats
  <1> QED
    BY <1>1, <1>2, <1>3, <1>4, <1>5, <1>6, RunCases DEF Begins

LEMMA BadgeFacts ==
    ASSUME ScreenOK, TypeOK, DesktopNext
    PROVE  badge' \in Nat
  <1>1. badge \in Nat
    BY DEF ScreenOK
  <1>2. ASSUME NEW a, NEW q, NEW n \in Nat, MarkRead(a, q, n) PROVE badge' \in Nat
    BY <1>2 DEF MarkRead
  <1>3. ASSUME NEW q, NEW n \in Nat, ShowList(q, n) PROVE badge' \in Nat
    BY <1>2, <1>3 DEF ShowList
  <1>4. ASSUME NEW s \in Slot, Begins(s) PROVE badge' \in Nat
    <2>1. CASE OpenThread(s)
      BY <1>2, <2>1 DEF OpenThread
    <2>2. CASE ~OpenThread(s)
      BY <1>1, <1>4, <2>2 DEF Begins, EventArrives, OpenChats, LoadOlder, Send, client, store
    <2> QED
      BY <2>1, <2>2
  <1>5. ASSUME NEW s \in Slot, Takes(s) PROVE badge' \in Nat
    <2>1. CASE TakeList(s)
      <3>1. h[s] \in Handler /\ badge' = h[s].cur
        BY <2>1, HandlerFacts DEF TakeList, Answered, At
      <3> QED
        BY <3>1 DEF Handler
    <2>2. CASE TakePage(s)
      BY <1>1, <1>3, <2>2 DEF TakePage
    <2>3. CASE TakeSent(s)
      BY <1>1, <1>3, <2>3 DEF TakeSent
    <2>4. CASE TakeFailure(s)
      BY <1>1, <2>4 DEF TakeFailure, store
    <2> QED
      BY <1>5, <2>1, <2>2, <2>3, <2>4 DEF Takes
  <1>6. CASE ReceiveNew
    <2>1. PICK n \in {badge, badge + 1} : ShowList(AddMessage(Push), n)
      BY <1>6 DEF ReceiveNew
    <2> QED
      BY <1>1, <1>3, <2>1
  <1>7. CASE ReceiveDeleted
    BY <1>1, <1>3, <1>7 DEF ReceiveDeleted
  <1>8. CASE Looks
    <2>1. ASSUME NEW s \in Slot, OpenThread(s) PROVE badge' \in Nat
      BY <1>2, <2>1 DEF OpenThread
    <2> QED
      BY <1>1, <1>8, <2>1 DEF Looks, OpenOther, OtherAnswers, CloseThread, LeaveChats, store
  <1>9. ReceiveUpdated \/ ReceiveNotification \/ SocketConnects \/ SocketDrops \/ UNCHANGED client => badge' = badge
    BY DEF ReceiveUpdated, ReceiveNotification, SocketConnects, SocketDrops, client, store
  <1> QED
    BY <1>1, <1>4, <1>5, <1>6, <1>7, <1>8, <1>9, RunCases DEF Events

LEMMA LoadingStep ==
    ASSUME Orderly, ScreenOK, DesktopNext, loading' \in Slot
    PROVE  loading' \in Fetches'
  <1>1. BaseInv /\ TypeOK /\ ClientOK /\ (loading \in Slot => loading \in Fetches)
    BY DEF Orderly, BaseInv, ScreenOK
  <1>2. ASSUME NEW s \in Slot, Continue(s) \/ Fail(s), UNCHANGED client
        PROVE  loading' \in Fetches'
    <2>1. loading' = loading /\ Stays(s)
      BY <1>1, <1>2, WorksFacts DEF client, screen
    <2>2. CASE loading = s
      BY <1>1, <1>2, <2>1, <2>2, FetchStays
    <2>3. CASE loading # s
      BY <1>1, <2>1, <2>3 DEF Fetches, Stays
    <2> QED
      BY <2>2, <2>3
  <1>3. ASSUME NEW s \in Slot, Begins(s)
        PROVE  loading' \in Fetches'
    <2>1. /\ loading' = loading \/ (loading' = s /\ s \in Fetches')
          /\ Stays(s) /\ h[s] = Idle
      BY <1>1, <1>3, BeginsKinds, BeginsFacts
    <2>2. s \notin Fetches
      BY <2>1 DEF Fetches, Idle
    <2> QED
      BY <1>1, <2>1, <2>2 DEF Fetches, Stays
  <1>4. ASSUME NEW s \in Slot, Takes(s)
        PROVE  loading' \in Fetches'
    <2>1. Stays(s) /\ h[s].pc \in {"answered", "failed"}
      BY <1>1, <1>4, TakesFacts
    <2>2. CASE TakePage(s) \/ TakeFailure(s)
      <3>1. loading' = IF loading = s THEN NoSlot ELSE loading
        BY <2>2 DEF TakePage, TakeFailure, Settle
      <3>2. loading' = loading /\ loading # s
        BY <3>1, MeAssumption
      <3> QED
        BY <1>1, <2>1, <3>2 DEF Fetches, Stays
    <2>3. CASE TakeList(s) \/ TakeSent(s)
      <3>1. loading' = loading /\ s \notin Fetches
        BY <2>3 DEF TakeList, TakeSent, screen, Answered, At, Fetches
      <3> QED
        BY <1>1, <2>1, <3>1 DEF Fetches, Stays
    <2> QED
      BY <1>4, <2>2, <2>3 DEF Takes
  <1>5. CASE Events
    <2>1. h' = h /\ loading' = loading
      BY <1>1, <1>5, EventsFacts DEF Events, ReceiveNew, ReceiveUpdated, ReceiveDeleted, ReceiveNotification, client, screen
    <2> QED
      BY <1>1, <2>1 DEF Fetches
  <1>6. CASE Looks \/ SocketConnects \/ SocketDrops
    <2>1. h' = h
      BY <1>1, <1>6, QuietFacts
    <2>2. loading' \in {loading, NoSlot, Elsewhere}
      <3>1. ASSUME NEW s \in Slot, OpenThread(s), UNCHANGED vars PROVE loading' = loading
        <4>1. ~PageVerifies(s, me, Me, 0)
          <5> SUFFICES ASSUME PageVerifies(s, me, Me, 0) PROVE FALSE
            OBVIOUS
          <5>1. h[s] = Idle /\ h'[s].op = "page"
            BY <1>1, PageFacts
          <5> QED
            BY <2>1, <5>1 DEF Idle
        <4> QED
          BY <3>1, <4>1 DEF OpenThread
      <3> QED
        BY <1>6, <3>1 DEF Looks, OpenOther, OtherAnswers, CloseThread, LeaveChats, SocketConnects, SocketDrops, screen
    <2> QED
      BY <1>1, <2>1, <2>2, MeAssumption DEF Fetches
  <1> QED
    BY <1>2, <1>3, <1>4, <1>5, <1>6, RunCases

LEMMA LoadingType ==
    ASSUME Orderly, ScreenOK, DesktopNext
    PROVE  loading' \in Slot \cup {NoSlot, Elsewhere}
  <1>1. BaseInv /\ ClientOK /\ TypeOK /\ loading \in Slot \cup {NoSlot, Elsewhere}
    BY DEF Orderly, BaseInv, ScreenOK
  <1>2. \A s \in Slot : Begins(s) => loading' \in {loading, s}
    BY <1>1, BeginsKinds
  <1>3. \A s \in Slot : Takes(s) => loading' \in {loading, NoSlot}
    BY DEF Takes, TakePage, TakeList, TakeSent, TakeFailure, Settle, screen
  <1>4. UNCHANGED client \/ Events \/ SocketConnects \/ SocketDrops => loading' = loading
    BY DEF Events, ReceiveNew, ReceiveUpdated, ReceiveDeleted, ReceiveNotification, SocketConnects, SocketDrops, client, screen
  <1>5. CASE Looks
    BY <1>1, <1>5 DEF Looks, OpenThread, OpenOther, OtherAnswers, CloseThread, LeaveChats
  <1> QED
    BY <1>1, <1>2, <1>3, <1>4, <1>5, RunCases

LEMMA ScreenStep ==
    ASSUME Orderly, ScreenOK, [DesktopNext]_mcVars
    PROVE  ScreenOK'
  <1>1. CASE UNCHANGED mcVars
    BY <1>1 DEF mcVars, allVars, vars, client, store, screen, ScreenOK, Fetches
  <1>2. CASE DesktopNext
    <2>1. TypeOK
      BY DEF Orderly, BaseInv
    <2>2. loading' \in Slot \cup {NoSlot, Elsewhere} /\ (loading' \in Slot => loading' \in Fetches')
      BY <1>2, LoadingStep, LoadingType
    <2>3. badge' \in Nat
      BY <1>2, <2>1, BadgeFacts
    <2>4. (page' = "thread" => active') /\ (page' \in {"list", "other"} => ~active')
      <3>1. CASE UNCHANGED <<page, active>>
        <4>1. page' = page /\ active' = active
          BY <3>1
        <4> QED
          BY <4>1, Zenon DEF ScreenOK
      <3>2. CASE page' = "thread" /\ active' = TRUE
        <4>1. page' \notin {"list", "other"}
          BY <3>2
        <4> QED
          BY <3>2, <4>1, Zenon
      <3>3. CASE page' \in {"other", "list"} /\ active' = FALSE
        <4>1. page' # "thread"
          BY <3>3
        <4> QED
          BY <3>3, <4>1, Zenon
      <3>4. CASE page' = "away"
        BY <3>4
      <3> QED
        BY <1>2, <3>1, <3>2, <3>3, <3>4, ScreenFacts
    <2> QED
      BY <2>2, <2>3, <2>4 DEF ScreenOK
  <1> QED
    BY <1>1, <1>2

-----------------------------------------------------------------------------
(* What is shown is current.  A text or a message that is shown, or will be by  *)
(* the event at place k of the wire, is the one stored or is about to be        *)
(* replaced: by a push that is due, or by one further down the wire.            *)
TextDue(i, text, k) ==
    \/ text = msgs[i].text
    \/ \E s \in Slot : At(s, "edit", "push") /\ h[s].id = i
    \/ \E j \in DOMAIN wire[Me] : /\ k < j /\ wire[Me][j].kind = "updated"
                                  /\ wire[Me][j].id = i /\ wire[Me][j].text = msgs[i].text

LifeDue(i, k) ==
    \/ ~msgs[i].deleted
    \/ \E s \in Slot : At(s, "delete", "push") /\ h[s].id = i
    \/ \E j \in DOMAIN wire[Me] : k < j /\ wire[Me][j].kind = "deleted" /\ wire[Me][j].id = i

WritesCurrent ==
    /\ \A s \in Slot : At(s, "edit", "push") => h[s].cur = msgs[h[s].id].text
    /\ \A s \in Slot : Pending(s) => msgs[h[s].id].text = 0 /\ ~msgs[h[s].id].deleted

ShownCurrent(i) == TextDue(list[i].id, list[i].text, 0) /\ LifeDue(list[i].id, 0)
ListCurrent == \A i \in DOMAIN list : ShownCurrent(i)

EventCurrent(k) ==
    LET e == wire[Me][k]
    IN  /\ e.kind \in {"new", "updated"} => TextDue(e.id, e.text, k)
        /\ e.kind = "new" => LifeDue(e.id, k)

PagesCurrent ==
    \A s \in Fetches : h[s].pc = "answered" =>
       \A i \in DOMAIN h[s].items : LET m == h[s].items[i] IN m.text = msgs[m.id].text /\ ~msgs[m.id].deleted

Current ==
    /\ \A s, t \in Writes : s = t
    /\ Fetches # {} => ~OnItsWay
    /\ WritesCurrent /\ ListCurrent /\ PagesCurrent
    /\ \A k \in DOMAIN wire[Me] : EventCurrent(k)

CurrentInv == IsFiniteSet(Writes) /\ ("current" \notin excused => Current)

LEMMA CurrentExcuses ==
    ASSUME DesktopNext, "current" \notin excused'
    PROVE  /\ "current" \notin excused
           /\ ~(Cardinality(Writes') > 1) /\ (Fetches' # {} => ~OnItsWay')
           /\ ~NotPushed /\ ~Dropped /\ ~Missed
  <1>1. excused' = excused \cup Excuses
    BY DEF DesktopNext
  <1>2. "current" \notin excused /\ ~Crossed /\ ~NotPushed /\ ~Dropped /\ ~Missed /\ ~PushMeetsPage
    BY <1>1 DEF Excuses
  <1>3. ~(Fetches # {} /\ OnItsWay)'
    BY <1>2 DEF PushMeetsPage
  <1> QED
    BY <1>2, <1>3 DEF Crossed

LEMMA OneHandler ==
    ASSUME Orderly, DesktopNext
    PROVE  UNCHANGED h \/ \E s \in Slot : Stays(s)
  <1>1. BaseInv /\ ClientOK /\ TypeOK
    BY DEF Orderly, BaseInv
  <1>2. \A s \in Slot : Continue(s) \/ Fail(s) => Stays(s)
    BY <1>1, WorksFacts
  <1>3. \A s \in Slot : Begins(s) => Stays(s)
    BY <1>1, BeginsFacts
  <1>4. \A s \in Slot : Takes(s) => Stays(s)
    BY <1>1, TakesFacts
  <1>5. Events \/ Looks \/ SocketConnects \/ SocketDrops => UNCHANGED h
    BY <1>1, EventsFacts, QuietFacts
  <1> QED
    BY <1>2, <1>3, <1>4, <1>5, RunCases

LEMMA WritesFinite ==
    ASSUME IsFiniteSet(Writes), UNCHANGED h \/ \E s \in Slot : Stays(s)
    PROVE  IsFiniteSet(Writes')
  <1>1. CASE UNCHANGED h
    BY <1>1 DEF Writes
  <1>2. ASSUME NEW s \in Slot, Stays(s) PROVE IsFiniteSet(Writes')
    <2>1. Writes' \subseteq Writes \cup {s}
      BY <1>2 DEF Writes, Stays
    <2> QED
      BY <2>1, FS_AddElement, FS_Subset
  <1> QED
    BY <1>1, <1>2

(* One writer at a time; no page is fetched while a push is on its way. *)
LEMMA WritersStep ==
    ASSUME Orderly, CurrentInv, DesktopNext
    PROVE  /\ IsFiniteSet(Writes')
           /\ "current" \notin excused' => /\ Current /\ (\A s, t \in Writes' : s = t)
                                           /\ (Fetches' # {} => ~OnItsWay')
                                           /\ ~NotPushed /\ ~Dropped /\ ~Missed
  <1>1. IsFiniteSet(Writes')
    BY OneHandler, WritesFinite DEF CurrentInv
  <1>2. ~(Cardinality(Writes') > 1) => \A s, t \in Writes' : s = t
    BY <1>1, AtMostOne
  <1> QED
    BY <1>1, <1>2, CurrentExcuses DEF CurrentInv

-----------------------------------------------------------------------------
LEMMA TextKept ==
    ASSUME NEW i, NEW text, NEW k, TextDue(i, text, k), msgs'[i].text = msgs[i].text,
           \A t \in Slot : At(t, "edit", "push") /\ h[t].id = i => At(t, "edit", "push")' /\ h'[t].id = i,
           \A j \in DOMAIN wire[Me] : j \in DOMAIN wire'[Me] /\ wire'[Me][j] = wire[Me][j]
    PROVE  TextDue(i, text, k)'
  BY DEF TextDue

LEMMA LifeKept ==
    ASSUME NEW i, NEW k, LifeDue(i, k), msgs'[i].deleted = msgs[i].deleted,
           \A t \in Slot : At(t, "delete", "push") /\ h[t].id = i => At(t, "delete", "push")' /\ h'[t].id = i,
           \A j \in DOMAIN wire[Me] : j \in DOMAIN wire'[Me] /\ wire'[Me][j] = wire[Me][j]
    PROVE  LifeDue(i, k)'
  BY DEF LifeDue

(* The list, the wire and the pages, when no push is taken from the wire. *)
LEMMA CurrentKept ==
    ASSUME Orderly, Current,
           \A i \in DOMAIN list' : (\E j \in DOMAIN list : list'[i] = list[j]) \/ ShownCurrent(i)',
           \A i \in Id, k \in Nat, text \in Nat :
              k \in {0} \cup DOMAIN wire[Me] /\ TextDue(i, text, k) => TextDue(i, text, k)',
           \A i \in Id, k \in Nat : k \in {0} \cup DOMAIN wire[Me] /\ LifeDue(i, k) => LifeDue(i, k)',
           \A k \in DOMAIN wire'[Me] : \/ k \in DOMAIN wire[Me] /\ wire'[Me][k] = wire[Me][k]
                                       \/ EventCurrent(k)'
    PROVE  ListCurrent' /\ \A k \in DOMAIN wire'[Me] : EventCurrent(k)'
  <1>1. /\ list \in Seq(Entry) /\ \A i \in DOMAIN list : list[i].id \in Id
        /\ \A k \in DOMAIN wire[Me] : wire[Me][k].id \in Id
        /\ wire[Me] \in Seq(PushedEvent)
    BY MeFacts DEF Orderly, ClientOK, BaseInv, TypeOK
  <1>2. \A i \in DOMAIN list : list[i].id \in Id /\ list[i].text \in Nat
    <2>1. \A i \in DOMAIN list : list[i] \in Entry
      BY <1>1
    <2> QED
      BY <1>1, <2>1 DEF Entry
  <1>3. \A k \in DOMAIN wire[Me] : k \in Nat /\ wire[Me][k].id \in Id /\ wire[Me][k].text \in Nat
    <2>1. \A k \in DOMAIN wire[Me] : k \in Nat /\ wire[Me][k] \in PushedEvent
      BY <1>1
    <2> QED
      BY <1>1, <2>1 DEF PushedEvent
  <1>4. ListCurrent'
    <2> SUFFICES ASSUME NEW i \in DOMAIN list', NEW j \in DOMAIN list, list'[i] = list[j] PROVE ShownCurrent(i)'
      BY DEF ListCurrent
    <2>1. TextDue(list[j].id, list[j].text, 0) /\ LifeDue(list[j].id, 0)
      BY DEF Current, ListCurrent, ShownCurrent
    <2>2. PICK id \in Id, text \in Nat : list[j].id = id /\ list[j].text = text
      BY <1>2
    <2>3. TextDue(id, text, 0) /\ LifeDue(id, 0)
      BY <2>1, <2>2
    <2>4. TextDue(id, text, 0)' /\ LifeDue(id, 0)'
      BY <2>3
    <2> QED
      BY <2>2, <2>4 DEF ShownCurrent, TextDue, LifeDue
  <1>5. ASSUME NEW k \in DOMAIN wire[Me], k \in DOMAIN wire'[Me], wire'[Me][k] = wire[Me][k]
        PROVE  EventCurrent(k)'
    <2>1. PICK id \in Id, text \in Nat : wire[Me][k].id = id /\ wire[Me][k].text = text
      BY <1>3
    <2>2. EventCurrent(k) /\ k \in Nat
      BY <1>3 DEF Current
    <2>3. /\ wire[Me][k].kind \in {"new", "updated"} => TextDue(id, text, k)
          /\ wire[Me][k].kind = "new" => LifeDue(id, k)
      BY <2>1, <2>2 DEF EventCurrent
    <2>4. /\ wire[Me][k].kind \in {"new", "updated"} => TextDue(id, text, k)'
          /\ wire[Me][k].kind = "new" => LifeDue(id, k)'
      BY <2>2, <2>3
    <2> QED
      BY <1>5, <2>1, <2>4 DEF EventCurrent, TextDue, LifeDue
  <1> QED
    BY <1>4, <1>5

LEMMA RowsWorks ==
    ASSUME BaseInv, NEW s \in Slot, Continue(s) \/ Fail(s), NEW i \in Id
    PROVE  /\ i \in Id' /\ msgs'[i].at = msgs[i].at /\ msgs'[i].author = msgs[i].author
           /\ msgs'[i].text = msgs[i].text \/ (WriteEdit(s) /\ i = h[s].id)
           /\ msgs'[i].deleted = msgs[i].deleted \/ (WriteDelete(s) /\ i = h[s].id /\ msgs'[i].deleted)
  <1>1. CASE InsertMessage(s)
    BY <1>1, InsertFacts DEF Id
  <1>2. CASE WriteEdit(s)
    BY <1>2, WriteEditFacts DEF Id
  <1>3. CASE WriteDelete(s)
    BY <1>3, WriteDeleteFacts DEF Id
  <1>4. CASE Emits(s) \/ Fail(s)
    BY <1>4 DEF Emits, PushNew, NotifyOthers, PushEdit, PushDeleted, Fail, rows, Id
  <1>5. CASE Calm(s)
    BY <1>5, CalmFacts DEF Id
  <1> QED
    BY <1>1, <1>2, <1>3, <1>4, <1>5, ContinueCases

LEMMA WirePrefix ==
    ASSUME TypeOK, NEW s \in Slot, Continue(s) \/ Fail(s), NEW j \in DOMAIN wire[Me]
    PROVE  j \in DOMAIN wire'[Me] /\ wire'[Me][j] = wire[Me][j]
  <1>1. CASE wire'[Me] = wire[Me]
    BY <1>1
  <1>2. ASSUME NEW e, Adds(e) PROVE j \in DOMAIN wire'[Me] /\ wire'[Me][j] = wire[Me][j]
    BY <1>2 DEF Adds
  <1> QED
    BY <1>1, <1>2, WireStep DEF Tells

LEMMA PushKept ==
    ASSUME BaseInv, NEW s \in Slot, Continue(s), NEW t \in Slot, h[t].pc = "push"
    PROVE  \/ h'[t] = h[t]
           \/ t = s /\ (PushNew(s) \/ PushEdit(s) \/ PushDeleted(s))
  <1>1. t # s => h'[t] = h[t]
    BY WorksFacts DEF Stays
  <1>2. t = s => PushNew(s) \/ PushEdit(s) \/ PushDeleted(s)
    BY DEF Continue, InsertMessage, WriteEdit, WriteDelete, TouchMembers, FindPage, ListCounts,
         ReadMessage, WriteSeen, JoinRoom, NotifyOthers, At
  <1> QED
    BY <1>1, <1>2

LEMMA TextWorks ==
    ASSUME Orderly, WritesCurrent, NEW s \in Slot, Continue(s), PushEdit(s) => Me \in room,
           NEW i \in Id, NEW text, NEW k, k \in {0} \cup DOMAIN wire[Me], TextDue(i, text, k)
    PROVE  TextDue(i, text, k)'
  <1>1. BaseInv /\ TypeOK
    BY DEF Orderly, BaseInv
  <1>2. CASE PushEdit(s) /\ h[s].id = i
    <2>1. Tells("updated", i, h[s].cur) /\ h[s].cur = msgs[i].text /\ msgs' = msgs
      BY <1>1, <1>2, PushTells DEF PushEdit, WritesCurrent, rows
    <2>2. PICK j \in DOMAIN wire'[Me] : k < j /\ wire'[Me][j] = [kind |-> "updated", id |-> i, text |-> h[s].cur]
      BY <2>1 DEF Tells, Adds
    <2> QED
      BY <2>1, <2>2 DEF TextDue
  <1>3. CASE WriteEdit(s) /\ h[s].id = i
    <2>1. At(s, "edit", "push")' /\ h'[s].id = i
      BY <1>1, <1>3, WriteEditFacts DEF At
    <2> QED
      BY <2>1 DEF TextDue
  <1>4. CASE ~(PushEdit(s) /\ h[s].id = i) /\ ~(WriteEdit(s) /\ h[s].id = i)
    <2>1. msgs'[i].text = msgs[i].text
      BY <1>1, <1>4, RowsWorks
    <2>2. ASSUME NEW t \in Slot, At(t, "edit", "push"), h[t].id = i PROVE At(t, "edit", "push")' /\ h'[t].id = i
      <3>1. h'[t] = h[t] \/ (t = s /\ PushEdit(s))
        BY <1>1, <2>2, PushKept DEF At, PushNew, PushDeleted
      <3> QED
        BY <1>4, <2>2, <3>1 DEF At
    <2> QED
      BY <1>1, <2>1, <2>2, WirePrefix, TextKept
  <1> QED
    BY <1>2, <1>3, <1>4

LEMMA LifeWorks ==
    ASSUME Orderly, NEW s \in Slot, Continue(s), PushDeleted(s) => Me \in room,
           NEW i \in Id, NEW k, k \in {0} \cup DOMAIN wire[Me], LifeDue(i, k)
    PROVE  LifeDue(i, k)'
  <1>1. BaseInv /\ TypeOK
    BY DEF Orderly, BaseInv
  <1>2. CASE PushDeleted(s) /\ h[s].id = i
    <2>1. Tells("deleted", i, msgs[i].text)
      BY <1>1, <1>2, PushTells
    <2>2. PICK j \in DOMAIN wire'[Me] : k < j /\ wire'[Me][j] = [kind |-> "deleted", id |-> i, text |-> msgs[i].text]
      BY <2>1 DEF Tells, Adds
    <2> QED
      BY <2>1, <2>2 DEF LifeDue
  <1>3. CASE WriteDelete(s) /\ h[s].id = i
    <2>1. At(s, "delete", "push")' /\ h'[s].id = i
      BY <1>1, <1>3, WriteDeleteFacts DEF At
    <2> QED
      BY <2>1 DEF LifeDue
  <1>4. CASE ~(PushDeleted(s) /\ h[s].id = i) /\ ~(WriteDelete(s) /\ h[s].id = i)
    <2>1. msgs'[i].deleted = msgs[i].deleted
      BY <1>1, <1>4, RowsWorks
    <2>2. ASSUME NEW t \in Slot, At(t, "delete", "push"), h[t].id = i PROVE At(t, "delete", "push")' /\ h'[t].id = i
      <3>1. h'[t] = h[t] \/ (t = s /\ PushDeleted(s))
        BY <1>1, <2>2, PushKept DEF At, PushNew, PushEdit
      <3> QED
        BY <1>4, <2>2, <3>1 DEF At
    <2> QED
      BY <1>1, <2>1, <2>2, WirePrefix, LifeKept
  <1> QED
    BY <1>2, <1>3, <1>4

(* A push that this client misses finds nothing shown, or is excused. *)
LEMMA MissedFacts ==
    ASSUME BaseInv, NEW s \in Slot, PushNew(s) \/ PushEdit(s) \/ PushDeleted(s), Me \notin room, ~Missed
    PROVE  list = <<>> /\ Fetches = {} /\ page # "thread"
  <1>1. s \in Pushing
    BY DEF PushNew, PushEdit, PushDeleted, At, Pushing, Writes
  <1>2. s \notin Pushing'
    <2> SUFFICES ASSUME h'[s].pc = "push", h'[s].op \in {"create", "edit", "delete"} PROVE FALSE
      BY DEF Pushing, Writes
    <2>1. TouchMembers(s) \/ WriteEdit(s) \/ WriteDelete(s)
      BY PushStep DEF Continue
    <2> QED
      BY <2>1 DEF PushNew, PushEdit, PushDeleted, TouchMembers, WriteEdit, WriteDelete, At
  <1> QED
    BY <1>1, <1>2 DEF Missed

LEMMA WritesWorks ==
    ASSUME Orderly, WritesCurrent, \A t, w \in Writes' : t = w, NEW s \in Slot, Continue(s)
    PROVE  WritesCurrent'
  <1>1. BaseInv /\ NamesStored
    BY DEF Orderly, BaseInv
  <1>2. ASSUME NEW t \in Slot, h'[t].op \in {"create", "edit"}, t # s \/ h'[s].op = "create", NEW i \in Id,
               WriteEdit(s)
        PROVE  FALSE
    <2>1. h'[s].op = "edit"
      BY <1>1, <1>2, WriteEditFacts
    <2> QED
      BY <1>2, <2>1 DEF Writes
  <1>3. ASSUME NEW t \in Slot, h'[t].op = "create", WriteDelete(s) PROVE FALSE
    <2>1. h'[s].op = "delete"
      BY <1>1, <1>3, WriteDeleteFacts
    <2> QED
      BY <1>3, <2>1 DEF Writes
  <1>4. ASSUME NEW t \in Slot, At(t, "edit", "push")' PROVE h'[t].cur = msgs'[h'[t].id].text
    <2>1. CASE t = s
      BY <1>1, <1>4, <2>1, PushStep, WriteEditFacts DEF At
    <2>2. CASE t # s
      <3>1. h'[t] = h[t] /\ At(t, "edit", "push")
        BY <1>1, <1>4, <2>2, WorksFacts DEF Stays, At
      <3>2. h[t].id \in Id
        BY <1>1, <3>1 DEF NamesStored, Names, Id, At
      <3>3. msgs'[h[t].id].text = msgs[h[t].id].text
        BY <1>1, <1>2, <1>4, <2>2, <3>2, RowsWorks DEF At
      <3> QED
        BY <3>1, <3>3 DEF WritesCurrent
    <2> QED
      BY <2>1, <2>2
  <1>5. ASSUME NEW t \in Slot, Pending(t)'
        PROVE  msgs'[h'[t].id].text = 0 /\ ~msgs'[h'[t].id].deleted
    <2>1. CASE InsertMessage(s) /\ h'[t].id = Len(msgs) + 1
      BY <1>1, <2>1, InsertFacts
    <2>2. CASE Pending(t) /\ h'[t].id = h[t].id
      <3>1. h[t].id \in Id /\ h'[t].op = "create"
        BY <1>1, <1>5, <2>2 DEF NamesStored, Names, Id, Pending
      <3>2. ~WriteEdit(s) /\ ~WriteDelete(s)
        BY <1>2, <1>3, <3>1
      <3>3. msgs'[h[t].id].text = msgs[h[t].id].text /\ msgs'[h[t].id].deleted = msgs[h[t].id].deleted
        BY <1>1, <3>1, <3>2, RowsWorks
      <3> QED
        BY <2>2, <3>3 DEF WritesCurrent
    <2> QED
      BY <1>1, <1>5, <2>1, <2>2, PendingWorks
  <1> QED
    BY <1>4, <1>5 DEF WritesCurrent

LEMMA PagesWorks ==
    ASSUME Orderly, PagesCurrent, Fetches' # {} => ~OnItsWay', NEW s \in Slot, Continue(s) \/ Fail(s)
    PROVE  PagesCurrent'
  <1>1. BaseInv /\ ClientOK
    BY DEF Orderly
  <1> SUFFICES ASSUME NEW t \in Fetches', h'[t].pc = "answered", NEW i \in DOMAIN h'[t].items
               PROVE  LET m == h'[t].items[i] IN m.text = msgs'[m.id].text /\ ~msgs'[m.id].deleted
    BY DEF PagesCurrent
  <1>2. t \in Slot
    BY DEF Fetches
  <1>3. CASE t = s
    <2>1. FindPage(s) /\ msgs' = msgs
      BY <1>1, <1>3, FetchWorks DEF FindPage, rows
    <2>2. PageOK(h'[s], h[s].next)
      BY <1>1, <2>1, FindPageFollows
    <2> QED
      BY <1>3, <2>1, <2>2 DEF PageOK, Live
  <1>4. CASE t # s
    <2>1. h'[t] = h[t] /\ t \in Fetches
      BY <1>1, <1>2, <1>4, WorksFacts DEF Stays, Fetches
    <2>2. h[t].items[i].id \in Id
      BY <1>1, <1>2, <2>1 DEF ClientOK
    <2>3. ~WriteEdit(s) /\ ~WriteDelete(s)
      <3>1. WriteEdit(s) \/ WriteDelete(s) => h'[s].pc = "push" /\ h'[s].op \in {"edit", "delete"}
        BY <1>1, WriteEditFacts, WriteDeleteFacts
      <3>2. ~OnItsWay'
        OBVIOUS
      <3> QED
        BY <3>1, <3>2 DEF OnItsWay, Pushing, Writes
    <2>4. msgs'[h[t].items[i].id].text = msgs[h[t].items[i].id].text
          /\ msgs'[h[t].items[i].id].deleted = msgs[h[t].items[i].id].deleted
      BY <1>1, <2>2, <2>3, RowsWorks
    <2> QED
      BY <2>1, <2>4 DEF PagesCurrent
  <1> QED
    BY <1>3, <1>4

(* Handlers that begin, fail or end here have nothing to do with what is shown. *)
LEMMA CurrentSame ==
    ASSUME Orderly, Current, \A s, t \in Writes' : s = t, Fetches' # {} => ~OnItsWay',
           UNCHANGED msgs, wire'[Me] = wire[Me],
           \A i \in DOMAIN list' : \/ \E j \in DOMAIN list : list'[i] = list[j]
                                   \/ LET m == list'[i] IN m.text = msgs[m.id].text /\ ~msgs[m.id].deleted,
           \A t \in Slot : \/ h'[t] = h[t]
                           \/ /\ Inert(h'[t]) /\ (h'[t].op = "page" => h'[t].pc # "answered")
                              /\ (h[t].op \in {"edit", "delete"} => h[t].pc # "push")
    PROVE  Current'
  <1>1. WritesCurrent'
    BY DEF Current, WritesCurrent, Inert, At, Pending
  <1>2. PagesCurrent'
    BY DEF Current, PagesCurrent, Fetches
  <1>3. \A t \in Slot : /\ At(t, "edit", "push") => h'[t] = h[t]
                        /\ At(t, "delete", "push") => h'[t] = h[t]
    BY DEF At
  <1>4. ASSUME NEW i \in Id, NEW k \in Nat, NEW text \in Nat, TextDue(i, text, k) PROVE TextDue(i, text, k)'
    BY <1>3, <1>4, TextKept DEF At
  <1>5. ASSUME NEW i \in Id, NEW k \in Nat, LifeDue(i, k) PROVE LifeDue(i, k)'
    BY <1>3, <1>5, LifeKept DEF At
  <1>6. \A i \in DOMAIN list' : (\E j \in DOMAIN list : list'[i] = list[j]) \/ ShownCurrent(i)'
    BY DEF ShownCurrent, TextDue, LifeDue
  <1>7. ListCurrent' /\ \A k \in DOMAIN wire'[Me] : EventCurrent(k)'
    BY <1>4, <1>5, <1>6, CurrentKept
  <1> QED
    BY <1>1, <1>2, <1>7 DEF Current

(* The push of a write that this client is told of. *)
LEMMA ToldCurrent ==
    ASSUME Orderly, Current, NEW s \in Slot, Continue(s), WritesCurrent',
           PushNew(s) \/ PushEdit(s) \/ PushDeleted(s) => Me \in room,
           NEW k \in DOMAIN wire'[Me]
    PROVE  (k \in DOMAIN wire[Me] /\ wire'[Me][k] = wire[Me][k]) \/ EventCurrent(k)'
  <1>1. TypeOK /\ NamesStored /\ WritesCurrent
    BY DEF Orderly, BaseInv, Current
  <1>2. CASE wire'[Me] = wire[Me]
    BY <1>2
  <1>3. CASE PushNew(s) /\ Tells("new", h[s].id, msgs[h[s].id].text)
    <2>1. msgs' = msgs /\ Pending(s)
      BY <1>3 DEF PushNew, rows, Pending, At
    <2>2. ~msgs[h[s].id].deleted
      BY <1>1, <2>1 DEF WritesCurrent
    <2>3. CASE k \in DOMAIN wire[Me]
      BY <1>3, <2>3 DEF Tells, Adds
    <2>4. CASE k \notin DOMAIN wire[Me]
      <3>1. wire'[Me][k] = [kind |-> "new", id |-> h[s].id, text |-> msgs[h[s].id].text]
        BY <1>3, <2>4 DEF Tells, Adds
      <3> QED
        BY <2>1, <2>2, <3>1 DEF EventCurrent, TextDue, LifeDue
    <2> QED
      BY <2>3, <2>4
  <1>4. CASE PushEdit(s) /\ Tells("updated", h[s].id, h[s].cur)
    <2>1. msgs' = msgs /\ h[s].cur = msgs[h[s].id].text
      BY <1>1, <1>4 DEF PushEdit, rows, WritesCurrent
    <2>2. CASE k \in DOMAIN wire[Me]
      BY <1>4, <2>2 DEF Tells, Adds
    <2>3. CASE k \notin DOMAIN wire[Me]
      <3>1. wire'[Me][k] = [kind |-> "updated", id |-> h[s].id, text |-> h[s].cur]
        BY <1>4, <2>3 DEF Tells, Adds
      <3> QED
        BY <2>1, <3>1 DEF EventCurrent, TextDue
    <2> QED
      BY <2>2, <2>3
  <1>5. ASSUME NEW kind \in {"deleted", "notify"}, Tells(kind, h[s].id, msgs[h[s].id].text)
        PROVE  (k \in DOMAIN wire[Me] /\ wire'[Me][k] = wire[Me][k]) \/ EventCurrent(k)'
    <2>1. CASE k \in DOMAIN wire[Me]
      BY <1>5, <2>1 DEF Tells, Adds
    <2>2. CASE k \notin DOMAIN wire[Me]
      <3>1. wire'[Me][k].kind = kind
        BY <1>5, <2>2 DEF Tells, Adds
      <3> QED
        BY <3>1 DEF EventCurrent
    <2> QED
      BY <2>1, <2>2
  <1> QED
    BY <1>1, <1>2, <1>3, <1>4, <1>5, WireStep

LEMMA FailCurrent ==
    ASSUME Orderly, Current, NEW s \in Slot, Fail(s), UNCHANGED client, ~NotPushed,
           \A t, w \in Writes' : t = w, Fetches' # {} => ~OnItsWay'
    PROVE  Current'
  <1>1. TypeOK /\ BaseInv
    BY DEF Orderly, BaseInv
  <1>2. /\ UNCHANGED <<msgs, list, wire>> /\ faults' # faults /\ Throw(s)
    BY <1>1 DEF Fail, rows, sockets, client, store, TypeOK
  <1>3. Stays(s) /\ h'[s].pc \in {"idle", "failed"} /\ (h'[s].op = h[s].op \/ h'[s] = Idle)
    <2>1. CASE Free(s)
      BY <1>1, <2>1, FreeFacts, HandlerFacts
    <2>2. CASE Goto(s, "failed")
      <3>1. Stays(s) /\ h'[s] = [h[s] EXCEPT !.pc = "failed"] /\ h[s] \in Handler
        BY <1>1, <2>2, GotoFacts, HandlerFacts DEF Fail
      <3> QED
        BY <3>1 DEF Handler
    <2> QED
      BY <1>2, <2>1, <2>2 DEF Throw
  <1>4. s \notin Writes
    BY <1>2, <1>3 DEF NotPushed
  <1>5. Inert(h'[s]) /\ (h'[s].op = "page" => h'[s].pc # "answered") /\ h[s].op \notin {"edit", "delete"}
    BY <1>3, <1>4 DEF Inert, Writes, Idle
  <1> QED
    BY <1>2, <1>3, <1>5, CurrentSame DEF Stays

LEMMA SilentCurrent ==
    ASSUME Orderly, ServerOK, Current, NEW s \in Slot, Continue(s), UNCHANGED client, ~Missed,
           PushNew(s) \/ PushEdit(s) \/ PushDeleted(s), Me \notin room,
           \A t, w \in Writes' : t = w, Fetches' # {} => ~OnItsWay'
    PROVE  Current'
  <1>1. TypeOK /\ BaseInv
    BY DEF Orderly, BaseInv
  <1>2. list = <<>> /\ list' = list
    BY <1>1, MissedFacts DEF client, store
  <1>3. wire'[Me] = wire[Me] /\ OnlyNotified
    <2>1. ~NotifyOthers(s)
      BY DEF NotifyOthers, PushNew, PushEdit, PushDeleted, At
    <2> QED
      BY <1>1, <2>1, WireStep DEF ServerOK
  <1>4. WritesCurrent'
    BY WritesWorks DEF Current
  <1>5. PagesCurrent'
    BY PagesWorks DEF Current
  <1>6. ListCurrent'
    BY <1>2 DEF ListCurrent
  <1>7. \A k \in DOMAIN wire'[Me] : EventCurrent(k)'
    BY <1>3 DEF EventCurrent, OnlyNotified
  <1> QED
    BY <1>4, <1>5, <1>6, <1>7 DEF Current

LEMMA WorksCurrent ==
    ASSUME Orderly, ServerOK, CurrentInv, DesktopNext, NEW s \in Slot, Continue(s) \/ Fail(s), UNCHANGED client
    PROVE  CurrentInv'
  <1>1. TypeOK /\ BaseInv
    BY DEF Orderly, BaseInv
  <1> SUFFICES ASSUME "current" \notin excused' PROVE Current'
    BY WritersStep DEF CurrentInv
  <1>2. /\ Current /\ (\A t, w \in Writes' : t = w) /\ (Fetches' # {} => ~OnItsWay')
        /\ ~NotPushed /\ ~Missed
    BY WritersStep
  <1>3. CASE Fail(s)
    BY <1>2, <1>3, FailCurrent
  <1>4. CASE Continue(s) /\ (PushNew(s) \/ PushEdit(s) \/ PushDeleted(s)) /\ Me \notin room
    BY <1>2, <1>4, SilentCurrent
  <1>5. CASE Continue(s) /\ (PushNew(s) \/ PushEdit(s) \/ PushDeleted(s) => Me \in room)
    <2>1. WritesCurrent' /\ PagesCurrent'
      BY <1>2, <1>5, WritesWorks, PagesWorks DEF Current
    <2>2. \A k \in DOMAIN wire'[Me] : (k \in DOMAIN wire[Me] /\ wire'[Me][k] = wire[Me][k]) \/ EventCurrent(k)'
      BY <1>2, <1>5, <2>1, ToldCurrent
    <2>3. ASSUME NEW i \in Id, NEW k \in Nat, NEW text \in Nat, k \in {0} \cup DOMAIN wire[Me], TextDue(i, text, k)
          PROVE  TextDue(i, text, k)'
      BY <1>2, <1>5, <2>3, TextWorks DEF Current
    <2>4. ASSUME NEW i \in Id, NEW k \in Nat, k \in {0} \cup DOMAIN wire[Me], LifeDue(i, k)
          PROVE  LifeDue(i, k)'
      BY <1>2, <1>5, <2>4, LifeWorks
    <2>5. list' = list
      BY DEF client, store
    <2>6. ListCurrent' /\ \A k \in DOMAIN wire'[Me] : EventCurrent(k)'
      BY <1>2, <2>2, <2>3, <2>4, <2>5, CurrentKept
    <2> QED
      BY <1>2, <2>1, <2>6 DEF Current
  <1> QED
    BY <1>3, <1>4, <1>5

LEMMA BeginsCurrent ==
    ASSUME Orderly, CurrentInv, DesktopNext, NEW s \in Slot, Begins(s)
    PROVE  CurrentInv'
  <1> SUFFICES ASSUME "current" \notin excused' PROVE Current'
    BY WritersStep DEF CurrentInv
  <1>1. BaseInv /\ ClientOK
    BY DEF Orderly
  <1>2. Current /\ (\A t, w \in Writes' : t = w) /\ (Fetches' # {} => ~OnItsWay')
    BY WritersStep
  <1>3. /\ h[s] = Idle /\ Stays(s) /\ UNCHANGED <<msgs, wire, list>> /\ BegunAs(s)
        /\ h'[s].pc # "answered"
    BY <1>1, BeginsFacts, BeginsKinds DEF rows, sockets
  <1>4. Inert(h'[s]) /\ h[s].op \notin {"edit", "delete"}
    BY <1>3 DEF BegunAs, Inert, Idle
  <1> QED
    BY <1>2, <1>3, <1>4, CurrentSame DEF Stays

(* A message that is added to the list takes the place of an older version. *)
LEMMA AddedEntries ==
    ASSUME ClientOK, NEW m
    PROVE  /\ \A i \in DOMAIN AddMessage(m) : \/ AddMessage(m)[i] = m
                                              \/ \E j \in DOMAIN list : AddMessage(m)[i] = list[j] /\ list[j].id # m.id
           /\ \E i \in DOMAIN AddMessage(m) : AddMessage(m)[i] = m
           /\ Ids(list) \subseteq Ids(AddMessage(m))
  <1>1. list \in Seq(Entry) /\ Len(list) \in Nat /\ DOMAIN list = 1..Len(list)
    BY DEF ClientOK
  <1>2. CASE \E i \in DOMAIN list : list[i].id = m.id
    <2>1. AddMessage(m) = [i \in DOMAIN list |-> IF list[i].id = m.id THEN m ELSE list[i]]
      BY <1>2 DEF AddMessage
    <2> QED
      BY <1>2, <2>1 DEF Ids
  <1>3. CASE ~\E i \in DOMAIN list : list[i].id = m.id
    <2>1. AddMessage(m) = <<m>> \o list
      BY <1>3 DEF AddMessage
    <2>2. /\ DOMAIN (<<m>> \o list) = 1..(Len(list) + 1) /\ (<<m>> \o list)[1] = m
          /\ \A i \in 2..(Len(list) + 1) : (<<m>> \o list)[i] = list[i - 1]
      BY <1>1
    <2> DEFINE q == <<m>> \o list
    <2>3. /\ DOMAIN q = 1..(Len(list) + 1) /\ q[1] = m
          /\ \A i \in 2..(Len(list) + 1) : q[i] = list[i - 1]
          /\ AddMessage(m) = q
      BY <2>1, <2>2
    <2> HIDE DEF q
    <2>4. ASSUME NEW i \in DOMAIN q PROVE q[i] = m \/ \E j \in DOMAIN list : q[i] = list[j] /\ list[j].id # m.id
      BY <1>1, <1>3, <2>3
    <2>5. Ids(list) \subseteq Ids(q)
      <3>1. \A j \in DOMAIN list : j + 1 \in DOMAIN q /\ q[j + 1] = list[j]
        BY <1>1, <2>3
      <3> QED
        BY <3>1 DEF Ids
    <2>6. \E i \in DOMAIN q : q[i] = m
      BY <1>1, <2>3
    <2>7. AddMessage(m) = q
      BY <2>3
    <2> QED
      BY <2>4, <2>5, <2>6, <2>7, Zenon
  <1> QED
    BY <1>2, <1>3

LEMMA TakesCurrent ==
    ASSUME Orderly, CurrentInv, DesktopNext, NEW s \in Slot, Takes(s)
    PROVE  CurrentInv'
  <1> SUFFICES ASSUME "current" \notin excused' PROVE Current'
    BY WritersStep DEF CurrentInv
  <1>1. BaseInv /\ ClientOK
    BY DEF Orderly
  <1>2. Current /\ (\A t, w \in Writes' : t = w) /\ (Fetches' # {} => ~OnItsWay')
    BY WritersStep
  <1>3. /\ h[s].pc \in {"answered", "failed"} /\ h[s] \in Handler /\ Stays(s) /\ h'[s] = Idle
        /\ UNCHANGED <<msgs, wire>>
    BY <1>1, TakesFacts
  <1>4. Inert(h'[s]) /\ h'[s].op # "page" /\ h[s].pc # "push"
    BY <1>3 DEF Inert, Idle
  <1>5. ASSUME NEW i \in DOMAIN list'
        PROVE  \/ \E j \in DOMAIN list : list'[i] = list[j]
               \/ LET m == list'[i] IN m.text = msgs[m.id].text /\ ~msgs[m.id].deleted
    <2>1. CASE TakeList(s) \/ TakeFailure(s)
      <3>1. list' = list
        BY <2>1 DEF TakeList, TakeFailure, store
      <3> QED
        BY <3>1
    <2>2. CASE TakePage(s)
      <3>1. list' = list \o h[s].items /\ s \in Fetches /\ h[s].pc = "answered"
        BY <2>2 DEF TakePage, ShowList, Answered, At, Fetches
      <3>2. Joins(list', list, h[s].items)
        BY <1>1, <1>3, <3>1, JoinFacts DEF ClientOK, Handler, Entry
      <3>3. ASSUME NEW j \in DOMAIN h[s].items, list'[i] = h[s].items[j]
            PROVE  LET m == list'[i] IN m.text = msgs[m.id].text /\ ~msgs[m.id].deleted
        BY <1>2, <3>1, <3>3 DEF Current, PagesCurrent
      <3> QED
        BY <3>2, <3>3, JoinMembers
    <2>3. CASE TakeSent(s)
      <3> DEFINE m == [id |-> h[s].id, text |-> 0]
      <3>1. list' = AddMessage(m) /\ Pending(s)
        BY <2>3 DEF TakeSent, ShowList, Answered, At, Pending
      <3>2. m.text = msgs[m.id].text /\ ~msgs[m.id].deleted
        BY <1>2, <3>1 DEF Current, WritesCurrent
      <3> QED
        BY <1>1, <3>1, <3>2, AddedEntries
    <2> QED
      BY <2>1, <2>2, <2>3 DEF Takes
  <1> QED
    BY <1>2, <1>3, <1>4, <1>5, CurrentSame DEF Stays

(* An event is taken from the wire: what was due behind it is nearer by one. *)
LEMMA PopDue ==
    ASSUME Pops, UNCHANGED <<msgs, h>>, NEW i \in Id, NEW k \in Nat
    PROVE  /\ \A text \in Nat : TextDue(i, text, k + 1) => TextDue(i, text, k)'
           /\ LifeDue(i, k + 1) => LifeDue(i, k)'
  <1> DEFINE n == Len(wire[Me])
  <1>1. /\ n \in Nat \ {0} /\ DOMAIN wire[Me] = 1..n /\ DOMAIN wire'[Me] = 1..(n - 1)
        /\ \A j \in 1..(n - 1) : wire'[Me][j] = wire[Me][j + 1]
    BY DEF Pops
  <1> HIDE DEF n
  <1>2. ASSUME NEW j \in DOMAIN wire[Me], k + 1 < j
        PROVE  \E l \in DOMAIN wire'[Me] : k < l /\ wire'[Me][l] = wire[Me][j]
    <2>1. j - 1 \in DOMAIN wire'[Me] /\ k < j - 1 /\ wire'[Me][j - 1] = wire[Me][j]
      BY <1>1, <1>2
    <2> QED
      BY <2>1
  <1>3. ASSUME NEW text \in Nat, TextDue(i, text, k + 1) PROVE TextDue(i, text, k)'
    BY <1>2, <1>3 DEF TextDue, At
  <1>4. ASSUME LifeDue(i, k + 1) PROVE LifeDue(i, k)'
    BY <1>2, <1>4 DEF LifeDue, At
  <1> QED
    BY <1>3, <1>4

LEMMA PastHead ==
    ASSUME Pops, NEW i
    PROVE  /\ \A text : TextDue(i, text, 0) /\ ~(wire[Me][1].kind = "updated" /\ wire[Me][1].id = i)
                       => TextDue(i, text, 1)
           /\ LifeDue(i, 0) /\ ~(wire[Me][1].kind = "deleted" /\ wire[Me][1].id = i) => LifeDue(i, 1)
  <1>1. \A j \in DOMAIN wire[Me] : 0 < j /\ j # 1 => 1 < j
    BY DEF Pops
  <1>2. ASSUME NEW text, TextDue(i, text, 0), ~(wire[Me][1].kind = "updated" /\ wire[Me][1].id = i)
        PROVE  TextDue(i, text, 1)
    <2>1. ASSUME NEW j \in DOMAIN wire[Me], 0 < j, wire[Me][j].kind = "updated", wire[Me][j].id = i,
                 wire[Me][j].text = msgs[i].text
          PROVE  TextDue(i, text, 1)
      <3>1. 1 < j
        BY <1>1, <1>2, <2>1
      <3> QED
        BY <2>1, <3>1 DEF TextDue
    <2> QED
      BY <1>2, <2>1 DEF TextDue
  <1>3. ASSUME LifeDue(i, 0), ~(wire[Me][1].kind = "deleted" /\ wire[Me][1].id = i)
        PROVE  LifeDue(i, 1)
    <2>1. ASSUME NEW j \in DOMAIN wire[Me], 0 < j, wire[Me][j].kind = "deleted", wire[Me][j].id = i
          PROVE  LifeDue(i, 1)
      <3>1. 1 < j
        BY <1>1, <1>3, <2>1
      <3> QED
        BY <2>1, <3>1 DEF LifeDue
    <2> QED
      BY <1>3, <2>1 DEF LifeDue
  <1> QED
    BY <1>2, <1>3

LEMMA PopEvents ==
    ASSUME Orderly, Current, Pops, UNCHANGED <<msgs, h>>, NEW k \in DOMAIN wire'[Me]
    PROVE  EventCurrent(k)'
  <1>1. \A j \in DOMAIN wire[Me] : wire[Me][j].id \in Id /\ wire[Me][j].text \in Nat
    <2>1. wire[Me] \in Seq(PushedEvent)
      BY MeFacts DEF Orderly, BaseInv, TypeOK
    <2>2. \A j \in DOMAIN wire[Me] : wire[Me][j] \in PushedEvent
      BY <2>1
    <2> QED
      BY <2>2 DEF Orderly, ClientOK, PushedEvent
  <1>2. k \in Nat /\ k + 1 \in DOMAIN wire[Me] /\ wire'[Me][k] = wire[Me][k + 1]
    BY DEF Pops
  <1>3. PICK id \in Id, text \in Nat : wire[Me][k + 1].id = id /\ wire[Me][k + 1].text = text
    BY <1>1, <1>2
  <1>4. EventCurrent(k + 1)
    BY <1>2 DEF Current
  <1>5. /\ wire'[Me][k].kind \in {"new", "updated"} => TextDue(id, text, k + 1)
        /\ wire'[Me][k].kind = "new" => LifeDue(id, k + 1)
    BY <1>2, <1>3, <1>4 DEF EventCurrent
  <1>6. /\ wire'[Me][k].kind \in {"new", "updated"} => TextDue(id, text, k)'
        /\ wire'[Me][k].kind = "new" => LifeDue(id, k)'
    BY <1>2, <1>5, PopDue
  <1> QED
    BY <1>2, <1>3, <1>6 DEF EventCurrent, TextDue, LifeDue

LEMMA UpdatedEntries ==
    ASSUME ClientOK, NEW m
    PROVE  /\ DOMAIN UpdateMessage(m) = DOMAIN list
           /\ \A i \in DOMAIN list : IF list[i].id = m.id THEN UpdateMessage(m)[i] = m
                                                          ELSE UpdateMessage(m)[i] = list[i]
  BY DEF UpdateMessage

(* What is shown after an event: what was, but for the message it is about. *)
LEMMA EventsShow ==
    ASSUME Orderly, Events, NEW i \in DOMAIN list'
    PROVE  \/ \E j \in DOMAIN list : /\ list'[i] = list[j]
                                     /\ wire[Me][1].kind \in {"updated", "deleted"} => list[j].id # wire[Me][1].id
           \/ /\ list'[i].id = wire[Me][1].id /\ list'[i].text = wire[Me][1].text
              /\ \/ wire[Me][1].kind = "new"
                 \/ wire[Me][1].kind = "updated" /\ \E j \in DOMAIN list : list[j].id = wire[Me][1].id
  <1>1. ClientOK /\ TypeOK /\ wire[Me] # <<>> /\ Took(Me)
    BY EventsFacts DEF Orderly, BaseInv
  <1>2. Head(wire[Me]) = wire[Me][1]
    BY <1>1, TakenFromWire
  <1>3. Push.id = wire[Me][1].id /\ Push.text = wire[Me][1].text
    BY <1>2 DEF Push
  <1>4. CASE ReceiveNew
    <2>1. list' = AddMessage(Push) /\ wire[Me][1].kind = "new"
      BY <1>2, <1>4 DEF ReceiveNew, ShowList, Pushed
    <2>2. list'[i] = Push \/ \E j \in DOMAIN list : list'[i] = list[j]
      BY <1>1, <2>1, AddedEntries
    <2> QED
      BY <1>3, <2>1, <2>2
  <1>5. CASE ReceiveUpdated
    <2>1. list' = UpdateMessage(Push) /\ wire[Me][1].kind = "updated"
      BY <1>2, <1>5 DEF ReceiveUpdated, Pushed
    <2> QED
      BY <1>1, <1>3, <2>1, UpdatedEntries
  <1>6. CASE ReceiveDeleted
    <2>1. PICK p \in Kept(Push.id) : list' = [j \in DOMAIN p |-> list[p[j]]]
      BY <1>6 DEF ReceiveDeleted, ShowList
    <2>2. wire[Me][1].kind = "deleted"
      BY <1>2, <1>6 DEF ReceiveDeleted, Pushed
    <2>3. \A j \in DOMAIN p : p[j] \in DOMAIN list /\ list[p[j]].id # Push.id
      BY DEF Kept
    <2>4. list'[i] = list[p[i]] /\ p[i] \in DOMAIN list /\ list[p[i]].id # Push.id
      BY <2>1, <2>3
    <2> QED
      BY <1>3, <2>4
  <1>7. CASE ReceiveNotification
    <2>1. list' = list /\ wire[Me][1].kind = "notify"
      BY <1>2, <1>7 DEF ReceiveNotification, client, store, Pushed
    <2> QED
      BY <2>1
  <1> QED
    BY <1>4, <1>5, <1>6, <1>7 DEF Events

LEMMA EventsCurrent ==
    ASSUME Orderly, CurrentInv, DesktopNext, Events
    PROVE  CurrentInv'
  <1> SUFFICES ASSUME "current" \notin excused' PROVE Current'
    BY WritersStep DEF CurrentInv
  <1>1. TypeOK /\ ClientOK
    BY DEF Orderly, BaseInv
  <1>2. Current /\ (\A t, w \in Writes' : t = w) /\ (Fetches' # {} => ~OnItsWay')
    BY WritersStep
  <1>3. Pops /\ UNCHANGED <<msgs, h>> /\ wire[Me] # <<>>
    BY <1>1, EventsFacts DEF rows
  <1>4. WritesCurrent' /\ PagesCurrent'
    BY <1>2, <1>3 DEF Current, WritesCurrent, PagesCurrent, At, Pending, Fetches
  <1>5. \A k \in DOMAIN wire'[Me] : EventCurrent(k)'
    BY <1>2, <1>3, PopEvents
  <1>6. ASSUME NEW i \in DOMAIN list' PROVE ShownCurrent(i)'
    <2> DEFINE e == wire[Me][1]
    <2>1. 1 \in DOMAIN wire[Me] /\ e \in PushedEvent /\ e.id \in Id /\ e.text \in Nat
      BY <1>1, <1>3, EventsFacts, TakenFromWire DEF ClientOK, PushedEvent
    <2>2. EventCurrent(1)
      BY <1>2, <2>1 DEF Current
    <2>3. \A j \in DOMAIN list : /\ list[j].id \in Id /\ list[j].text \in Nat
                                 /\ TextDue(list[j].id, list[j].text, 0) /\ LifeDue(list[j].id, 0)
      <3>1. \A j \in DOMAIN list : list[j] \in Entry /\ list[j].id \in Id
        BY <1>1 DEF ClientOK
      <3> QED
        BY <1>2, <3>1 DEF Entry, Current, ListCurrent, ShownCurrent
    <2>4. ASSUME NEW id \in Id, NEW text \in Nat, list'[i].id = id, list'[i].text = text,
                 TextDue(id, text, 1), LifeDue(id, 1)
          PROVE  ShownCurrent(i)'
      <3>1. TextDue(id, text, 0)' /\ LifeDue(id, 0)'
        <4>1. 0 \in Nat /\ 0 + 1 = 1
          OBVIOUS
        <4> QED
          BY <1>3, <2>4, <4>1, PopDue
      <3> QED
        BY <2>4, <3>1 DEF ShownCurrent, TextDue, LifeDue
    <2>5. CASE \E j \in DOMAIN list : list'[i] = list[j] /\ (e.kind \in {"updated", "deleted"} => list[j].id # e.id)
      <3>1. PICK j \in DOMAIN list : list'[i] = list[j] /\ (e.kind \in {"updated", "deleted"} => list[j].id # e.id)
        BY <2>5
      <3>2. PICK id \in Id, text \in Nat : list[j].id = id /\ list[j].text = text
        BY <2>3
      <3>3. TextDue(id, text, 0) /\ LifeDue(id, 0)
        BY <2>3, <3>2
      <3>4. TextDue(id, text, 1) /\ LifeDue(id, 1)
        BY <1>3, <3>1, <3>2, <3>3, PastHead
      <3> QED
        BY <2>4, <3>1, <3>2, <3>4
    <2>6. CASE /\ list'[i].id = e.id /\ list'[i].text = e.text
               /\ e.kind = "new" \/ (e.kind = "updated" /\ \E j \in DOMAIN list : list[j].id = e.id)
      <3>1. PICK id \in Id, text \in Nat : e.id = id /\ e.text = text
        BY <2>1
      <3>2. TextDue(id, text, 1) /\ (e.kind = "new" => LifeDue(id, 1))
        BY <2>2, <2>6, <3>1 DEF EventCurrent
      <3>3. LifeDue(id, 1)
        <4>1. e.kind = "updated" => LifeDue(id, 0)
          BY <2>3, <2>6, <3>1
        <4> QED
          BY <1>3, <2>6, <3>2, <4>1, PastHead
      <3> QED
        BY <2>4, <2>6, <3>1, <3>2, <3>3
    <2> QED
      BY <2>5, <2>6, EventsShow
  <1> QED
    BY <1>2, <1>4, <1>5, <1>6 DEF Current, ListCurrent

LEMMA QuietCurrent ==
    ASSUME Orderly, CurrentInv, DesktopNext, Looks \/ SocketConnects \/ SocketDrops
    PROVE  CurrentInv'
  <1> SUFFICES ASSUME "current" \notin excused' PROVE Current'
    BY WritersStep DEF CurrentInv
  <1>1. TypeOK
    BY DEF Orderly, BaseInv
  <1>2. Current /\ (\A t, w \in Writes' : t = w) /\ (Fetches' # {} => ~OnItsWay') /\ ~Dropped
    BY WritersStep
  <1>3. UNCHANGED <<msgs, h, list, wire>>
    BY <1>1, <1>2, QuietFacts DEF rows, sockets, Dropped, Connected
  <1> QED
    BY <1>2, <1>3, CurrentSame

LEMMA CurrentStep ==
    ASSUME Orderly, ServerOK, CurrentInv, [DesktopNext]_mcVars
    PROVE  CurrentInv'
  <1>1. CASE UNCHANGED mcVars
    BY <1>1 DEF mcVars, allVars, vars, client, store, screen, rows, sockets, bounds, CurrentInv, Current, Writes, Fetches,
       OnItsWay, Pushing, WritesCurrent, ListCurrent, ShownCurrent, PagesCurrent, EventCurrent, TextDue, LifeDue, At, Pending
  <1>2. CASE DesktopNext
    BY <1>2, RunCases, WorksCurrent, BeginsCurrent, TakesCurrent, EventsCurrent, QuietCurrent
  <1> QED
    BY <1>1, <1>2

LEMMA CurrentGives ==
    ASSUME Orderly, CurrentInv
    PROVE  ShownIsCurrent
  <1> SUFFICES ASSUME Quiet, "current" \notin excused, NEW i \in DOMAIN list
               PROVE  list[i].id \in Live /\ list[i].text = msgs[list[i].id].text
    BY DEF ShownIsCurrent
  <1>1. list[i].id \in Id
    BY DEF Orderly, ClientOK
  <1>2. TextDue(list[i].id, list[i].text, 0) /\ LifeDue(list[i].id, 0)
    BY DEF CurrentInv, Current, ListCurrent, ShownCurrent
  <1>3. DOMAIN wire[Me] = {} /\ \A s \in Slot : h[s].op = "none"
    BY DEF Quiet, Idle
  <1> QED
    BY <1>1, <1>2, <1>3 DEF TextDue, LifeDue, At, Live

LEMMA CurrentInit == MCInit => ServerOK /\ ScreenOK /\ CurrentInv
  <1> SUFFICES ASSUME MCInit PROVE ServerOK /\ ScreenOK /\ CurrentInv
    OBVIOUS
  <1>1. /\ Init /\ page = "away" /\ active = FALSE /\ loading = NoSlot /\ list = <<>> /\ badge = 0
    BY DEF MCInit, ClientInit
  <1>2. /\ member = User /\ wire[Me] = <<>>
        /\ \A s \in Slot : h[s].op = "none" /\ h[s].pc = "idle"
    BY <1>1, MeFacts DEF Init, Idle
  <1>3. ServerOK
    BY <1>2 DEF ServerOK, OnlyNotified, At, Pending, ReaderOK
  <1>4. ScreenOK
    BY <1>1, MeAssumption DEF ScreenOK
  <1>5. Writes = {} /\ Fetches = {}
    BY <1>2 DEF Writes, Fetches
  <1>6. CurrentInv
    BY <1>1, <1>2, <1>5, FS_EmptySet DEF CurrentInv, Current, WritesCurrent, ListCurrent, PagesCurrent, At, Pending
  <1> QED
    BY <1>3, <1>4, <1>6

-----------------------------------------------------------------------------
(* The history.  A message is got when it is shown, when its push is coming, or *)
(* when it shares its millisecond with another one.  What is not older than the *)
(* cursor is got, and a page is what is older than the cursor it was asked for. *)
Tied(i) == \E j \in Id \ {i} : msgs[j].at = msgs[i].at

Coming(i) ==
    \/ \E s \in Slot : h[s].op = "create" /\ h[s].pc \in {"touch", "push"} /\ h[s].id = i
    \/ \E k \in DOMAIN wire[Me] : wire[Me][k].kind = "new" /\ wire[Me][k].id = i

Got(i) == i \in Ids(list) \/ Tied(i) \/ Coming(i)
Covered(t) == \A i \in Live : msgs[i].at >= t => Got(i)
Floor == IF more THEN cursor ELSE 0
Begun == list # <<>> \/ more \/ (page = "thread" /\ Fetches = {})

PageHistory(s) ==
    /\ h[s].pc # "failed"
    /\ h[s].pc = "find" /\ h[s].next # 0 => Covered(h[s].next)
    /\ h[s].pc = "answered" =>
          /\ h[s].more => h[s].items # <<>>
          /\ \A i \in Live : msgs[i].at >= (IF h[s].more THEN h[s].next ELSE 0) => Got(i) \/ i \in Ids(h[s].items)

Hist ==
    /\ Begun => \A i \in Live : msgs[i].at >= Floor => Got(i)
    /\ Me \notin room /\ more => list # <<>>
    /\ \A s \in Fetches : PageHistory(s)
HistInv == "history" \notin excused => Hist

LEMMA HistExcuses ==
    ASSUME DesktopNext, "history" \notin excused'
    PROVE  /\ "history" \notin excused
           /\ ~PushFirst /\ ~FetchSkipped /\ faults' = faults /\ ~Missed /\ ~Dropped
  <1>1. excused' = excused \cup Excuses
    BY DEF DesktopNext
  <1> QED
    BY <1>1 DEF Excuses

(* What is got stays so, and what is new is coming. *)
GotStays ==
    \A i \in Live' : Coming(i)' \/ (i \in Live /\ msgs'[i].at = msgs[i].at /\ (Got(i) => Got(i)'))

LEMMA HistKept ==
    ASSUME Hist, GotStays, UNCHANGED <<more, cursor>>, Begun' => Begun,
           Me \notin room' /\ more => list' # <<>>,
           \A t \in Fetches' : (t \in Fetches /\ h'[t] = h[t]) \/ PageHistory(t)'
    PROVE  Hist'
  <1>1. \A i \in Live' : Got(i)' \/ (i \in Live /\ msgs'[i].at = msgs[i].at /\ (Got(i) => Got(i)'))
    BY DEF GotStays, Got
  <1>2. Begun' => \A i \in Live' : msgs'[i].at >= Floor' => Got(i)'
    BY <1>1 DEF Hist, Floor
  <1>3. ASSUME NEW t \in Fetches', t \in Fetches, h'[t] = h[t] PROVE PageHistory(t)'
    <2>1. PageHistory(t)
      BY <1>3 DEF Hist
    <2>2. h[t].pc = "find" /\ h[t].next # 0 => \A i \in Live' : msgs'[i].at >= h[t].next => Got(i)'
      BY <1>1, <2>1 DEF PageHistory, Covered
    <2>3. h[t].pc = "answered" =>
            \A i \in Live' : msgs'[i].at >= (IF h[t].more THEN h[t].next ELSE 0) => Got(i)' \/ i \in Ids(h[t].items)
      BY <1>1, <2>1 DEF PageHistory
    <2> QED
      BY <1>3, <2>1, <2>2, <2>3 DEF PageHistory, Covered, Ids
  <1> QED
    BY <1>2, <1>3 DEF Hist

LEMMA TouchFacts ==
    ASSUME BaseInv, NEW s \in Slot, TouchMembers(s)
    PROVE  h'[s].op = "create" /\ h'[s].pc = "push" /\ h'[s].id = h[s].id
  <1>1. h[s] \in Handler /\ h'[s] = [h[s] EXCEPT !.pc = "push"] /\ h[s].op = "create"
    BY GotoFacts, HandlerFacts DEF BaseInv, TouchMembers, At
  <1> QED
    BY <1>1 DEF Handler

LEMMA ComingWorks ==
    ASSUME BaseInv, NEW s \in Slot, Continue(s), PushNew(s) => Me \in room, NEW i, Coming(i)
    PROVE  Coming(i)'
  <1>1. TypeOK
    BY DEF BaseInv
  <1>2. ASSUME NEW k \in DOMAIN wire[Me], wire[Me][k].kind = "new", wire[Me][k].id = i PROVE Coming(i)'
    BY <1>1, <1>2, WirePrefix DEF Coming
  <1>3. ASSUME NEW t \in Slot, h[t].op = "create", h[t].pc \in {"touch", "push"}, h[t].id = i PROVE Coming(i)'
    <2>1. CASE t # s
      <3>1. h'[t] = h[t]
        BY <2>1, WorksFacts DEF Stays
      <3> QED
        BY <1>3, <3>1 DEF Coming
    <2>2. CASE t = s
      <3>1. TouchMembers(s) \/ PushNew(s)
        BY <1>3, <2>2 DEF Continue, InsertMessage, WriteEdit, WriteDelete, TouchMembers, FindPage, ListCounts,
           ReadMessage, WriteSeen, JoinRoom, PushNew, NotifyOthers, PushEdit, PushDeleted, At
      <3>2. CASE TouchMembers(s)
        BY <1>3, <2>2, <3>2, TouchFacts DEF Coming
      <3>3. CASE PushNew(s)
        <4>1. Tells("new", i, msgs[i].text)
          BY <1>1, <1>3, <2>2, <3>3, PushTells
        <4>2. PICK k \in DOMAIN wire'[Me] : wire'[Me][k] = [kind |-> "new", id |-> i, text |-> msgs[i].text]
          BY <4>1 DEF Tells, Adds
        <4> QED
          BY <4>2 DEF Coming
      <3> QED
        BY <3>1, <3>2, <3>3
    <2> QED
      BY <2>1, <2>2
  <1> QED
    BY <1>2, <1>3 DEF Coming

LEMMA GotWorks ==
    ASSUME Orderly, NEW s \in Slot, Continue(s), PushNew(s) => Me \in room, UNCHANGED client
    PROVE  GotStays
  <1>1. BaseInv /\ Next /\ InOrder
    BY DEF Orderly, Next
  <1>2. list' = list /\ Id \subseteq Id' /\ \A i \in Id : msgs'[i].at = msgs[i].at
    BY <1>1, GrowthFacts DEF client, store
  <1>3. ASSUME NEW i \in Id, Got(i) PROVE Got(i)'
    <2>1. CASE i \in Ids(list)
      BY <1>2, <2>1 DEF Got, Ids
    <2>2. CASE Tied(i)
      BY <1>2, <2>2 DEF Got, Tied
    <2>3. CASE Coming(i)
      BY <1>1, <2>3, ComingWorks DEF Got
    <2> QED
      BY <1>3, <2>1, <2>2, <2>3 DEF Got
  <1>4. ASSUME NEW i \in Live', i \notin Id PROVE Coming(i)'
    <2>1. InsertMessage(s)
      <3> SUFFICES ASSUME ~InsertMessage(s) PROVE Len(msgs') = Len(msgs)
        BY <1>4 DEF Live, Id
      <3> QED
        BY <1>1, ContinueCases, CalmFacts, WriteEditFacts, WriteDeleteFacts
           DEF Emits, PushNew, NotifyOthers, PushEdit, PushDeleted, rows
    <2>2. h'[s].op = "create" /\ h'[s].pc = "touch" /\ h'[s].id = Len(msgs) + 1
          /\ Len(msgs') = Len(msgs) + 1 /\ Len(msgs) \in Nat
      BY <1>1, <2>1, InsertFacts
    <2>3. i = Len(msgs) + 1
      BY <1>4, <2>2 DEF Live, Id
    <2> QED
      BY <2>2, <2>3 DEF Coming
  <1>5. ASSUME NEW i \in Live', i \in Id PROVE i \in Live
    BY <1>1, <1>5, MessagesGrow DEF Live, Grows
  <1> QED
    BY <1>2, <1>3, <1>4, <1>5 DEF GotStays

LEMMA PageFinds ==
    ASSUME NEW s \in Slot, Continue(s), h[s].op = "page"
    PROVE  FindPage(s)
  BY DEF Continue, InsertMessage, WriteEdit, WriteDelete, TouchMembers, FindPage, ListCounts,
         ReadMessage, WriteSeen, JoinRoom, PushNew, NotifyOthers, PushEdit, PushDeleted, At

(* The page reaches back from its cursor; what is newer was got before. *)
LEMMA FoundHistory ==
    ASSUME Orderly, Hist, NEW s \in Fetches, FindPage(s), GotStays
    PROVE  PageHistory(s)'
  <1> DEFINE n == h[s].next
             r == h'[s]
  <1>1. BaseInv /\ TypeOK /\ s \in Slot /\ h[s].pc = "find"
    BY DEF Orderly, BaseInv, Fetches, FindPage, At
  <1>2. r \in Handler /\ r.pc = "answered" /\ PageOK(r, n) /\ msgs' = msgs
    BY <1>1, FindPageFollows DEF FindPage, rows
  <1>3. n \in Nat /\ r.next \in Nat /\ \A i \in Id : msgs[i].at \in Nat
    <2>1. h[s] \in Handler
      BY <1>1, HandlerFacts
    <2>2. \A i \in Id : msgs[i] \in Row
      BY <1>1 DEF TypeOK, Id
    <2> QED
      BY <1>2, <2>1, <2>2 DEF Handler, Row
  <1>4. n # 0 => Covered(n)
    BY <1>1 DEF Hist, PageHistory
  <1> HIDE DEF n, r
  <1>5. r.more => r.items # <<>>
    BY <1>2 DEF PageOK
  <1>6. ASSUME NEW i \in Live', msgs'[i].at >= (IF r.more THEN r.next ELSE 0)
        PROVE  Got(i)' \/ i \in Ids(r.items)
    <2>1. i \in Live /\ i \in Id
      BY <1>2 DEF Live, Id
    <2>2. CASE n = 0 \/ msgs[i].at < n
      <3>1. r.more => r.next <= msgs[i].at
        BY <1>2, <1>3, <1>6, <2>1
      <3>2. (\E k \in DOMAIN r.items : r.items[k].id = i) \/ \E j \in Id \ {i} : msgs[j].at = msgs[i].at
        BY <1>2, <2>1, <2>2, <3>1 DEF PageOK
      <3>3. (\E j \in Id \ {i} : msgs[j].at = msgs[i].at) => Tied(i)'
        BY <1>2 DEF Tied, Id
      <3> QED
        BY <3>2, <3>3 DEF Got, Ids
    <2>3. CASE n # 0 /\ msgs[i].at >= n
      <3>1. Got(i)
        BY <1>4, <2>1, <2>3 DEF Covered
      <3> QED
        BY <1>6, <3>1 DEF GotStays, Got
    <2> QED
      BY <1>3, <2>1, <2>2, <2>3
  <1> QED
    BY <1>2, <1>5, <1>6 DEF PageHistory, r, Ids

LEMMA WorksHist ==
    ASSUME Orderly, HistInv, DesktopNext, NEW s \in Slot, Continue(s) \/ Fail(s), UNCHANGED client
    PROVE  HistInv'
  <1> SUFFICES ASSUME "history" \notin excused' PROVE Hist'
    BY DEF HistInv
  <1>1. BaseInv /\ TypeOK
    BY DEF Orderly, BaseInv
  <1>2. Hist /\ faults' = faults /\ ~Missed
    BY HistExcuses DEF HistInv
  <1>3. Continue(s)
    BY <1>1, <1>2 DEF Fail, TypeOK
  <1>4. UNCHANGED <<list, more, cursor, page>> /\ room \subseteq room' /\ Stays(s)
    BY <1>1, RoomStep, WorksFacts DEF client, store, screen
  <1>5. CASE (PushNew(s) \/ PushEdit(s) \/ PushDeleted(s)) /\ Me \notin room
    <2>1. list = <<>> /\ Fetches = {} /\ page # "thread"
      BY <1>1, <1>2, <1>5, MissedFacts
    <2>2. ~more
      BY <1>2, <1>5, <2>1 DEF Hist
    <2>3. Fetches' = {}
      <3>1. \A t \in Slot : t \in Fetches' => t \in Fetches
        BY <1>1, <1>4, FetchWorks DEF Stays, Fetches
      <3> QED
        BY <2>1, <3>1 DEF Fetches
    <2> QED
      BY <1>4, <2>1, <2>2, <2>3 DEF Hist, Begun
  <1>6. CASE PushNew(s) => Me \in room
    <2>1. GotStays
      BY <1>3, <1>6, GotWorks
    <2>2. Begun' => Begun
      <3>1. Fetches # {} => Fetches' # {}
        <4> SUFFICES ASSUME NEW t \in Fetches PROVE t \in Fetches'
          OBVIOUS
        <4>1. t = s \/ h'[t] = h[t]
          BY <1>4 DEF Stays, Fetches
        <4> QED
          BY <1>1, <1>3, <4>1, FetchStays DEF Fetches
      <3> QED
        BY <1>4, <3>1 DEF Begun
    <2>3. ASSUME NEW t \in Fetches' PROVE (t \in Fetches /\ h'[t] = h[t]) \/ PageHistory(t)'
      <3>1. CASE t # s
        BY <1>4, <3>1 DEF Stays, Fetches
      <3>2. CASE t = s
        <4>1. s \in Fetches
          BY <1>1, <2>3, <3>2, FetchWorks
        <4>2. FindPage(s)
          BY <1>3, <4>1, PageFinds DEF Fetches
        <4> QED
          BY <1>2, <2>1, <3>2, <4>1, <4>2, FoundHistory
      <3> QED
        BY <3>1, <3>2
    <2>4. Me \notin room' /\ more => list' # <<>>
      BY <1>2, <1>4 DEF Hist
    <2> QED
      BY <1>2, <1>4, <2>1, <2>2, <2>3, <2>4, HistKept
  <1> QED
    BY <1>5, <1>6

(* What is got when messages, wire and list are as before. *)
LEMMA GotSame ==
    ASSUME UNCHANGED msgs, wire'[Me] = wire[Me], \A i \in Ids(list) : i \in Ids(list)',
           \A t \in Slot : h'[t] = h[t] \/ h[t].op # "create" \/ h[t].pc \notin {"touch", "push"}
    PROVE  GotStays
  <1>1. ASSUME NEW i, Got(i) PROVE Got(i)'
    BY <1>1 DEF Got, Tied, Coming, Id
  <1> QED
    BY <1>1 DEF GotStays, Live, Id

LEMMA BeginsHist ==
    ASSUME Orderly, HistInv, DesktopNext, NEW s \in Slot, Begins(s)
    PROVE  HistInv'
  <1> SUFFICES ASSUME "history" \notin excused' PROVE Hist'
    BY DEF HistInv
  <1>1. BaseInv /\ TypeOK /\ ClientOK /\ cursor \in Nat /\ Hist
    BY HistExcuses DEF Orderly, BaseInv, ClientOK, HistInv
  <1>2. /\ h[s] = Idle /\ Stays(s) /\ UNCHANGED <<msgs, wire, room, list, more, cursor>>
        /\ h'[s].pc # "answered" /\ BegunAs(s)
        /\ h'[s].op = "page" => (h'[s].next = 0 /\ list = <<>>) \/ (h'[s].next = cursor /\ more)
    BY <1>1, BeginsFacts, BeginsKinds DEF rows, sockets
  <1>3. GotStays
    <2>1. \A t \in Slot : h'[t] = h[t] \/ h[t].op # "create"
      BY <1>2 DEF Stays, Idle
    <2> QED
      BY <1>2, <2>1, GotSame DEF Ids
  <1>4. Begun' => Begun
    <2>1. s \notin Fetches /\ (Fetches # {} => Fetches' # {})
      BY <1>2 DEF Fetches, Idle, Stays
    <2>2. page' = "thread" => page = "thread" \/ s \in Fetches'
      <3>1. CASE OpenThread(s) /\ Fetched(s)
        BY <1>1, <3>1, PageFacts DEF Fetched, Fetches
      <3>2. CASE ~(OpenThread(s) /\ Fetched(s))
        BY <3>2 DEF Begins, EventArrives, OpenChats, LoadOlder, Send, client, screen
      <3> QED
        BY <3>1, <3>2
    <2> QED
      BY <1>2, <2>1, <2>2 DEF Begun
  <1>5. ASSUME NEW t \in Fetches' PROVE (t \in Fetches /\ h'[t] = h[t]) \/ PageHistory(t)'
    <2>1. CASE t # s
      BY <1>2, <2>1 DEF Stays, Fetches
    <2>2. CASE t = s
      <3>1. h'[s].op = "page" /\ h'[s].pc = "find"
        BY <1>2, <1>5, <2>2 DEF Fetches, BegunAs
      <3>2. ASSUME h'[s].next # 0, NEW i \in Live', msgs'[i].at >= h'[s].next PROVE Got(i)'
        <4>1. h'[s].next = cursor /\ more
          BY <1>2, <3>1, <3>2
        <4>2. i \in Live /\ msgs'[i].at = msgs[i].at
          BY <1>2 DEF Live, Id
        <4>3. Got(i)
          BY <1>1, <3>2, <4>1, <4>2 DEF Hist, Begun, Floor
        <4> QED
          BY <1>3, <4>3 DEF GotStays, Got
      <3> QED
        BY <2>2, <3>1, <3>2 DEF PageHistory, Covered
    <2> QED
      BY <2>1, <2>2
  <1>6. Me \notin room' /\ more => list' # <<>>
    BY <1>1, <1>2 DEF Hist
  <1> QED
    BY <1>1, <1>2, <1>3, <1>4, <1>5, <1>6, HistKept

LEMMA FetchesOfTakes ==
    ASSUME BaseInv, ClientOK, NEW s \in Slot, Takes(s)
    PROVE  /\ \A t \in Fetches' : t # s /\ t \in Fetches /\ h'[t] = h[t]
           /\ s \notin Fetches => Fetches' = Fetches
  <1>1. Stays(s) /\ h'[s] = Idle
    BY TakesFacts
  <1> QED
    BY <1>1 DEF Stays, Fetches, Idle

LEMMA PageTaken ==
    ASSUME Orderly, Hist, NEW s \in Slot, TakePage(s)
    PROVE  Hist'
  <1>1. BaseInv /\ ClientOK /\ TypeOK /\ Takes(s)
    BY DEF Orderly, BaseInv, Takes
  <1>2. h[s] \in Handler /\ Stays(s) /\ h'[s] = Idle /\ UNCHANGED <<msgs, wire>>
    BY <1>1, TakesFacts
  <1>3. /\ list' = list \o h[s].items /\ more' = h[s].more /\ cursor' = h[s].next
        /\ s \in Fetches /\ h[s].pc = "answered" /\ UNCHANGED room
    BY DEF TakePage, ShowList, Answered, At, Fetches, sockets
  <1>4. Joins(list', list, h[s].items)
    BY <1>1, <1>2, <1>3, JoinFacts DEF ClientOK, Handler, Entry
  <1>5. \A i : i \in Ids(list)' <=> i \in Ids(list) \/ i \in Ids(h[s].items)
    <2>1. \A j \in DOMAIN list : j \in DOMAIN list' /\ list'[j] = list[j]
      BY <1>4 DEF Joins
    <2>2. \A j \in DOMAIN h[s].items : \E k \in DOMAIN list' : list'[k] = h[s].items[j]
      <3> SUFFICES ASSUME NEW j \in DOMAIN h[s].items PROVE \E k \in DOMAIN list' : list'[k] = h[s].items[j]
        OBVIOUS
      <3>1. Len(list) + j \in DOMAIN list' /\ list'[Len(list) + j] = h[s].items[j]
        BY <1>4 DEF Joins
      <3> QED
        BY <3>1
    <2>3. \A k \in DOMAIN list' : \/ \E j \in DOMAIN list : list'[k] = list[j]
                                  \/ \E j \in DOMAIN h[s].items : list'[k] = h[s].items[j]
      BY <1>4, JoinMembers
    <2> QED
      BY <2>1, <2>2, <2>3 DEF Ids
  <1>6. GotStays
    <2>1. h[s].op # "create"
      BY <1>3 DEF Fetches
    <2> QED
      BY <1>2, <1>5, <2>1, GotSame DEF Stays
  <1>7. PageHistory(s)
    BY <1>3 DEF Hist
  <1>8. ASSUME NEW i \in Live', msgs'[i].at >= Floor' PROVE Got(i)'
    <2>1. i \in Live /\ msgs'[i].at = msgs[i].at
      BY <1>2 DEF Live, Id
    <2>2. Got(i) \/ i \in Ids(h[s].items)
      BY <1>3, <1>7, <1>8, <2>1 DEF PageHistory, Floor
    <2> QED
      BY <1>5, <1>6, <2>1, <2>2 DEF GotStays, Got
  <1>9. more' => list' # <<>>
    <2> SUFFICES ASSUME more' PROVE DOMAIN list' # {}
      OBVIOUS
    <2>1. h[s].items # <<>>
      BY <1>3, <1>7 DEF PageHistory
    <2>2. 1 \in DOMAIN list'
      BY <1>2, <1>4, <2>1 DEF Joins, Handler
    <2> QED
      BY <2>2
  <1>10. ASSUME NEW t \in Fetches' PROVE PageHistory(t)'
    <2>1. t \in Fetches /\ h'[t] = h[t]
      BY <1>1, FetchesOfTakes
    <2>2. /\ PageHistory(t)
          /\ \A i \in Live' : Got(i)' \/ (i \in Live /\ msgs'[i].at = msgs[i].at /\ (Got(i) => Got(i)'))
      BY <1>6, <2>1 DEF Hist, GotStays, Got
    <2>3. h[t].pc = "find" /\ h[t].next # 0 => \A i \in Live' : msgs'[i].at >= h[t].next => Got(i)'
      BY <2>2 DEF PageHistory, Covered
    <2>4. h[t].pc = "answered" =>
            \A i \in Live' : msgs'[i].at >= (IF h[t].more THEN h[t].next ELSE 0) => Got(i)' \/ i \in Ids(h[t].items)
      BY <2>2 DEF PageHistory
    <2> QED
      BY <2>1, <2>2, <2>3, <2>4 DEF PageHistory, Covered, Ids
  <1> QED
    BY <1>8, <1>9, <1>10 DEF Hist

LEMMA TakesHist ==
    ASSUME Orderly, HistInv, DesktopNext, NEW s \in Slot, Takes(s)
    PROVE  HistInv'
  <1> SUFFICES ASSUME "history" \notin excused' PROVE Hist'
    BY DEF HistInv
  <1>1. BaseInv /\ ClientOK /\ Hist /\ ~PushFirst
    BY HistExcuses DEF Orderly, HistInv
  <1>2. Stays(s) /\ h'[s] = Idle /\ UNCHANGED <<msgs, wire>>
    BY <1>1, TakesFacts
  <1>3. CASE TakePage(s)
    BY <1>1, <1>3, PageTaken
  <1>4. CASE ~TakePage(s)
    <2>1. UNCHANGED <<more, cursor, page, room>>
      BY <1>4 DEF Takes, TakeList, TakeSent, TakeFailure, store, screen, sockets
    <2>2. s \notin Fetches
      <3>1. CASE TakeFailure(s)
        BY <1>1, <3>1 DEF TakeFailure, Hist, PageHistory
      <3>2. CASE TakeList(s) \/ TakeSent(s)
        BY <3>2 DEF TakeList, TakeSent, Answered, At, Fetches
      <3> QED
        BY <1>4, <3>1, <3>2 DEF Takes
    <2>3. Fetches' = Fetches /\ \A t \in Fetches' : h'[t] = h[t]
      BY <1>1, <2>2, FetchesOfTakes
    <2>4. (\A i \in Ids(list) : i \in Ids(list)') /\ (list' # <<>> => list # <<>>) /\ (list # <<>> => list' # <<>>)
      <3>1. CASE TakeList(s) \/ TakeFailure(s)
        <4>1. list' = list
          BY <3>1 DEF TakeList, TakeFailure, store
        <4> QED
          BY <4>1 DEF Ids
      <3>2. CASE TakeSent(s)
        <4> DEFINE m == [id |-> h[s].id, text |-> 0]
        <4>1. list' = AddMessage(m)
          BY <3>2 DEF TakeSent, ShowList
        <4> HIDE DEF m
        <4>2. DOMAIN list' # {} /\ Ids(list) \subseteq Ids(AddMessage(m))
          BY <1>1, <4>1, AddedEntries
        <4>3. Asked' = Asked
          BY <2>3 DEF Asked
        <4>4. list' # <<>> /\ list # <<>>
          BY <1>1, <4>2, <4>3 DEF PushFirst
        <4> QED
          BY <4>1, <4>2, <4>4 DEF Ids
      <3> QED
        BY <1>4, <3>1, <3>2 DEF Takes
    <2>5. GotStays
      <3>1. h[s].pc \in {"answered", "failed"}
        BY <1>1, TakesFacts
      <3> QED
        BY <1>2, <2>4, <3>1, GotSame DEF Stays
    <2>6. Begun' => Begun
      BY <2>1, <2>3, <2>4 DEF Begun
    <2>7. Me \notin room' /\ more => list' # <<>>
      BY <1>1, <2>1, <2>4 DEF Hist
    <2>8. \A t \in Fetches' : t \in Fetches /\ h'[t] = h[t]
      BY <2>3
    <2> QED
      BY <1>1, <2>1, <2>5, <2>6, <2>7, <2>8, HistKept
  <1> QED
    BY <1>3, <1>4

(* The list after an event: a deleted message is gone, a new one is there. *)
LEMMA EventsKeepIds ==
    ASSUME Orderly, ServerOK, Events
    PROVE  /\ \A i \in Ids(list) : i \in Ids(list)' \/ i \notin Live
           /\ wire[Me][1].kind = "new" => wire[Me][1].id \in Ids(list)'
           /\ list' = <<>> /\ list # <<>> => Me \in room
  <1>1. ClientOK /\ TypeOK /\ wire[Me] # <<>> /\ Took(Me)
    BY EventsFacts DEF Orderly, BaseInv
  <1>2. Head(wire[Me]) = wire[Me][1] /\ 1 \in DOMAIN wire[Me]
    BY <1>1, TakenFromWire
  <1>3. Push.id = wire[Me][1].id
    BY <1>2 DEF Push
  <1>4. CASE ReceiveNew
    <2>1. list' = AddMessage(Push) /\ wire[Me][1].kind = "new"
      BY <1>2, <1>4 DEF ReceiveNew, ShowList, Pushed
    <2>2. \E i \in DOMAIN AddMessage(Push) : AddMessage(Push)[i] = Push
      BY <1>1, AddedEntries
    <2>3. Ids(list) \subseteq Ids(AddMessage(Push))
      BY <1>1, AddedEntries
    <2>4. (\E i \in DOMAIN list' : list'[i] = Push) /\ \A i \in Ids(list) : i \in Ids(list)'
      BY <2>1, <2>2, <2>3 DEF Ids
    <2>5. list' # <<>>
      BY <2>4
    <2> QED
      BY <1>3, <2>4, <2>5 DEF Ids
  <1>5. CASE ReceiveUpdated
    <2>1. list' = UpdateMessage(Push) /\ wire[Me][1].kind = "updated"
      BY <1>2, <1>5 DEF ReceiveUpdated, Pushed
    <2>2. DOMAIN list' = DOMAIN list /\ \A i \in DOMAIN list : list'[i].id = list[i].id
      BY <1>1, <2>1, UpdatedEntries
    <2>3. Me \in room
      BY <1>2, <2>1 DEF ServerOK, OnlyNotified
    <2> QED
      BY <2>1, <2>2, <2>3 DEF Ids
  <1>6. CASE ReceiveDeleted
    <2>1. PICK p \in Kept(Push.id) : list' = [j \in DOMAIN p |-> list[p[j]]]
      BY <1>6 DEF ReceiveDeleted, ShowList
    <2>2. wire[Me][1].kind = "deleted"
      BY <1>2, <1>6 DEF ReceiveDeleted, Pushed
    <2>3. Me \in room /\ Push.id \notin Live
      BY <1>2, <1>3, <2>2 DEF ServerOK, OnlyNotified, Live
    <2>4. ASSUME NEW j \in DOMAIN list, list[j].id # Push.id PROVE list[j].id \in Ids(list)'
      <3> DEFINE S == {i \in DOMAIN list : list[i].id # Push.id}
      <3>1. /\ p \in [1..Cardinality(S) -> S] /\ j \in S
            /\ \A k, l \in DOMAIN p : k < l => p[k] < p[l]
        BY <2>4 DEF Kept
      <3>2. IsFiniteSet(S) /\ Cardinality(S) \in Nat /\ \A k \in S : k \in Nat
        <4>1. list \in Seq(Entry)
          BY <1>1 DEF ClientOK
        <4>2. IsFiniteSet(1..Len(list)) /\ DOMAIN list = 1..Len(list) /\ Len(list) \in Nat
          BY <4>1, FS_Interval
        <4> QED
          BY <4>2, FS_Subset, FS_CardinalityType
      <3> HIDE DEF S
      <3>3. \A k, l \in 1..Cardinality(S) : p[k] = p[l] => k = l
        BY <3>1, <3>2
      <3>4. PICK k \in 1..Cardinality(S) : p[k] = j
        BY <3>1, <3>2, <3>3, Onto
      <3>5. k \in DOMAIN list' /\ list'[k] = list[j]
        BY <2>1, <3>1, <3>4
      <3> QED
        BY <3>5 DEF Ids
    <2> QED
      BY <2>2, <2>3, <2>4 DEF Ids
  <1>7. CASE ReceiveNotification
    <2>1. list' = list /\ wire[Me][1].kind = "notify"
      BY <1>2, <1>7 DEF ReceiveNotification, client, store, Pushed
    <2> QED
      BY <2>1 DEF Ids
  <1> QED
    BY <1>4, <1>5, <1>6, <1>7 DEF Events

LEMMA ComingPopped ==
    ASSUME Pops, UNCHANGED h, NEW i, Coming(i)
    PROVE  Coming(i)' \/ (wire[Me][1].kind = "new" /\ wire[Me][1].id = i)
  <1>1. ASSUME NEW k \in DOMAIN wire[Me], k # 1 PROVE \E j \in DOMAIN wire'[Me] : wire'[Me][j] = wire[Me][k]
    <2>1. k - 1 \in DOMAIN wire'[Me] /\ wire'[Me][k - 1] = wire[Me][k]
      BY <1>1 DEF Pops
    <2> QED
      BY <2>1
  <1> QED
    BY <1>1 DEF Coming

LEMMA EventsHist ==
    ASSUME Orderly, ServerOK, HistInv, DesktopNext, Events
    PROVE  HistInv'
  <1> SUFFICES ASSUME "history" \notin excused' PROVE Hist'
    BY DEF HistInv
  <1>1. TypeOK /\ Hist /\ ~PushFirst
    BY HistExcuses DEF Orderly, BaseInv, HistInv
  <1>2. Pops /\ UNCHANGED <<msgs, h, room>>
    BY <1>1, EventsFacts DEF rows
  <1>3. UNCHANGED <<more, cursor, page>>
    BY DEF Events, ReceiveNew, ReceiveUpdated, ReceiveDeleted, ReceiveNotification, client, store, screen
  <1>4. Fetches' = Fetches /\ Asked' = Asked
    BY <1>2 DEF Fetches, Asked
  <1>5. list' # <<>> => list # <<>>
    BY <1>1, <1>4 DEF PushFirst
  <1>6. GotStays
    <2>1. ASSUME NEW i \in Live, Got(i) PROVE Got(i)'
      <3>1. CASE i \in Ids(list)
        BY <3>1, EventsKeepIds DEF Got
      <3>2. CASE Tied(i)
        BY <1>2, <3>2 DEF Got, Tied, Id
      <3>3. CASE Coming(i)
        BY <1>2, <3>3, ComingPopped, EventsKeepIds DEF Got
      <3> QED
        BY <2>1, <3>1, <3>2, <3>3 DEF Got
    <2> QED
      BY <1>2, <2>1 DEF GotStays, Live, Id
  <1>7. Me \notin room' /\ more => list' # <<>>
    BY <1>1, <1>2, EventsKeepIds DEF Hist
  <1>8. Begun' => Begun
    BY <1>3, <1>4, <1>5 DEF Begun
  <1>9. \A t \in Fetches' : t \in Fetches /\ h'[t] = h[t]
    BY <1>2, <1>4
  <1> QED
    BY <1>1, <1>3, <1>6, <1>7, <1>8, <1>9, HistKept

LEMMA QuietHist ==
    ASSUME Orderly, ScreenOK, HistInv, DesktopNext, Looks \/ SocketConnects \/ SocketDrops
    PROVE  HistInv'
  <1> SUFFICES ASSUME "history" \notin excused' PROVE Hist'
    BY DEF HistInv
  <1>1. TypeOK /\ BaseInv /\ ClientOK /\ Hist /\ ~FetchSkipped /\ ~Dropped
    BY HistExcuses DEF Orderly, BaseInv, HistInv
  <1>2. UNCHANGED <<msgs, h, list, more, cursor, wire, room>>
    BY <1>1, QuietFacts DEF rows, sockets, Dropped, Connected
  <1>3. Fetches' = Fetches
    BY <1>2 DEF Fetches
  <1>4. Begun' => Begun
    <2> SUFFICES ASSUME list = <<>>, page' = "thread", page # "thread" PROVE Fetches # {}
      BY <1>2, <1>3 DEF Begun
    <2>1. PICK s \in Slot : OpenThread(s)
      BY DEF Looks, OpenOther, OtherAnswers, CloseThread, LeaveChats, SocketConnects, SocketDrops, screen
    <2>2. ~PageVerifies(s, me, Me, 0)
      <3> SUFFICES ASSUME PageVerifies(s, me, Me, 0) PROVE FALSE
        OBVIOUS
      <3>1. h[s] = Idle /\ h'[s].op = "page"
        BY <1>1, PageFacts
      <3> QED
        BY <1>2, <3>1 DEF Idle
    <2>3. loading # NoSlot
      BY <2>1, <2>2 DEF OpenThread
    <2>4. loading # Elsewhere
      BY <1>1 DEF FetchSkipped
    <2> QED
      BY <2>3, <2>4 DEF ScreenOK
  <1>5. GotStays
    BY <1>2, GotSame DEF Ids
  <1>6. Me \notin room' /\ more => list' # <<>>
    BY <1>1, <1>2 DEF Hist
  <1>7. \A t \in Fetches' : t \in Fetches /\ h'[t] = h[t]
    BY <1>2, <1>3
  <1> QED
    BY <1>1, <1>2, <1>4, <1>5, <1>6, <1>7, HistKept

LEMMA HistStep ==
    ASSUME Orderly, ServerOK, ScreenOK, HistInv, [DesktopNext]_mcVars
    PROVE  HistInv'
  <1>1. CASE UNCHANGED mcVars
    BY <1>1 DEF mcVars, allVars, vars, client, store, screen, rows, sockets, bounds, HistInv, Hist, Begun, Floor, PageHistory,
       Covered, Got, Coming, Tied, Ids, Live, Id, Fetches
  <1>2. CASE DesktopNext
    BY <1>2, RunCases, WorksHist, BeginsHist, TakesHist, EventsHist, QuietHist
  <1> QED
    BY <1>1, <1>2

LEMMA HistInit == MCInit => HistInv
  <1> SUFFICES ASSUME MCInit PROVE HistInv
    OBVIOUS
  <1>1. Init /\ page = "away" /\ list = <<>> /\ more = FALSE
    BY DEF MCInit, ClientInit
  <1>2. Fetches = {}
    BY <1>1 DEF Init, Idle, Fetches
  <1> QED
    BY <1>1, <1>2 DEF HistInv, Hist, Begun

LEMMA HistGives ==
    ASSUME Orderly, HistInv
    PROVE  HistoryComplete
  <1> SUFFICES ASSUME Quiet, page = "thread", ~more, "history" \notin excused, NEW i \in Live
               PROVE  i \in Ids(list) \/ \E j \in Id \ {i} : msgs[j].at = msgs[i].at
    BY DEF HistoryComplete
  <1>1. DOMAIN wire[Me] = {} /\ \A s \in Slot : h[s].op = "none"
    BY DEF Quiet, Idle
  <1>2. Begun
    BY <1>1 DEF Begun, Fetches
  <1>3. msgs[i].at >= 0
    <2>1. msgs[i] \in Row
      BY DEF Live, Id, Orderly, BaseInv, TypeOK
    <2> QED
      BY <2>1 DEF Row
  <1>4. Got(i) /\ ~Coming(i)
    BY <1>1, <1>2, <1>3 DEF HistInv, Hist, Floor, Coming
  <1> QED
    BY <1>4 DEF Got, Tied

-----------------------------------------------------------------------------
(* What is read.  A message of somebody else is owed to the list once it is    *)
(* neither coming nor tied: then it stands before whatever is older, so that   *)
(* the receipt for the first place stands for all of them.                     *)
Owed(x) == x \in Live /\ msgs[x].author # me /\ ~Tied(x) /\ ~Coming(x)

ListOrder ==
    \A i \in DOMAIN list, x \in Id : Owed(x) /\ msgs[x].at > msgs[list[i].id].at =>
        \E k \in DOMAIN list : k < i /\ list[k].id = x

PageOrder(s) ==
    \A i \in DOMAIN h[s].items, x \in Id : Owed(x) /\ msgs[x].at > msgs[h[s].items[i].id].at =>
        x \in Ids(list) \/ \E k \in DOMAIN h[s].items : k < i /\ h[s].items[k].id = x

(* Pushes of new messages leave in the order of the ids, and nothing that is   *)
(* coming is shown already but one's own message.                              *)
NewAt(k) == k \in DOMAIN wire[Me] /\ wire[Me][k].kind = "new"
Unpushed(s) == h[s].op = "create" /\ h[s].pc \in {"touch", "push"}

PushOrder ==
    /\ \A i, j \in DOMAIN wire[Me] : NewAt(i) /\ NewAt(j) /\ i < j => wire[Me][i].id < wire[Me][j].id
    /\ \A s \in Slot : Pending(s) => h[s].id = Len(msgs)
    /\ \A s \in Slot, i \in DOMAIN wire[Me] : Unpushed(s) /\ NewAt(i) => wire[Me][i].id < h[s].id
    /\ \A i \in DOMAIN wire[Me], y \in Id : NewAt(i) /\ wire[Me][i].id < y => Coming(y)
    /\ \A x \in Ids(list) : msgs[x].author # me => ~Coming(x)

(* A receipt for x is stored, or a newer one, or it is on its way. *)
AckOn(x) ==
    \/ seen[me] # 0 /\ msgs[seen[me]].at >= msgs[x].at
    \/ \E i \in DOMAIN up : up[i].kind = "read" /\ up[i].id = x
    \/ \E s \in Slot : h[s].op = "read" /\ h[s].id = x

Acknowledged == active /\ list # <<>> => Connected /\ (list[1].id \in Live => AckOn(list[1].id))

Orders ==
    /\ ListOrder /\ PushOrder
    /\ \A s \in Fetches : h[s].pc = "answered" => PageOrder(s)

(* Receipts are handled in turn: nobody writes the row that one has read. *)
ReceiptsInTurn ==
    /\ \A s, t \in Receipts : s = t
    /\ \A s \in Receipts : h[s].cur = seen[me]

ReadsInv ==
    /\ IsFiniteSet(Receipts)
    /\ "read" \notin excused =>
          /\ "history" \notin excused /\ "current" \notin excused
          /\ page = "thread" => badge = 0
          /\ Orders /\ Acknowledged /\ ReceiptsInTurn

LEMMA ReadExcuses ==
    ASSUME DesktopNext, ReadsInv, "read" \notin excused'
    PROVE  /\ "read" \notin excused /\ "history" \notin excused' /\ "current" \notin excused'
           /\ (page = "thread" => badge = 0) /\ Orders /\ Acknowledged /\ ReceiptsInTurn
           /\ ~LateListing /\ ~Unlinked /\ ~Missed /\ ~Dropped /\ faults' = faults
           /\ ~(Cardinality(Receipts') > 1)
  <1>1. excused' = excused \cup Excuses
    BY DEF DesktopNext
  <1>2. "read" \notin excused
    BY <1>1
  <1>3. /\ ~LateListing /\ ~Unlinked /\ ~Missed /\ ~Dropped /\ faults' = faults
        /\ ~(Cardinality(Receipts') > 1)
    BY <1>1 DEF Excuses, ReceiptsCross
  <1>4. "history" \notin Excuses /\ "current" \notin Excuses
    BY <1>1 DEF Excuses
  <1> QED
    BY <1>1, <1>2, <1>3, <1>4 DEF ReadsInv

(* A thread is entered by opening it, and that resets the badge. *)
LEMMA BadgeRead ==
    ASSUME ScreenOK', DesktopNext, page = "thread" => badge = 0, ~LateListing, page' = "thread"
    PROVE  badge' = 0
  <1>1. CASE page = "thread"
    BY <1>1 DEF ScreenOK, LateListing
  <1>2. CASE page # "thread"
    <2>1. \E s \in Slot : OpenThread(s)
      <3>1. ASSUME NEW s \in Slot, Begins(s) PROVE OpenThread(s)
        BY <1>2, <3>1 DEF Begins, EventArrives, OpenChats, LoadOlder, Send, client, screen
      <3>2. \A s \in Slot : ~Takes(s)
        BY <1>2 DEF Takes, TakePage, TakeList, TakeSent, TakeFailure, screen
      <3>3. ~Events /\ ~UNCHANGED client /\ ~SocketConnects /\ ~SocketDrops
        BY <1>2 DEF Events, ReceiveNew, ReceiveUpdated, ReceiveDeleted, ReceiveNotification, SocketConnects, SocketDrops,
           client, screen
      <3>4. Looks => \E s \in Slot : OpenThread(s)
        BY <1>2 DEF Looks, OpenOther, OtherAnswers, CloseThread, LeaveChats
      <3> QED
        BY <3>1, <3>2, <3>3, <3>4, RunCases
    <2> QED
      BY <2>1 DEF OpenThread, MarkRead
  <1> QED
    BY <1>1, <1>2

(* Nothing becomes owed, and the times stay. *)
OwedKept ==
    /\ \A x \in Id' : Owed(x)' => x \in Id /\ Owed(x)
    /\ \A i \in Id : msgs'[i].at = msgs[i].at

LEMMA OrderKept ==
    ASSUME Orderly, OwedKept, UNCHANGED list
    PROVE  /\ ListOrder => ListOrder'
           /\ \A t \in Slot : PageOrder(t) /\ h'[t] = h[t] => PageOrder(t)'
  <1>1. /\ \A i \in DOMAIN list : list[i].id \in Id
        /\ \A t \in Slot : \A i \in DOMAIN h[t].items : h[t].items[i].id \in Id
    BY DEF Orderly, ClientOK
  <1>2. ListOrder => ListOrder'
    BY <1>1 DEF ListOrder, OwedKept
  <1>3. ASSUME NEW t \in Slot, PageOrder(t), h'[t] = h[t] PROVE PageOrder(t)'
    <2> SUFFICES ASSUME NEW i \in DOMAIN h[t].items, NEW x \in Id', Owed(x)', msgs'[x].at > msgs'[h[t].items[i].id].at
                 PROVE  x \in Ids(list)' \/ \E k \in DOMAIN h[t].items : k < i /\ h[t].items[k].id = x
      BY <1>3 DEF PageOrder
    <2>1. x \in Id /\ Owed(x) /\ msgs[x].at > msgs[h[t].items[i].id].at
      BY <1>1 DEF OwedKept
    <2> QED
      BY <1>3, <2>1 DEF PageOrder, Ids
  <1> QED
    BY <1>2, <1>3

LEMMA LengthKept ==
    ASSUME BaseInv, NEW s \in Slot, Continue(s), ~InsertMessage(s)
    PROVE  Len(msgs') = Len(msgs)
  BY ContinueCases, CalmFacts, WriteEditFacts, WriteDeleteFacts
     DEF Emits, PushNew, NotifyOthers, PushEdit, PushDeleted, rows

LEMMA NewTold ==
    ASSUME TypeOK, NEW s \in Slot, Continue(s) \/ Fail(s), NEW k \in DOMAIN wire'[Me],
           k \notin DOMAIN wire[Me], wire'[Me][k].kind = "new"
    PROVE  PushNew(s) /\ Tells("new", h[s].id, msgs[h[s].id].text) /\ wire'[Me][k].id = h[s].id
  <1>1. ASSUME NEW kind, NEW id, NEW text, Tells(kind, id, text)
        PROVE  wire'[Me][k].kind = kind /\ wire'[Me][k].id = id
    BY <1>1 DEF Tells, Adds
  <1>2. "new" # "deleted" /\ "new" # "updated" /\ "new" # "notify"
    OBVIOUS
  <1> QED
    BY <1>1, <1>2, WireStep

LEMMA ComingBack ==
    ASSUME BaseInv, NEW s \in Slot, Continue(s), NEW x \in Id, Coming(x)'
    PROVE  Coming(x)
  <1>1. TypeOK /\ Len(msgs) \in Nat /\ x # Len(msgs) + 1
    BY DEF BaseInv, TypeOK, Id
  <1>2. ASSUME NEW t \in Slot, h'[t].op = "create", h'[t].pc \in {"touch", "push"}, h'[t].id = x PROVE Coming(x)
    <2>1. CASE t # s
      <3>1. h'[t] = h[t]
        BY <2>1, WorksFacts DEF Stays
      <3> QED
        BY <1>2, <3>1 DEF Coming
    <2>2. CASE t = s /\ h'[s].pc = "touch"
      <3>1. InsertMessage(s)
        BY <1>2, <2>2, WorksFacts DEF Follows, Idle
      <3> QED
        BY <1>1, <1>2, <2>2, <3>1, InsertFacts
    <2>3. CASE t = s /\ h'[s].pc = "push"
      <3>1. TouchMembers(s)
        BY <1>2, <2>3, PushStep
      <3> QED
        BY <1>2, <2>3, <3>1, TouchFacts DEF Coming, TouchMembers, At
    <2> QED
      BY <1>2, <2>1, <2>2, <2>3
  <1>3. ASSUME NEW k \in DOMAIN wire'[Me], wire'[Me][k].kind = "new", wire'[Me][k].id = x PROVE Coming(x)
    <2>1. CASE k \in DOMAIN wire[Me]
      BY <1>1, <1>3, <2>1, WirePrefix DEF Coming
    <2>2. CASE k \notin DOMAIN wire[Me]
      <3>1. PushNew(s) /\ wire'[Me][k].id = h[s].id
        BY <1>1, <1>3, <2>2, NewTold
      <3>2. h[s].id = x
        BY <1>3, <3>1
      <3> QED
        BY <3>1, <3>2 DEF PushNew, At, Coming
    <2> QED
      BY <2>1, <2>2
  <1> QED
    BY <1>2, <1>3 DEF Coming

LEMMA OwedWorks ==
    ASSUME Orderly, NEW s \in Slot, Continue(s), PushNew(s) => Me \in room, UNCHANGED client
    PROVE  OwedKept
  <1>1. BaseInv /\ InOrder /\ Next /\ GotStays
    BY GotWorks DEF Orderly, Next
  <1>2. Id \subseteq Id' /\ \A i \in Id : msgs'[i].at = msgs[i].at /\ msgs'[i].author = msgs[i].author
    BY <1>1, GrowthFacts, MessagesGrow DEF Grows
  <1>3. ASSUME NEW x \in Id', Owed(x)' PROVE x \in Id /\ Owed(x)
    <2>1. x \in Live /\ x \in Id
      BY <1>1, <1>3 DEF GotStays, Owed, Live
    <2>2. ~Tied(x)
      BY <1>2, <1>3, <2>1 DEF Owed, Tied
    <2>3. ~Coming(x)
      BY <1>1, <1>3, ComingWorks DEF Owed
    <2> QED
      BY <1>2, <1>3, <2>1, <2>2, <2>3 DEF Owed
  <1> QED
    BY <1>2, <1>3 DEF OwedKept

LEMMA PendingNewest ==
    ASSUME BaseInv, \A t \in Slot : Pending(t) => h[t].id = Len(msgs), \A t, w \in Writes' : t = w,
           NEW s \in Slot, Continue(s), NEW t \in Slot, Pending(t)'
    PROVE  h'[t].id = Len(msgs')
  <1>1. CASE InsertMessage(s)
    <2>1. h'[s].op = "create" /\ h'[s].id = Len(msgs) + 1 /\ Len(msgs') = Len(msgs) + 1
      BY <1>1, InsertFacts
    <2>2. t = s
      BY <2>1 DEF Pending, Writes
    <2> QED
      BY <2>1, <2>2
  <1>2. CASE ~InsertMessage(s)
    BY <1>2, PendingWorks, LengthKept
  <1> QED
    BY <1>1, <1>2

LEMMA UnpushedWorks ==
    ASSUME Orderly, PushOrder, \A t, w \in Writes' : t = w, NEW s \in Slot, Continue(s),
           NEW t \in Slot, Unpushed(t)', NEW k \in DOMAIN wire'[Me], NewAt(k)'
    PROVE  wire'[Me][k].id < h'[t].id
  <1>1. BaseInv /\ TypeOK /\ Len(msgs) \in Nat /\ \A i \in DOMAIN wire[Me] : wire[Me][i].id \in Id
    BY DEF Orderly, BaseInv, TypeOK, ClientOK
  <1>2. k \in DOMAIN wire[Me] /\ wire'[Me][k] = wire[Me][k] /\ NewAt(k)
    <2>1. k \in DOMAIN wire[Me] => wire'[Me][k] = wire[Me][k]
      BY <1>1, WirePrefix
    <2>2. CASE k \notin DOMAIN wire[Me]
      <3>1. PushNew(s)
        BY <1>1, <2>2, NewTold DEF NewAt
      <3>2. h'[s].op = "create" /\ h'[s].pc = "notify"
        <4>1. h[s] \in Handler /\ h'[s] = [h[s] EXCEPT !.pc = "notify"]
          BY <1>1, <3>1, GotoFacts, HandlerFacts DEF PushNew, At
        <4> QED
          BY <3>1, <4>1 DEF Handler, PushNew, At
      <3>3. t = s
        BY <3>2 DEF Unpushed, Writes
      <3> QED
        BY <3>2, <3>3 DEF Unpushed
    <2> QED
      BY <2>1, <2>2 DEF NewAt
  <1>3. CASE Unpushed(t) /\ h'[t].id = h[t].id
    BY <1>2, <1>3 DEF PushOrder
  <1>4. CASE h'[t].id = Len(msgs) + 1
    BY <1>1, <1>2, <1>4 DEF Id
  <1>5. \/ Unpushed(t) /\ h'[t].id = h[t].id
        \/ h'[t].id = Len(msgs) + 1
    <2>1. CASE t # s
      BY <1>1, <2>1, WorksFacts DEF Stays, Unpushed
    <2>2. CASE t = s /\ h'[s].pc = "touch"
      <3>1. InsertMessage(s)
        BY <1>1, <2>2, WorksFacts DEF Follows, Idle, Unpushed
      <3> QED
        BY <1>1, <2>2, <3>1, InsertFacts
    <2>3. CASE t = s /\ h'[s].pc = "push"
      <3>1. TouchMembers(s)
        BY <1>1, <2>3, PushStep DEF Unpushed
      <3> QED
        BY <1>1, <2>3, <3>1, TouchFacts DEF Unpushed, TouchMembers, At
    <2> QED
      BY <2>1, <2>2, <2>3 DEF Unpushed
  <1> QED
    BY <1>3, <1>4, <1>5

LEMMA PushesWork ==
    ASSUME Orderly, PushOrder, UNCHANGED client, \A t, w \in Writes' : t = w, NEW s \in Slot, Continue(s),
           PushNew(s) => Me \in room
    PROVE  PushOrder'
  <1>1. BaseInv /\ TypeOK /\ Len(msgs) \in Nat /\ Next
    BY DEF Orderly, BaseInv, TypeOK, Next
  <1>2. wire'[Me] \in Seq(PushedEvent) /\ DOMAIN wire'[Me] \subseteq Nat
    BY <1>1, MeFacts, SocketsType
  <1>3. \A k \in DOMAIN wire[Me] : k \in DOMAIN wire'[Me] /\ wire'[Me][k] = wire[Me][k]
    BY <1>1, WirePrefix
  <1>4. ASSUME NEW k \in DOMAIN wire'[Me], NewAt(k)', k \notin DOMAIN wire[Me]
        PROVE  /\ PushNew(s) /\ wire'[Me][k].id = h[s].id /\ h[s].id = Len(msgs)
               /\ \A j \in DOMAIN wire'[Me] : j = k \/ (j \in DOMAIN wire[Me] /\ j < k)
    <2>1. PushNew(s) /\ Tells("new", h[s].id, msgs[h[s].id].text)
      BY <1>1, <1>4, NewTold DEF NewAt
    <2>2. Pending(s)
      BY <2>1 DEF PushNew, At, Pending
    <2> QED
      BY <1>4, <2>1, <2>2 DEF Tells, Adds, PushOrder
  <1>5. ASSUME NEW i \in DOMAIN wire'[Me], NEW j \in DOMAIN wire'[Me], NewAt(i)', NewAt(j)', i < j
        PROVE  wire'[Me][i].id < wire'[Me][j].id
    <2>1. CASE j \in DOMAIN wire[Me]
      <3>1. i \in DOMAIN wire[Me]
        <4> SUFFICES ASSUME i \notin DOMAIN wire[Me] PROVE FALSE
          OBVIOUS
        <4>1. j = i \/ j < i
          BY <1>4, <1>5
        <4> QED
          BY <1>5, <1>2, <4>1
      <3> QED
        BY <1>3, <1>5, <2>1, <3>1 DEF PushOrder, NewAt
    <2>2. CASE j \notin DOMAIN wire[Me]
      <3>1. PushNew(s) /\ wire'[Me][j].id = h[s].id /\ (i = j \/ i \in DOMAIN wire[Me])
        BY <1>4, <1>5, <2>2
      <3>2. Unpushed(s)
        BY <3>1 DEF PushNew, At, Unpushed
      <3>3. i \in DOMAIN wire[Me] => wire[Me][i].id < h[s].id
        BY <1>3, <1>5, <3>2 DEF PushOrder, NewAt
      <3>4. i # j
        BY <1>5, <1>2
      <3> QED
        BY <1>3, <3>1, <3>3, <3>4
    <2> QED
      BY <2>1, <2>2
  <1>6. ASSUME NEW i \in DOMAIN wire'[Me], NEW y \in Id', NewAt(i)', wire'[Me][i].id < y PROVE Coming(y)'
    <2>1. CASE y \in Id /\ i \in DOMAIN wire[Me]
      <3>1. Coming(y)
        BY <1>3, <1>6, <2>1 DEF PushOrder, NewAt
      <3> QED
        BY <1>1, <3>1, ComingWorks
    <2>2. CASE y \in Id /\ i \notin DOMAIN wire[Me]
      BY <1>1, <1>4, <1>6, <2>2 DEF Id
    <2>3. CASE y \notin Id
      <3>1. InsertMessage(s)
        BY <1>1, <1>6, <2>3, LengthKept DEF Id
      <3>2. h'[s].op = "create" /\ h'[s].pc = "touch" /\ h'[s].id = Len(msgs) + 1 /\ Len(msgs') = Len(msgs) + 1
        BY <1>1, <3>1, InsertFacts
      <3>3. y = Len(msgs) + 1
        BY <1>1, <1>6, <2>3, <3>2 DEF Id
      <3> QED
        BY <3>2, <3>3 DEF Coming
    <2> QED
      BY <2>1, <2>2, <2>3
  <1>7. ASSUME NEW x \in Ids(list)', msgs'[x].author # me PROVE ~Coming(x)'
    <2>1. list' = list
      BY DEF client, store
    <2>2. x \in Ids(list) /\ x \in Id
      BY <1>7, <2>1 DEF Ids, Orderly, ClientOK
    <2>3. msgs'[x].author = msgs[x].author
      BY <1>1, <2>2, MessagesGrow DEF Grows
    <2> QED
      BY <1>1, <1>7, <2>2, <2>3, ComingBack DEF PushOrder
  <1>8. \A t \in Slot : Pending(t)' => h'[t].id = Len(msgs')
    BY <1>1, PendingNewest DEF PushOrder
  <1>9. \A t \in Slot, k \in DOMAIN wire'[Me] : Unpushed(t)' /\ NewAt(k)' => wire'[Me][k].id < h'[t].id
    BY UnpushedWorks
  <1> QED
    BY <1>5, <1>6, <1>7, <1>8, <1>9 DEF PushOrder

LEMMA FoundOrder ==
    ASSUME Orderly, Hist, NEW s \in Fetches, FindPage(s), OwedKept, UNCHANGED list
    PROVE  PageOrder(s)'
  <1> DEFINE n == h[s].next
             r == h'[s]
  <1>1. BaseInv /\ TypeOK /\ s \in Slot /\ h[s].pc = "find"
    BY DEF Orderly, BaseInv, Fetches, FindPage, At
  <1>2. r.pc = "answered" /\ PageOK(r, n) /\ msgs' = msgs
    BY <1>1, FindPageFollows DEF FindPage, rows
  <1>3. n \in Nat /\ \A i \in Id : msgs[i].at \in Nat
    <2>1. h[s] \in Handler
      BY <1>1, HandlerFacts
    <2>2. \A i \in Id : msgs[i] \in Row
      BY <1>1 DEF TypeOK, Id
    <2> QED
      BY <2>1, <2>2 DEF Handler, Row
  <1>4. n # 0 => Covered(n)
    BY <1>1 DEF Hist, PageHistory
  <1> HIDE DEF n, r
  <1>5. ASSUME NEW i \in DOMAIN r.items, NEW x \in Id', Owed(x)', msgs'[x].at > msgs'[r.items[i].id].at
        PROVE  x \in Ids(list)' \/ \E k \in DOMAIN r.items : k < i /\ r.items[k].id = x
    <2>1. x \in Id /\ Owed(x) /\ x \in Live
      BY <1>5 DEF OwedKept, Owed
    <2>2. CASE n = 0 \/ msgs[x].at < n
      <3>1. msgs[r.items[i].id].at < msgs[x].at
        <4>1. r.items[i].id \in Id
          BY <1>2, <1>5 DEF PageOK
        <4> QED
          BY <1>2, <1>3, <1>5, <2>1, <4>1
      <3> QED
        BY <1>2, <1>5, <2>1, <2>2, <3>1 DEF PageOK
    <2>3. CASE n # 0 /\ msgs[x].at >= n
      <3>1. Got(x)
        BY <1>4, <2>1, <2>3 DEF Covered
      <3> QED
        BY <2>1, <3>1 DEF Got, Owed, Ids
    <2> QED
      BY <1>3, <2>1, <2>2, <2>3
  <1> QED
    BY <1>5 DEF PageOrder, r

LEMMA WorksOrders ==
    ASSUME Orderly, ServerOK, Orders, Hist, ~Missed, \A t, w \in Writes' : t = w,
           NEW s \in Slot, Continue(s), UNCHANGED client
    PROVE  Orders'
  <1>1. BaseInv /\ TypeOK /\ Stays(s)
    BY WorksFacts DEF Orderly, BaseInv
  <1>2. list' = list
    BY DEF client, store
  <1>3. \A t \in Slot : t \in Fetches' => t \in Fetches
    BY <1>1, FetchWorks DEF Stays, Fetches
  <1>4. CASE (PushNew(s) \/ PushEdit(s) \/ PushDeleted(s)) /\ Me \notin room
    <2>1. list = <<>> /\ Fetches = {}
      BY <1>1, <1>4, MissedFacts
    <2>2. Fetches' = {}
      BY <1>3, <2>1 DEF Fetches
    <2>3. wire'[Me] = wire[Me] /\ OnlyNotified
      <3>1. ~NotifyOthers(s)
        BY <1>4 DEF NotifyOthers, PushNew, PushEdit, PushDeleted, At
      <3> QED
        BY <1>1, <1>4, <3>1, WireStep DEF ServerOK
    <2>4. \A i : ~NewAt(i)'
      BY <2>3 DEF NewAt, OnlyNotified
    <2>5. \A t \in Slot : Pending(t)' => h'[t].id = Len(msgs')
      BY <1>1, PendingNewest DEF Orders, PushOrder
    <2>6. PushOrder'
      BY <1>2, <2>1, <2>4, <2>5 DEF PushOrder, Ids
    <2> QED
      BY <1>2, <2>1, <2>2, <2>6 DEF Orders, ListOrder
  <1>5. CASE PushNew(s) => Me \in room
    <2>1. OwedKept /\ PushOrder'
      BY <1>5, OwedWorks, PushesWork DEF Orders
    <2>2. ListOrder'
      BY <1>2, <2>1, OrderKept DEF Orders
    <2>3. ASSUME NEW t \in Fetches', h'[t].pc = "answered" PROVE PageOrder(t)'
      <3>1. t \in Slot /\ t \in Fetches
        BY <1>3 DEF Fetches
      <3>2. CASE t # s
        <4>1. h'[t] = h[t] /\ PageOrder(t)
          BY <1>1, <2>3, <3>1, <3>2 DEF Stays, Orders
        <4> QED
          BY <1>2, <2>1, <3>1, <4>1, OrderKept
      <3>3. CASE t = s
        <4>1. FindPage(s)
          BY <3>1, <3>3, PageFinds DEF Fetches
        <4> QED
          BY <1>2, <2>1, <3>1, <3>3, <4>1, FoundOrder
      <3> QED
        BY <3>2, <3>3
    <2> QED
      BY <2>1, <2>2, <2>3 DEF Orders
  <1> QED
    BY <1>4, <1>5

(* Handlers that begin or end here neither push nor are pushed. *)
LEMMA OrdersSame ==
    ASSUME Orderly, Orders, UNCHANGED <<msgs, list>>, wire'[Me] = wire[Me],
           \A t \in Slot : \/ h'[t] = h[t]
                           \/ /\ Inert(h'[t]) /\ (h'[t].op = "page" => h'[t].pc # "answered")
                              /\ ~Unpushed(t)
    PROVE  Orders'
  <1>1. \A x : Coming(x)' <=> Coming(x)
    BY DEF Coming, Unpushed, Inert
  <1>2. OwedKept
    BY <1>1 DEF OwedKept, Owed, Tied, Live, Id
  <1>3. ListOrder' /\ \A t \in Slot : PageOrder(t) /\ h'[t] = h[t] => PageOrder(t)'
    BY <1>2, OrderKept DEF Orders
  <1>4. \A t \in Slot : /\ Pending(t)' => Pending(t) /\ h'[t] = h[t]
                        /\ Unpushed(t)' => Unpushed(t) /\ h'[t] = h[t]
    BY DEF Pending, Unpushed, Inert
  <1>5. PushOrder'
    BY <1>1, <1>4 DEF Orders, PushOrder, NewAt, Ids, Id
  <1>6. \A t \in Fetches' : h'[t].pc = "answered" => h'[t] = h[t] /\ t \in Fetches /\ t \in Slot
    BY DEF Fetches
  <1> QED
    BY <1>3, <1>5, <1>6 DEF Orders

LEMMA BeginsOrders ==
    ASSUME Orderly, Orders, NEW s \in Slot, Begins(s)
    PROVE  Orders'
  <1>1. BaseInv /\ ClientOK
    BY DEF Orderly
  <1>2. /\ h[s] = Idle /\ Stays(s) /\ UNCHANGED <<msgs, wire, list>> /\ BegunAs(s)
        /\ h'[s].pc # "answered"
    BY <1>1, BeginsFacts, BeginsKinds DEF rows, sockets
  <1>3. Inert(h'[s]) /\ ~Unpushed(s)
    BY <1>2 DEF BegunAs, Inert, Idle, Unpushed
  <1> QED
    BY <1>2, <1>3, OrdersSame DEF Stays

LEMMA AddedShape ==
    ASSUME ClientOK, NEW m
    PROVE  LET q == AddMessage(m)
           IN  \/ /\ m.id \in Ids(list) /\ DOMAIN q = DOMAIN list /\ Len(q) = Len(list)
                  /\ \A i \in DOMAIN list : q[i].id = list[i].id
               \/ /\ m.id \notin Ids(list) /\ DOMAIN q = 1..(Len(list) + 1) /\ Len(q) = Len(list) + 1
                  /\ q[1].id = m.id /\ \A i \in 2..(Len(list) + 1) : q[i] = list[i - 1]
  <1>1. list \in Seq(Entry) /\ Len(list) \in Nat /\ DOMAIN list = 1..Len(list)
    BY DEF ClientOK
  <1>2. CASE \E i \in DOMAIN list : list[i].id = m.id
    <2> DEFINE q == [i \in DOMAIN list |-> IF list[i].id = m.id THEN m ELSE list[i]]
    <2>1. AddMessage(m) = q
      BY <1>2 DEF AddMessage
    <2>2. DOMAIN q = DOMAIN list /\ \A i \in DOMAIN list : q[i].id = list[i].id
      OBVIOUS
    <2> HIDE DEF q
    <2>3. Len(q) = Len(list)
      BY <1>1, <2>2
    <2>4. m.id \in Ids(list)
      BY <1>2 DEF Ids
    <2> QED
      BY <2>1, <2>2, <2>3, <2>4
  <1>3. CASE ~\E i \in DOMAIN list : list[i].id = m.id
    <2>1. AddMessage(m) = <<m>> \o list
      BY <1>3 DEF AddMessage
    <2>2. /\ DOMAIN (<<m>> \o list) = 1..(Len(list) + 1) /\ Len(<<m>> \o list) = Len(list) + 1
          /\ (<<m>> \o list)[1] = m
          /\ \A i \in 2..(Len(list) + 1) : (<<m>> \o list)[i] = list[i - 1]
      BY <1>1
    <2>3. m.id \notin Ids(list)
      BY <1>3 DEF Ids
    <2> QED
      BY <2>1, <2>2, <2>3
  <1> QED
    BY <1>2, <1>3

(* A message that is added: nothing that is owed is younger than a first place. *)
LEMMA AddedOrder ==
    ASSUME Orderly, ListOrder, UNCHANGED msgs, NEW m \in Entry, m.id \in Id, list' = AddMessage(m),
           \A x \in Id : Owed(x)' => Owed(x) \/ (x = m.id /\ m.id \notin Ids(list)),
           m.id \notin Ids(list) => \A x \in Id : Owed(x)' => msgs[x].at <= msgs[m.id].at
    PROVE  ListOrder'
  <1>1. ClientOK /\ list \in Seq(Entry) /\ Len(list) \in Nat /\ DOMAIN list = 1..Len(list) /\ Id' = Id
        /\ \A i \in Id : msgs[i].at \in Nat
    <2>1. \A i \in Id : msgs[i] \in Row
      BY DEF Orderly, BaseInv, TypeOK, Id
    <2> QED
      BY <2>1 DEF Orderly, ClientOK, Id, Row
  <1> DEFINE q == AddMessage(m)
  <1>2. \/ /\ m.id \in Ids(list) /\ DOMAIN q = DOMAIN list
           /\ \A i \in DOMAIN list : q[i].id = list[i].id
        \/ /\ m.id \notin Ids(list) /\ DOMAIN q = 1..(Len(list) + 1)
           /\ q[1].id = m.id /\ \A i \in 2..(Len(list) + 1) : q[i] = list[i - 1]
    BY <1>1, AddedShape
  <1>3. list' = q
    OBVIOUS
  <1> HIDE DEF q
  <1> SUFFICES ASSUME NEW i \in DOMAIN q, NEW x \in Id, Owed(x)', msgs[x].at > msgs[q[i].id].at
               PROVE  \E k \in DOMAIN q : k < i /\ q[k].id = x
    BY <1>1, <1>3 DEF ListOrder
  <1>4. CASE m.id \in Ids(list)
    <2>1. DOMAIN q = DOMAIN list /\ \A j \in DOMAIN list : q[j].id = list[j].id
      BY <1>2, <1>4
    <2>2. Owed(x)
      BY <1>4
    <2> QED
      BY <2>1, <2>2 DEF ListOrder
  <1>5. CASE m.id \notin Ids(list)
    <2>1. /\ DOMAIN q = 1..(Len(list) + 1)
          /\ q[1].id = m.id /\ \A j \in 2..(Len(list) + 1) : q[j] = list[j - 1]
      BY <1>2, <1>5
    <2>2. i # 1
      <3>1. msgs[x].at <= msgs[m.id].at
        BY <1>5
      <3> QED
        BY <1>1, <2>1, <3>1
    <2>3. i - 1 \in DOMAIN list /\ q[i] = list[i - 1]
      BY <1>1, <2>1, <2>2
    <2>4. CASE Owed(x)
      <3>1. PICK k \in DOMAIN list : k < i - 1 /\ list[k].id = x
        BY <2>3, <2>4 DEF ListOrder
      <3>2. k + 1 \in DOMAIN q /\ k + 1 < i /\ q[k + 1] = list[k]
        BY <1>1, <2>1, <2>3, <3>1
      <3> QED
        BY <3>1, <3>2
    <2>5. CASE x = m.id
      <3>1. 1 \in DOMAIN q /\ 1 < i
        BY <1>1, <2>1, <2>2
      <3> QED
        BY <2>1, <2>5, <3>1
    <2> QED
      BY <2>4, <2>5
  <1> QED
    BY <1>4, <1>5

LEMMA PageOrdered ==
    ASSUME Orderly, Orders, Unseen = {}, ~OnItsWay, NEW s \in Slot, TakePage(s)
    PROVE  Orders'
  <1>1. BaseInv /\ ClientOK /\ Takes(s)
    BY DEF Orderly, Takes
  <1>2. h[s] \in Handler /\ Stays(s) /\ h'[s] = Idle /\ UNCHANGED <<msgs, wire>>
    BY <1>1, TakesFacts
  <1>3. list' = list \o h[s].items /\ s \in Fetches /\ h[s].pc = "answered"
    BY DEF TakePage, ShowList, Answered, At, Fetches
  <1>4. Joins(list', list, h[s].items)
    BY <1>1, <1>2, <1>3, JoinFacts DEF ClientOK, Handler, Entry
  <1>5. wire[Me] = <<>> /\ \A t \in Slot : ~Unpushed(t)
    <2>1. ASSUME NEW t \in Slot, Unpushed(t) PROVE FALSE
      <3>1. h[t].pc = "touch" => t \in Unseen
        BY <2>1 DEF Unpushed, Unseen, Pauses
      <3>2. h[t].pc = "push" => t \in Pushing
        BY <2>1 DEF Unpushed, Pushing, Writes
      <3> QED
        BY <2>1, <3>1, <3>2 DEF Unpushed, OnItsWay
    <2> QED
      BY <2>1 DEF OnItsWay
  <1>6. \A t \in Slot : ~Unpushed(t)' /\ (Pending(t)' => Pending(t) /\ h'[t] = h[t])
    BY <1>2, <1>5 DEF Unpushed, Pending, Stays, Idle
  <1>7. \A x : ~Coming(x) /\ ~Coming(x)'
    BY <1>2, <1>5, <1>6 DEF Coming, Unpushed
  <1>8. \A x \in Id' : x \in Id /\ (Owed(x)' => Owed(x))
    BY <1>2, <1>7 DEF Owed, Tied, Live, Id
  <1>9. Ids(list) \subseteq Ids(list')
    BY <1>4 DEF Joins, Ids
  <1>10. ListOrder'
    <2> DEFINE n == Len(list)
               p == h[s].items
    <2> SUFFICES ASSUME NEW i \in DOMAIN list', NEW x \in Id, Owed(x), msgs[x].at > msgs[list'[i].id].at
                 PROVE  \E k \in DOMAIN list' : k < i /\ list'[k].id = x
      BY <1>2, <1>8 DEF ListOrder
    <2>1. /\ n \in Nat /\ DOMAIN list = 1..n /\ DOMAIN list' = 1..(n + Len(p)) /\ Len(p) \in Nat
          /\ DOMAIN p = 1..Len(p) /\ \A k \in 1..n : list'[k] = list[k]
          /\ \A k \in DOMAIN list' : k > n => k - n \in DOMAIN p /\ list'[k] = p[k - n]
      BY <1>4 DEF Joins
    <2>2. \A k \in DOMAIN p : n + k \in DOMAIN list' /\ list'[n + k] = p[k]
      <3> SUFFICES ASSUME NEW k \in DOMAIN p PROVE n + k \in DOMAIN list' /\ list'[n + k] = p[k]
        OBVIOUS
      <3> HIDE DEF n, p
      <3>1. n + k \in DOMAIN list' /\ n + k > n /\ (n + k) - n = k
        BY <2>1
      <3> QED
        BY <2>1, <3>1
    <2>3. PageOrder(s)
      BY <1>3 DEF Orders
    <2>4. CASE i \in DOMAIN list
      <3>1. PICK k \in DOMAIN list : k < i /\ list[k].id = x
        BY <2>1, <2>4 DEF Orders, ListOrder
      <3> QED
        BY <2>1, <3>1
    <2>5. CASE i > n
      <3>1. i - n \in DOMAIN p /\ list'[i] = p[i - n]
        BY <2>1, <2>5
      <3>2. x \in Ids(list) \/ \E k \in DOMAIN p : k < i - n /\ p[k].id = x
        BY <2>3, <3>1 DEF PageOrder
      <3>3. CASE x \in Ids(list)
        <4>1. PICK k \in DOMAIN list : list[k].id = x
          BY <3>3 DEF Ids
        <4>2. k \in DOMAIN list' /\ k < i /\ list'[k].id = x
          BY <2>1, <2>5, <4>1
        <4> QED
          BY <4>2
      <3>4. CASE \E k \in DOMAIN p : k < i - n /\ p[k].id = x
        <4>1. PICK k \in DOMAIN p : k < i - n /\ p[k].id = x
          BY <3>4
        <4>2. n + k \in DOMAIN list' /\ list'[n + k].id = x
          BY <2>2, <4>1
        <4> HIDE DEF n, p
        <4>3. n + k < i
          BY <2>1, <4>1
        <4> QED
          BY <4>2, <4>3
      <3> QED
        BY <3>2, <3>3, <3>4
    <2> HIDE DEF n, p
    <2> QED
      BY <2>1, <2>4, <2>5
  <1>11. PushOrder'
    BY <1>2, <1>5, <1>6, <1>7 DEF Orders, PushOrder, NewAt
  <1>12. ASSUME NEW t \in Fetches', h'[t].pc = "answered" PROVE PageOrder(t)'
    <2>1. t \in Fetches /\ h'[t] = h[t]
      BY <1>1, <1>12, FetchesOfTakes
    <2>2. PageOrder(t)
      BY <1>12, <2>1 DEF Orders
    <2>3. ASSUME NEW i \in DOMAIN h[t].items, NEW x \in Id', Owed(x)', msgs'[x].at > msgs'[h[t].items[i].id].at
          PROVE  x \in Ids(list') \/ \E k \in DOMAIN h[t].items : k < i /\ h[t].items[k].id = x
      BY <1>2, <1>8, <1>9, <2>2, <2>3 DEF PageOrder
    <2> QED
      BY <2>1, <2>3 DEF PageOrder, Ids
  <1> QED
    BY <1>10, <1>11, <1>12 DEF Orders

LEMMA SentOrders ==
    ASSUME Orderly, ServerOK, Orders, Fetches # {} => ~OnItsWay, NEW s \in Slot, TakeSent(s)
    PROVE  Orders'
  <1> DEFINE m == [id |-> h[s].id, text |-> 0]
  <1>1. BaseInv /\ TypeOK /\ ClientOK /\ InOrder /\ NamesStored /\ Takes(s)
    BY DEF Orderly, BaseInv, Takes
  <1>2. Stays(s) /\ h'[s] = Idle /\ UNCHANGED <<msgs, wire>>
    BY <1>1, TakesFacts
  <1>3. list' = AddMessage(m) /\ Pending(s) /\ h[s].sock = Me /\ h[s].op = "create" /\ h[s].pc = "answered"
    BY DEF TakeSent, ShowList, Answered, At, Pending
  <1>4. /\ m.id = h[s].id /\ m.id \in Id /\ m \in Entry /\ m.id = Len(msgs) /\ msgs[m.id].author = me
        /\ Len(msgs) \in Nat
    <2>1. h[s].id \in Id /\ Id \subseteq Nat /\ Len(msgs) \in Nat
      BY <1>1, <1>3 DEF NamesStored, Names, Id, Pending, TypeOK
    <2>2. h[s].id = Len(msgs) /\ msgs[h[s].id].author = me
      BY <1>3 DEF Orders, PushOrder, ServerOK
    <2> QED
      BY <2>1, <2>2 DEF Entry
  <1>5. Fetches' = {}
    <2>1. OnItsWay
      BY <1>3 DEF OnItsWay, Writes, At
    <2> QED
      BY <1>1, <2>1, FetchesOfTakes
  <1>6. \A t \in Slot : /\ Pending(t)' => Pending(t) /\ h'[t] = h[t]
                        /\ Unpushed(t)' => Unpushed(t) /\ h'[t] = h[t]
                        /\ Unpushed(t) => h'[t] = h[t]
    BY <1>2, <1>3 DEF Unpushed, Pending, Stays, Idle
  <1>7. \A x : Coming(x)' <=> Coming(x)
    BY <1>2, <1>6 DEF Coming, Unpushed
  <1>8. \A x \in Id : Owed(x)' => Owed(x)
    BY <1>2, <1>7 DEF Owed, Tied, Live, Id
  <1>9. \A x \in Id : msgs[x].at <= msgs[m.id].at
    BY <1>1, <1>4 DEF InOrder, Id
  <1>10. \A x \in Ids(list)' : x \in Ids(list) \/ x = m.id
    <2>1. \A i \in DOMAIN list' : list'[i] = m \/ \E j \in DOMAIN list : list'[i] = list[j]
      BY <1>1, <1>3, AddedEntries
    <2> QED
      BY <2>1 DEF Ids
  <1> HIDE DEF m
  <1>11. ListOrder'
    BY <1>2, <1>3, <1>4, <1>8, <1>9, AddedOrder DEF Orders
  <1>12. PushOrder'
    <2>1. Id' = Id /\ \A i : NewAt(i)' <=> NewAt(i)
      BY <1>2 DEF Id, NewAt
    <2>2. \A x \in Ids(list)' : msgs'[x].author # me => ~Coming(x)'
      BY <1>2, <1>4, <1>7, <1>10 DEF Orders, PushOrder
    <2> QED
      BY <1>2, <1>6, <1>7, <2>1, <2>2 DEF Orders, PushOrder
  <1> QED
    BY <1>5, <1>11, <1>12 DEF Orders

LEMMA TakesOrders ==
    ASSUME Orderly, ServerOK, Orders, Fetches # {} => ~OnItsWay, Unseen = {}, NEW s \in Slot, Takes(s)
    PROVE  Orders'
  <1>1. CASE TakePage(s)
    <2>1. s \in Fetches
      BY <1>1 DEF TakePage, Answered, At, Fetches
    <2> QED
      BY <1>1, <2>1, PageOrdered
  <1>2. CASE TakeSent(s)
    BY <1>2, SentOrders
  <1>3. CASE TakeList(s) \/ TakeFailure(s)
    <2>1. Stays(s) /\ h'[s] = Idle /\ UNCHANGED <<msgs, wire>> /\ h[s].pc \in {"answered", "failed"}
      BY TakesFacts DEF Orderly
    <2>2. list' = list
      BY <1>3 DEF TakeList, TakeFailure, store
    <2>3. Inert(h'[s]) /\ h'[s].op # "page" /\ ~Unpushed(s)
      BY <2>1 DEF Inert, Idle, Unpushed
    <2> QED
      BY <2>1, <2>2, <2>3, OrdersSame DEF Stays
  <1> QED
    BY <1>1, <1>2, <1>3 DEF Takes

(* An event is taken from the wire. *)
LEMMA PopPushes ==
    ASSUME Orderly, PushOrder, Pops, UNCHANGED <<msgs, h>>
    PROVE  /\ \A i, j \in DOMAIN wire'[Me] : NewAt(i)' /\ NewAt(j)' /\ i < j => wire'[Me][i].id < wire'[Me][j].id
           /\ \A s \in Slot : Pending(s)' => h'[s].id = Len(msgs')
           /\ \A s \in Slot, i \in DOMAIN wire'[Me] : Unpushed(s)' /\ NewAt(i)' => wire'[Me][i].id < h'[s].id
           /\ \A i \in DOMAIN wire'[Me], y \in Id' : NewAt(i)' /\ wire'[Me][i].id < y => Coming(y)'
  <1>1. \A i \in DOMAIN wire'[Me] : i + 1 \in DOMAIN wire[Me] /\ wire'[Me][i] = wire[Me][i + 1] /\ i \in Nat
    BY DEF Pops
  <1>2. \A i \in DOMAIN wire'[Me] : NewAt(i)' => NewAt(i + 1)
    BY <1>1 DEF NewAt
  <1>3. \A i \in DOMAIN wire[Me] : wire[Me][i].id \in Nat
    BY DEF Orderly, ClientOK, Id
  <1>4. ASSUME NEW i \in DOMAIN wire'[Me], NEW y \in Id', NewAt(i)', wire'[Me][i].id < y PROVE Coming(y)'
    <2>1. Coming(y)
      BY <1>1, <1>2, <1>4 DEF PushOrder, Id
    <2>2. ~(wire[Me][1].kind = "new" /\ wire[Me][1].id = y)
      <3> SUFFICES ASSUME wire[Me][1].kind = "new", wire[Me][1].id = y PROVE FALSE
        OBVIOUS
      <3>1. NewAt(1) /\ NewAt(i + 1) /\ 1 < i + 1 /\ 1 \in DOMAIN wire[Me] /\ i + 1 \in DOMAIN wire[Me]
        BY <1>1, <1>2, <1>4 DEF NewAt, Pops
      <3>2. wire[Me][1].id < wire[Me][i + 1].id
        BY <3>1 DEF PushOrder
      <3>3. wire[Me][i + 1].id < wire[Me][1].id
        BY <1>1, <1>4
      <3> QED
        BY <1>3, <3>1, <3>2, <3>3
    <2> QED
      BY <2>1, <2>2, ComingPopped
  <1>5. ASSUME NEW i \in DOMAIN wire'[Me], NEW j \in DOMAIN wire'[Me], NewAt(i)', NewAt(j)', i < j
        PROVE  wire'[Me][i].id < wire'[Me][j].id
    <2>1. NewAt(i + 1) /\ NewAt(j + 1) /\ i + 1 < j + 1
      BY <1>1, <1>2, <1>5
    <2> QED
      BY <1>1, <2>1 DEF PushOrder
  <1>6. ASSUME NEW s \in Slot, NEW i \in DOMAIN wire'[Me], Unpushed(s)', NewAt(i)' PROVE wire'[Me][i].id < h'[s].id
    BY <1>1, <1>2, <1>6 DEF PushOrder, Unpushed
  <1>7. \A s \in Slot : Pending(s)' => h'[s].id = Len(msgs')
    BY DEF PushOrder, Pending
  <1> QED
    BY <1>4, <1>5, <1>6, <1>7

LEMMA ComingTaken ==
    ASSUME Orderly, PushOrder, Pops, UNCHANGED <<msgs, h>>
    PROVE  /\ \A x : Coming(x)' => Coming(x)
           /\ wire[Me][1].kind = "new" => \A x : Coming(x)' => x # wire[Me][1].id
  <1>1. \A i \in DOMAIN wire'[Me] : i + 1 \in DOMAIN wire[Me] /\ wire'[Me][i] = wire[Me][i + 1] /\ 1 < i + 1
    BY DEF Pops
  <1>2. 1 \in DOMAIN wire[Me] /\ \A i \in DOMAIN wire[Me] : wire[Me][i].id \in Nat
    BY DEF Orderly, ClientOK, Id, Pops
  <1>3. ASSUME NEW x, Coming(x)' PROVE Coming(x)
    BY <1>1, <1>3 DEF Coming
  <1>4. ASSUME wire[Me][1].kind = "new", NEW x, Coming(x)' PROVE x # wire[Me][1].id
    <2>1. NewAt(1)
      BY <1>2, <1>4 DEF NewAt
    <2>2. ASSUME NEW i \in DOMAIN wire'[Me], wire'[Me][i].kind = "new", wire'[Me][i].id = x
          PROVE  x # wire[Me][1].id
      <3>1. NewAt(i + 1)
        BY <1>1, <2>2 DEF NewAt
      <3>2. wire[Me][1].id < wire[Me][i + 1].id
        BY <1>1, <1>2, <2>1, <3>1 DEF PushOrder
      <3> QED
        BY <1>1, <1>2, <2>2, <3>2
    <2>3. ASSUME NEW t \in Slot, h'[t].op = "create", h'[t].pc \in {"touch", "push"}, h'[t].id = x
          PROVE  x # wire[Me][1].id
      <3>1. Unpushed(t) /\ h[t].id = x
        BY <2>3 DEF Unpushed
      <3>2. wire[Me][1].id < h[t].id
        BY <1>2, <2>1, <3>1 DEF PushOrder
      <3> QED
        BY <1>2, <3>1, <3>2
    <2> QED
      BY <1>4, <2>2, <2>3 DEF Coming
  <1> QED
    BY <1>3, <1>4

LEMMA NewOrdered ==
    ASSUME Orderly, Orders, ReceiveNew
    PROVE  ListOrder' /\ \A x \in Ids(list)' : msgs'[x].author # me => ~Coming(x)'
  <1>1. TypeOK /\ ClientOK /\ InOrder
    BY DEF Orderly, BaseInv
  <1>2. Events /\ Pops /\ UNCHANGED <<msgs, h>> /\ wire[Me] # <<>> /\ Took(Me)
    BY <1>1, EventsFacts DEF Events, rows
  <1>3. /\ Head(wire[Me]) = wire[Me][1] /\ 1 \in DOMAIN wire[Me]
        /\ wire[Me][1].id \in Id /\ wire[Me][1].id \in Nat /\ wire[Me][1].text \in Nat
    BY <1>1, <1>2, TakenFromWire DEF ClientOK, PushedEvent
  <1>4. PICK m \in Entry : m = Push /\ m.id = wire[Me][1].id
    <2>1. Push = [id |-> wire[Me][1].id, text |-> wire[Me][1].text]
      BY <1>3 DEF Push
    <2>2. Push \in Entry /\ Push.id = wire[Me][1].id
      BY <1>3, <2>1 DEF Entry
    <2> QED
      BY <2>2
  <1>5. list' = AddMessage(m) /\ NewAt(1) /\ m.id \in Id /\ wire[Me][1].kind = "new"
    BY <1>3, <1>4 DEF ReceiveNew, ShowList, Pushed, NewAt
  <1>6. Coming(m.id)
    BY <1>3, <1>4, <1>5 DEF Coming
  <1>7. \A x \in Id : Coming(x) => Coming(x)' \/ x = m.id
    BY <1>2, <1>4, ComingPopped
  <1>8. \A x \in Id : Owed(x)' => Owed(x) \/ (x = m.id /\ m.id \notin Ids(list))
    <2> SUFFICES ASSUME NEW x \in Id, Owed(x)', ~Owed(x) PROVE x = m.id /\ m.id \notin Ids(list)
      OBVIOUS
    <2>1. Coming(x) /\ ~Coming(x)' /\ msgs[x].author # me
      BY <1>2 DEF Owed, Tied, Live, Id
    <2>2. x = m.id
      BY <1>7, <2>1
    <2> QED
      BY <2>1, <2>2 DEF Orders, PushOrder
  <1>9. ASSUME NEW x \in Id, Owed(x)' PROVE msgs[x].at <= msgs[m.id].at
    <2>1. ~Coming(x)'
      BY <1>9 DEF Owed
    <2>2. x <= m.id
      <3> SUFFICES ASSUME m.id < x PROVE FALSE
        BY <1>3, <1>4 DEF Id
      <3>1. Coming(x)
        BY <1>3, <1>4, <1>5 DEF Orders, PushOrder
      <3> QED
        BY <1>3, <1>4, <1>7, <2>1, <3>1 DEF Id
    <2> QED
      BY <1>1, <1>5, <2>2 DEF InOrder
  <1>10. ListOrder'
    BY <1>2, <1>5, <1>8, <1>9, AddedOrder DEF Orders
  <1>11. ASSUME NEW x \in Ids(list)', msgs'[x].author # me PROVE ~Coming(x)'
    <2> SUFFICES ASSUME Coming(x)' PROVE FALSE
      OBVIOUS
    <2>1. Coming(x) /\ x # m.id
      BY <1>2, <1>4, <1>5, ComingTaken DEF Orders
    <2>2. \A i \in DOMAIN list' : list'[i] = m \/ \E j \in DOMAIN list : list'[i] = list[j]
      BY <1>1, <1>5, AddedEntries
    <2>3. x \in Ids(list)
      BY <2>1, <2>2 DEF Ids
    <2> QED
      BY <1>2, <1>11, <2>1, <2>3 DEF Orders, PushOrder
  <1> QED
    BY <1>10, <1>11

(* The places that stay, in their order. *)
LEMMA KeptPlaces ==
    ASSUME ClientOK, NEW id, NEW p \in Kept(id)
    PROVE  /\ \A k \in DOMAIN p : k \in Nat /\ p[k] \in DOMAIN list /\ list[p[k]].id # id
           /\ \A k, l \in DOMAIN p : p[k] < p[l] => k < l
           /\ \A j \in DOMAIN list : list[j].id # id => \E k \in DOMAIN p : p[k] = j
  <1> DEFINE S == {i \in DOMAIN list : list[i].id # id}
  <1>1. /\ p \in [1..Cardinality(S) -> S]
        /\ \A k, l \in DOMAIN p : k < l => p[k] < p[l]
    BY DEF Kept
  <1>2. IsFiniteSet(S) /\ Cardinality(S) \in Nat /\ \A k \in S : k \in Nat
    <2>1. list \in Seq(Entry)
      BY DEF ClientOK
    <2>2. IsFiniteSet(1..Len(list)) /\ DOMAIN list = 1..Len(list) /\ Len(list) \in Nat
      BY <2>1, FS_Interval
    <2> QED
      BY <2>2, FS_Subset, FS_CardinalityType
  <1>3. \A i \in S : i \in DOMAIN list /\ list[i].id # id
    OBVIOUS
  <1>4. \A j \in DOMAIN list : list[j].id # id => j \in S
    OBVIOUS
  <1> HIDE DEF S
  <1>5. \A k, l \in 1..Cardinality(S) : p[k] = p[l] => k = l
    BY <1>1, <1>2
  <1>6. ASSUME NEW j \in S PROVE \E k \in DOMAIN p : p[k] = j
    BY <1>1, <1>2, <1>5, Onto
  <1>7. DOMAIN p = 1..Cardinality(S) /\ \A k \in DOMAIN p : p[k] \in S
    BY <1>1
  <1>8. \A k \in DOMAIN p : k \in Nat /\ p[k] \in S /\ p[k] \in Nat
    BY <1>2, <1>7
  <1>9. \A k, l \in DOMAIN p : p[k] < p[l] => k < l
    BY <1>1, <1>8
  <1> QED
    BY <1>3, <1>4, <1>6, <1>8, <1>9

LEMMA DeletedOrdered ==
    ASSUME Orderly, ServerOK, Orders, OwedKept, ReceiveDeleted
    PROVE  ListOrder' /\ Ids(list') \subseteq Ids(list)
  <1>1. TypeOK /\ ClientOK
    BY DEF Orderly, BaseInv
  <1>2. /\ Head(wire[Me]) = wire[Me][1] /\ 1 \in DOMAIN wire[Me] /\ wire[Me][1].kind = "deleted"
    BY <1>1, TakenFromWire DEF ReceiveDeleted, Pushed
  <1>3. PICK p \in Kept(Push.id) : list' = [j \in DOMAIN p |-> list[p[j]]]
    BY DEF ReceiveDeleted, ShowList
  <1>4. Push.id \notin Live
    BY <1>2 DEF ServerOK, Push, Live
  <1>5. /\ \A k \in DOMAIN p : p[k] \in DOMAIN list /\ list[p[k]].id # Push.id
        /\ \A k, l \in DOMAIN p : p[k] < p[l] => k < l
        /\ \A j \in DOMAIN list : list[j].id # Push.id => \E k \in DOMAIN p : p[k] = j
    BY <1>1, KeptPlaces
  <1>6. DOMAIN list' = DOMAIN p /\ \A k \in DOMAIN p : list'[k] = list[p[k]]
    BY <1>3
  <1>7. Ids(list') \subseteq Ids(list)
    BY <1>5, <1>6 DEF Ids
  <1>8. ASSUME NEW i \in DOMAIN list', NEW x \in Id', Owed(x)', msgs'[x].at > msgs'[list'[i].id].at
        PROVE  \E k \in DOMAIN list' : k < i /\ list'[k].id = x
    <2>1. p[i] \in DOMAIN list /\ list'[i] = list[p[i]] /\ list[p[i]].id \in Id
      BY <1>1, <1>5, <1>6 DEF ClientOK
    <2>2. x \in Id /\ Owed(x) /\ msgs[x].at > msgs[list[p[i]].id].at
      BY <1>8, <2>1 DEF OwedKept
    <2>3. PICK j \in DOMAIN list : j < p[i] /\ list[j].id = x
      BY <2>1, <2>2 DEF Orders, ListOrder
    <2>4. x # Push.id
      BY <1>4, <2>2 DEF Owed
    <2>5. PICK k \in DOMAIN p : p[k] = j
      BY <1>5, <2>3, <2>4
    <2> QED
      BY <1>5, <1>6, <2>3, <2>5
  <1> QED
    BY <1>7, <1>8 DEF ListOrder

LEMMA EventsOrders ==
    ASSUME Orderly, ServerOK, Orders, Fetches # {} => ~OnItsWay, Events
    PROVE  Orders'
  <1>1. TypeOK /\ ClientOK
    BY DEF Orderly, BaseInv
  <1>2. Pops /\ UNCHANGED <<msgs, h>> /\ wire[Me] # <<>> /\ Took(Me)
    BY <1>1, EventsFacts DEF rows
  <1>3. Fetches' = {}
    BY <1>2 DEF OnItsWay, Fetches
  <1>4. Head(wire[Me]) = wire[Me][1]
    BY <1>1, <1>2, TakenFromWire
  <1>5. ListOrder' /\ \A x \in Ids(list)' : msgs'[x].author # me => ~Coming(x)'
    <2>1. CASE ReceiveNew
      BY <2>1, NewOrdered
    <2>2. CASE ~ReceiveNew
      <3>1. wire[Me][1].kind # "new"
        BY <1>4, <2>2 DEF Events, ReceiveUpdated, ReceiveDeleted, ReceiveNotification, Pushed
      <3>2. \A x : Coming(x)' <=> Coming(x)
        BY <1>2, <3>1, ComingTaken, ComingPopped DEF Orders
      <3>3. OwedKept
        BY <1>2, <3>2 DEF OwedKept, Owed, Tied, Live, Id
      <3>4. CASE ReceiveDeleted
        <4>1. ListOrder' /\ Ids(list') \subseteq Ids(list)
          BY <3>3, <3>4, DeletedOrdered
        <4> QED
          BY <1>2, <3>2, <4>1 DEF Orders, PushOrder, Ids
      <3>5. CASE ReceiveUpdated \/ ReceiveNotification
        <4>1. DOMAIN list' = DOMAIN list /\ \A i \in DOMAIN list : list'[i].id = list[i].id
          <5>1. ReceiveUpdated => list' = UpdateMessage(Push)
            BY DEF ReceiveUpdated
          <5>2. ReceiveNotification => list' = list
            BY DEF ReceiveNotification, client, store
          <5> QED
            BY <1>1, <3>5, <5>1, <5>2, UpdatedEntries
        <4>2. ListOrder'
          BY <1>1, <3>3, <4>1 DEF Orders, ListOrder, OwedKept, ClientOK
        <4> QED
          BY <1>2, <3>2, <4>1, <4>2 DEF Orders, PushOrder, Ids
      <3> QED
        BY <2>2, <3>4, <3>5 DEF Events
    <2> QED
      BY <2>1, <2>2
  <1>6. PushOrder'
    BY <1>2, <1>5, PopPushes DEF Orders, PushOrder
  <1> QED
    BY <1>3, <1>5, <1>6 DEF Orders

(* The receipt for the first place. *)
AckStays == \A x \in Live : AckOn(x) => AckOn(x)'

LEMMA AckSame ==
    ASSUME UNCHANGED <<msgs, seen>>,
           \A i \in DOMAIN up : \E j \in DOMAIN up' : up'[j] = up[i],
           \A t \in Slot : h[t].op = "read" => h'[t] = h[t]
    PROVE  AckStays
  BY DEF AckStays, AckOn

LEMMA FirstKept ==
    ASSUME ClientOK, Acknowledged, AckStays, active' => active, Connected => Connected',
           \A x \in Id : x \in Live' => x \in Live,
           list' # <<>> => list # <<>> /\ list'[1].id = list[1].id
    PROVE  Acknowledged'
  <1> SUFFICES ASSUME active', list' # <<>> PROVE Connected' /\ (list'[1].id \in Live' => AckOn(list[1].id)')
    BY DEF Acknowledged
  <1>1. active /\ list # <<>> /\ list'[1].id = list[1].id
    BY Zenon
  <1>2. Connected /\ (list[1].id \in Live => AckOn(list[1].id))
    BY <1>1, Zenon DEF Acknowledged
  <1>3. 1 \in DOMAIN list
    BY <1>1 DEF ClientOK
  <1>4. PICK x \in Id : list[1].id = x
    BY <1>3 DEF ClientOK
  <1>5. x \in Live' => AckOn(x)'
    BY <1>2, <1>4 DEF AckStays
  <1>6. x \in Live' => AckOn(list[1].id)'
    BY <1>1, <1>4, <1>5 DEF AckOn
  <1> QED
    BY <1>1, <1>2, <1>4, <1>6

LEMMA MarksFirst ==
    ASSUME ClientOK, NEW q, NEW a, NEW n, MarkRead(a, q, n), a, Connected, UNCHANGED online, list' = q, q # <<>>
    PROVE  Acknowledged'
  <1>1. PICK x : x = q[1].id
    OBVIOUS
  <1> DEFINE e == [kind |-> "read", id |-> x]
             S == [kind : {"join", "read"}, id : Nat]
  <1>2. up' = Append(up, e)
    BY <1>1 DEF MarkRead
  <1>3. e.kind = "read" /\ e.id = x
    OBVIOUS
  <1> HIDE DEF e
  <1>4. up \in Seq(S)
    BY DEF ClientOK
  <1> HIDE DEF S
  <1>5. Len(up) + 1 \in DOMAIN up' /\ up'[Len(up) + 1] = e
    BY <1>2, <1>4
  <1>6. AckOn(x)'
    BY <1>3, <1>5 DEF AckOn
  <1>7. AckOn(list[1].id)'
    BY <1>1, <1>6 DEF AckOn
  <1>8. Connected'
    BY DEF Connected
  <1> QED
    BY <1>7, <1>8 DEF Acknowledged

LEMMA ShownAcked ==
    ASSUME ClientOK, Acknowledged, UNCHANGED <<msgs, seen, online, active>>, ~Unlinked,
           \A t \in Slot : h[t].op = "read" => h'[t] = h[t],
           NEW q, NEW n, ShowList(q, n),
           Len(q) = Len(list) /\ q # <<>> => list # <<>> /\ q[1].id = list[1].id
    PROVE  Acknowledged'
  <1>1. list' = q
    BY DEF ShowList
  <1>2. CASE Len(q) = Len(list)
    <2>1. UNCHANGED up
      BY <1>2 DEF ShowList
    <2>2. AckStays
      BY <2>1, AckSame
    <2>3. \A x \in Id : x \in Live' => x \in Live
      BY DEF Live, Id
    <2>4. Connected => Connected'
      BY DEF Connected
    <2> QED
      BY <1>1, <1>2, <2>2, <2>3, <2>4, FirstKept
  <1>3. CASE Len(q) # Len(list) /\ active /\ q # <<>>
    <2>1. MarkRead(active, q, n)
      BY <1>3 DEF ShowList
    <2>2. Connected
      <3>1. active' /\ list' # <<>> /\ Len(list') # Len(list)
        BY <1>1, <1>3
      <3> QED
        BY <3>1 DEF Unlinked
    <2> QED
      BY <1>1, <1>3, <2>1, <2>2, MarksFirst
  <1>4. CASE ~active \/ q = <<>>
    BY <1>1, <1>4 DEF Acknowledged
  <1> QED
    BY <1>2, <1>3, <1>4, Zenon

LEMMA OpenAcked ==
    ASSUME ClientOK, ScreenOK, NEW s \in Slot, OpenThread(s), ~Unlinked, UNCHANGED <<online, list>>
    PROVE  Acknowledged'
  <1>1. active' /\ ~active
    BY DEF OpenThread, ScreenOK
  <1>2. CASE list = <<>>
    BY <1>2 DEF Acknowledged
  <1>3. CASE list # <<>>
    <2>1. Connected
      BY <1>1, <1>3 DEF Unlinked
    <2>2. MarkRead(TRUE, list, 0) /\ list' = list
      BY DEF OpenThread
    <2> QED
      BY <1>3, <2>1, <2>2, MarksFirst
  <1> QED
    BY <1>2, <1>3

LEMMA ReceiptsFinite ==
    ASSUME IsFiniteSet(Receipts), UNCHANGED h \/ \E s \in Slot : Stays(s)
    PROVE  IsFiniteSet(Receipts')
  <1>1. CASE UNCHANGED h
    BY <1>1 DEF Receipts
  <1>2. ASSUME NEW s \in Slot, Stays(s) PROVE IsFiniteSet(Receipts')
    <2>1. Receipts' \subseteq Receipts \cup {s}
      BY <1>2 DEF Receipts, Stays
    <2> QED
      BY <2>1, FS_AddElement, FS_Subset
  <1> QED
    BY <1>1, <1>2

LEMMA WorksReceipts ==
    ASSUME BaseInv, ServerOK, ReceiptsInTurn, NEW s \in Slot, Continue(s) \/ Fail(s)
    PROVE  \A r \in Receipts' : h'[r].cur = seen'[me]
  <1> SUFFICES ASSUME NEW r \in Receipts' PROVE h'[r].cur = seen'[me]
    OBVIOUS
  <1>1. /\ TypeOK /\ Follows(s) /\ \A t \in Slot : t # s => h'[t] = h[t]
        /\ r \in Slot /\ h'[r].op = "read" /\ h'[r].sock = Me
    BY WorksFacts DEF BaseInv, Receipts, Stays
  <1>2. r \in Receipts /\ h'[r].cur = h[r].cur
    BY <1>1 DEF Receipts, Follows, Idle
  <1>3. ASSUME WriteSeen(s) PROVE FALSE
    <2>1. h[s].op = "read" /\ Free(s)
      BY <1>3 DEF WriteSeen, Return, At
    <2>2. s \in Receipts
      BY <2>1 DEF ServerOK, ReaderOK, Receipts
    <2>3. r = s
      BY <1>2, <2>2 DEF ReceiptsInTurn
    <2> QED
      BY <1>1, <2>1, <2>3, FreeFacts DEF Idle
  <1>4. seen' = seen
    BY <1>3 DEF Continue, Fail, InsertMessage, WriteEdit, WriteDelete, TouchMembers, FindPage, ListCounts, ReadMessage,
       JoinRoom, PushNew, NotifyOthers, PushEdit, PushDeleted, rows
  <1> QED
    BY <1>2, <1>4 DEF ReceiptsInTurn

LEMMA ReceiptsStep ==
    ASSUME Orderly, ServerOK, ReceiptsInTurn, DesktopNext, \A s, t \in Receipts' : s = t
    PROVE  ReceiptsInTurn'
  <1>1. BaseInv /\ ClientOK /\ TypeOK
    BY DEF Orderly, BaseInv
  <1>2. ASSUME NEW s \in Slot, Begins(s) PROVE \A r \in Receipts' : h'[r].cur = seen'[me]
    <2>1. Stays(s) /\ UNCHANGED seen /\ BegunAs(s)
      BY <1>1, <1>2, BeginsFacts, BeginsKinds DEF rows
    <2> QED
      BY <2>1 DEF Stays, BegunAs, Receipts, ReceiptsInTurn
  <1>3. ASSUME NEW s \in Slot, Takes(s) PROVE \A r \in Receipts' : h'[r].cur = seen'[me]
    <2>1. Stays(s) /\ h'[s] = Idle
      BY <1>1, <1>3, TakesFacts
    <2>2. UNCHANGED seen
      BY <1>3 DEF Takes, TakePage, TakeList, TakeSent, TakeFailure, rows
    <2> QED
      BY <2>1, <2>2 DEF Stays, Receipts, ReceiptsInTurn, Idle
  <1>4. Events \/ Looks \/ SocketConnects \/ SocketDrops => \A r \in Receipts' : h'[r].cur = seen'[me]
    <2>1. Events \/ Looks \/ SocketConnects \/ SocketDrops => UNCHANGED <<h, seen>>
      BY <1>1, EventsFacts, QuietFacts DEF rows
    <2> QED
      BY <2>1 DEF Receipts, ReceiptsInTurn
  <1>5. \A r \in Receipts' : h'[r].cur = seen'[me]
    BY <1>1, <1>2, <1>3, <1>4, RunCases, WorksReceipts
  <1> QED
    BY <1>5 DEF ReceiptsInTurn

LEMMA ReadWorks ==
    ASSUME BaseInv, ServerOK, ReceiptsInTurn, NEW s \in Slot, Continue(s), h[s].op = "read",
           h[s].id \in Live
    PROVE  \/ h'[s].op = "read" /\ h'[s].id = h[s].id
           \/ seen'[me] # 0 /\ msgs'[seen'[me]].at >= msgs[h[s].id].at
  <1>1. /\ h[s] \in Handler /\ TypeOK /\ h[s].pc # "idle" /\ h[s].id \in 1..Len(msgs) /\ Len(msgs) \in Nat
        /\ h[s].user = me /\ h[s].cur = seen[me] /\ me \in member /\ msgs[h[s].id].at \in Nat
    <2>1. \A i \in Id : msgs[i] \in Row
      BY DEF BaseInv, TypeOK, Id
    <2>2. h[s].id \in Id
      BY DEF Live
    <2>3. h[s] \in Handler /\ TypeOK
      BY WorksFacts DEF BaseInv
    <2>4. h[s].pc # "idle"
      BY <2>3, HandlerFacts
    <2>5. h[s].user = me /\ h[s].cur = seen[me] /\ me \in member
      BY MeFacts DEF ServerOK, ReaderOK, Receipts, ReceiptsInTurn
    <2>6. h[s].id \in 1..Len(msgs) /\ Len(msgs) \in Nat
      BY <2>2, <2>3 DEF Id, TypeOK
    <2>7. msgs[h[s].id].at \in Nat
      BY <2>1, <2>2 DEF Row
    <2> QED
      BY <2>3, <2>4, <2>5, <2>6, <2>7
  <1>2. ReadMessage(s) \/ WriteSeen(s)
    BY DEF Continue, InsertMessage, WriteEdit, WriteDelete, TouchMembers, FindPage, ListCounts,
       ReadMessage, WriteSeen, JoinRoom, PushNew, NotifyOthers, PushEdit, PushDeleted, At
  <1>3. CASE WriteSeen(s)
    <2>1. seen' = [seen EXCEPT ![me] = h[s].id] /\ UNCHANGED msgs
      BY <1>1, <1>3 DEF WriteSeen
    <2>2. seen'[me] = h[s].id
      BY <1>1, <2>1, MeFacts DEF TypeOK
    <2> QED
      BY <1>1, <2>1, <2>2
  <1>4. CASE ReadMessage(s) /\ (h[s].cur # 0 => msgs[h[s].cur].at < msgs[h[s].id].at)
    <2>1. Goto(s, "write")
      BY <1>4 DEF ReadMessage
    <2>2. h'[s] = [h[s] EXCEPT !.pc = "write"]
      BY <1>1, <2>1, GotoFacts
    <2> QED
      BY <1>1, <2>2 DEF Handler
  <1>5. CASE ReadMessage(s) /\ h[s].cur # 0 /\ ~(msgs[h[s].cur].at < msgs[h[s].id].at)
    <2>1. UNCHANGED <<msgs, seen>>
      BY <1>5 DEF ReadMessage, rows
    <2>2. msgs[h[s].cur].at \in Nat
      <3>1. h[s].cur \in Id /\ \A i \in Id : msgs[i] \in Row
        BY <1>1, <1>5, MeFacts DEF BaseInv, NamesStored, TypeOK, Id
      <3> QED
        BY <3>1 DEF Row
    <2> QED
      BY <1>1, <1>5, <2>1, <2>2
  <1> QED
    BY <1>2, <1>3, <1>4, <1>5

LEMMA WorksAcked ==
    ASSUME Orderly, ServerOK, Acknowledged, ReceiptsInTurn, NEW s \in Slot, Continue(s), UNCHANGED client
    PROVE  Acknowledged'
  <1>1. BaseInv /\ TypeOK /\ ClientOK /\ Next /\ Stays(s)
    BY WorksFacts DEF Orderly, BaseInv, Next
  <1>2. Grows
    BY <1>1, MessagesGrow
  <1>3. UNCHANGED <<up, list, active, online>>
    BY RoomStep DEF client, store, screen
  <1>4. seen[me] \in 0..Len(msgs) /\ Len(msgs) \in Nat /\ \A i \in Id : msgs[i].at \in Nat
    <2>1. \A i \in Id : msgs[i] \in Row
      BY <1>1 DEF TypeOK, Id
    <2> QED
      BY <1>1, <2>1, MeFacts DEF BaseInv, NamesStored, TypeOK, Row
  <1>5. ASSUME NEW x \in Live, AckOn(x) PROVE AckOn(x)'
    <2>1. x \in Id /\ msgs'[x].at = msgs[x].at
      BY <1>2 DEF Live, Grows
    <2>2. CASE h[s].op = "read" /\ h[s].id = x
      <3>1. \/ h'[s].op = "read" /\ h'[s].id = x
            \/ seen'[me] # 0 /\ msgs'[seen'[me]].at >= msgs[x].at
        BY <1>1, <2>2, ReadWorks
      <3> QED
        BY <2>1, <3>1 DEF AckOn
    <2>3. CASE \E t \in Slot : t # s /\ h[t].op = "read" /\ h[t].id = x
      BY <1>1, <2>3 DEF AckOn, Stays
    <2>4. CASE \E i \in DOMAIN up : up[i].kind = "read" /\ up[i].id = x
      BY <1>3, <2>4 DEF AckOn
    <2>5. CASE seen[me] # 0 /\ msgs[seen[me]].at >= msgs[x].at
      <3>1. seen[me] \in Id /\ msgs'[seen[me]].at = msgs[seen[me]].at
        BY <1>2, <1>4, <2>5 DEF Id, Grows
      <3>2. CASE seen' = seen
        BY <2>1, <2>5, <3>1, <3>2 DEF AckOn
      <3>3. CASE seen' # seen
        <4>1. WriteSeen(s)
          BY <3>3 DEF Continue, InsertMessage, WriteEdit, WriteDelete, TouchMembers, FindPage, ListCounts, ReadMessage,
             JoinRoom, PushNew, NotifyOthers, PushEdit, PushDeleted, rows
        <4>2. h[s].op = "read" /\ h[s].pc = "write" /\ UNCHANGED msgs
          BY <4>1 DEF WriteSeen, At
        <4>3. h[s].user = me /\ me \in member /\ msgs[seen[me]].at < msgs[h[s].id].at
          BY <2>5, <4>2, MeFacts DEF ServerOK, ReaderOK, Receipts, ReceiptsInTurn
        <4>4. h[s].id \in Id
          BY <1>1, <4>2 DEF BaseInv, NamesStored, Names, Id
        <4>5. seen' = [seen EXCEPT ![me] = h[s].id]
          BY <4>1, <4>3 DEF WriteSeen
        <4>6. seen'[me] = h[s].id /\ h[s].id # 0
          BY <1>1, <1>4, <4>4, <4>5, MeFacts DEF TypeOK, Id
        <4>7. msgs[h[s].id].at >= msgs[x].at
          BY <1>4, <2>1, <2>5, <3>1, <4>3, <4>4
        <4> QED
          BY <4>2, <4>6, <4>7 DEF AckOn
      <3> QED
        BY <3>2, <3>3
    <2> QED
      BY <1>5, <2>2, <2>3, <2>4, <2>5 DEF AckOn
  <1>6. \A x \in Id : x \in Live' => x \in Live
    BY <1>2 DEF Live, Grows
  <1>7. AckStays /\ (Connected => Connected')
    BY <1>3, <1>5 DEF AckStays, Connected
  <1> QED
    BY <1>1, <1>3, <1>6, <1>7, FirstKept

LEMMA ArrivesAcked ==
    ASSUME BaseInv, ClientOK, NEW s \in Slot, EventArrives(s), h[s] = Idle, Stays(s), UNCHANGED <<msgs, seen>>
    PROVE  AckStays
  <1>1. TypeOK /\ up # <<>> /\ up' = Tail(up)
    BY DEF BaseInv, EventArrives
  <1> DEFINE S == [kind : {"join", "read"}, id : Nat]
  <1>2. up \in Seq(S)
    BY DEF ClientOK
  <1> HIDE DEF S
  <1>3. Head(up) = up[1]
    BY <1>1, <1>2
  <1>4. \A i \in DOMAIN up : i = 1 \/ (i - 1 \in DOMAIN up' /\ up'[i - 1] = up[i])
    BY <1>1, <1>2
  <1>5. ASSUME NEW x \in Live, AckOn(x) PROVE AckOn(x)'
    <2>1. CASE seen[me] # 0 /\ msgs[seen[me]].at >= msgs[x].at
      BY <2>1 DEF AckOn
    <2>2. CASE \E t \in Slot : h[t].op = "read" /\ h[t].id = x
      BY <2>2 DEF AckOn, Stays, Idle
    <2>3. ASSUME NEW i \in DOMAIN up, up[i].kind = "read", up[i].id = x PROVE AckOn(x)'
      <3>1. CASE i = 1
        <4>1. ReadRow(s, Me, x)
          BY <1>3, <2>3, <3>1 DEF EventArrives
        <4>2. Open(s, me, Me, "read", "message", x, seen[me])
          BY <4>1 DEF ReadRow, me
        <4>3. h'[s].op = "read" /\ h'[s].id = x
          BY <1>1, <4>2, OpenGives
        <4> QED
          BY <4>3 DEF AckOn
      <3>2. CASE i # 1
        BY <1>4, <2>3, <3>2 DEF AckOn
      <3> QED
        BY <3>1, <3>2
    <2> QED
      BY <1>5, <2>1, <2>2, <2>3 DEF AckOn
  <1> QED
    BY <1>5 DEF AckStays

LEMMA BeginsAcked ==
    ASSUME Orderly, ScreenOK, Acknowledged, ~Unlinked, NEW s \in Slot, Begins(s)
    PROVE  Acknowledged'
  <1>1. BaseInv /\ ClientOK
    BY DEF Orderly
  <1>2. h[s] = Idle /\ Stays(s) /\ UNCHANGED <<msgs, seen, online, list>>
    BY <1>1, BeginsFacts DEF rows, sockets
  <1>3. \A t \in Slot : h[t].op = "read" => h'[t] = h[t]
    BY <1>2 DEF Stays, Idle
  <1>4. (\A x \in Id : x \in Live' => x \in Live) /\ (Connected => Connected')
    BY <1>2 DEF Live, Id, Connected
  <1>5. CASE OpenThread(s)
    BY <1>1, <1>2, <1>5, OpenAcked
  <1>6. CASE OpenChats(s)
    <2>1. ~active'
      BY <1>6 DEF OpenChats
    <2> QED
      BY <2>1 DEF Acknowledged
  <1>7. CASE EventArrives(s)
    <2>1. AckStays
      BY <1>1, <1>2, <1>7, ArrivesAcked
    <2>2. UNCHANGED active
      BY <1>7 DEF EventArrives, screen
    <2> QED
      BY <1>1, <1>2, <1>4, <2>1, <2>2, FirstKept
  <1>8. CASE UNCHANGED client \/ LoadOlder(s) \/ Send(s)
    <2>1. UNCHANGED <<active, up>>
      BY <1>8 DEF LoadOlder, Send, client, screen
    <2>2. AckStays
      BY <1>2, <1>3, <2>1, AckSame
    <2> QED
      BY <1>1, <1>2, <1>4, <2>1, <2>2, FirstKept
  <1> QED
    BY <1>5, <1>6, <1>7, <1>8 DEF Begins

LEMMA AddedFirst ==
    ASSUME ClientOK, NEW m
    PROVE  LET q == AddMessage(m)
           IN  Len(q) = Len(list) /\ q # <<>> => list # <<>> /\ q[1].id = list[1].id
  <1> DEFINE q == AddMessage(m)
  <1>1. Len(list) \in Nat /\ list \in Seq(Entry)
    BY DEF ClientOK
  <1>2. \/ DOMAIN q = DOMAIN list /\ \A i \in DOMAIN list : q[i].id = list[i].id
        \/ Len(q) = Len(list) + 1
    BY AddedShape
  <1> HIDE DEF q
  <1> SUFFICES ASSUME Len(q) = Len(list), q # <<>> PROVE list # <<>> /\ q[1].id = list[1].id
    BY DEF q
  <1>3. DOMAIN q = DOMAIN list /\ \A i \in DOMAIN list : q[i].id = list[i].id
    BY <1>1, <1>2
  <1>4. list # <<>>
    OBVIOUS
  <1> QED
    BY <1>1, <1>3, <1>4

LEMMA TakesAcked ==
    ASSUME Orderly, ServerOK, Acknowledged, ~Unlinked, NEW s \in Slot, Takes(s)
    PROVE  Acknowledged'
  <1>1. BaseInv /\ ClientOK /\ TypeOK
    BY DEF Orderly, BaseInv
  <1>2. Stays(s) /\ h'[s] = Idle /\ h[s].pc \in {"answered", "failed"} /\ h[s] \in Handler
    BY <1>1, TakesFacts
  <1>3. UNCHANGED <<msgs, seen, online, active>>
    BY DEF Takes, TakePage, TakeList, TakeSent, TakeFailure, rows, sockets, screen
  <1>4. \A t \in Slot : h[t].op = "read" => h'[t] = h[t]
    BY <1>2 DEF Stays, ServerOK, ReaderOK
  <1>5. (\A x \in Id : x \in Live' => x \in Live) /\ (Connected => Connected')
    BY <1>3 DEF Live, Id, Connected
  <1>6. CASE TakePage(s)
    <2> DEFINE q == list \o h[s].items
    <2>1. ShowList(q, badge)
      BY <1>6 DEF TakePage
    <2>2. Joins(q, list, h[s].items)
      BY <1>1, <1>2, JoinFacts DEF ClientOK, Handler, Entry
    <2>3. list \in Seq(Entry) /\ h[s].items \in Seq(Entry) /\ q \in Seq(Entry)
      BY <1>1, <1>2 DEF ClientOK, Handler, Entry
    <2> HIDE DEF q
    <2>4. Len(q) = Len(list) /\ q # <<>> => list # <<>> /\ q[1].id = list[1].id
      <3> SUFFICES ASSUME Len(q) = Len(list), q # <<>> PROVE list # <<>> /\ q[1].id = list[1].id
        OBVIOUS
      <3>1. 1 \in DOMAIN list
        BY <2>3
      <3> QED
        BY <2>2, <3>1 DEF Joins
    <2> QED
      BY <1>1, <1>3, <1>4, <2>1, <2>4, ShownAcked
  <1>7. CASE TakeSent(s)
    <2>1. PICK m : m = [id |-> h[s].id, text |-> 0]
      OBVIOUS
    <2>2. ShowList(AddMessage(m), badge)
      BY <1>7, <2>1 DEF TakeSent
    <2>3. Len(AddMessage(m)) = Len(list) /\ AddMessage(m) # <<>> => list # <<>> /\ AddMessage(m)[1].id = list[1].id
      BY <1>1, AddedFirst
    <2> QED
      BY <1>1, <1>3, <1>4, <2>2, <2>3, ShownAcked
  <1>8. CASE TakeList(s) \/ TakeFailure(s)
    <2>1. list' = list
      BY <1>8 DEF TakeList, TakeFailure, store
    <2>2. \A i \in DOMAIN up : \E j \in DOMAIN up' : up'[j] = up[i]
      <3>1. CASE up' = up
        BY <3>1
      <3>2. CASE up' # up
        <4> DEFINE e == [kind |-> "join", id |-> 0]
                   S == [kind : {"join", "read"}, id : Nat]
        <4>1. up' = Append(up, e) /\ up \in Seq(S)
          BY <1>1, <1>8, <3>2 DEF TakeList, TakeFailure, ClientOK
        <4> HIDE DEF e, S
        <4>2. \A i \in DOMAIN up : i \in DOMAIN up' /\ up'[i] = up[i]
          BY <4>1
        <4> QED
          BY <4>2
      <3> QED
        BY <3>1, <3>2
    <2>3. AckStays
      BY <1>3, <1>4, <2>2, AckSame
    <2> QED
      BY <1>1, <1>3, <1>5, <2>1, <2>3, FirstKept
  <1> QED
    BY <1>6, <1>7, <1>8 DEF Takes

LEMMA DeletedFirst ==
    ASSUME ClientOK, NEW id, NEW p \in Kept(id)
    PROVE  LET q == [i \in DOMAIN p |-> list[p[i]]]
           IN  Len(q) = Len(list) /\ q # <<>> => list # <<>> /\ q[1].id = list[1].id
  <1> DEFINE S == {i \in DOMAIN list : list[i].id # id}
             q == [i \in DOMAIN p |-> list[p[i]]]
  <1>1. list \in Seq(Entry) /\ DOMAIN list = 1..Len(list) /\ Len(list) \in Nat
    <2>1. list \in Seq(Entry)
      BY DEF ClientOK
    <2> QED
      BY <2>1
  <1>2. /\ p \in [1..Cardinality(S) -> S]
        /\ \A k, l \in DOMAIN p : k < l => p[k] < p[l]
    BY DEF Kept
  <1>3. S \subseteq DOMAIN list /\ IsFiniteSet(DOMAIN list) /\ Cardinality(DOMAIN list) = Len(list)
    <2>1. PICK n \in Nat : n = Len(list)
      BY <1>1
    <2>2. IsFiniteSet(1..n) /\ Cardinality(1..n) = n
      BY FS_Interval
    <2> QED
      BY <1>1, <2>1, <2>2
  <1>4. Cardinality(S) \in Nat /\ (Cardinality(S) = Len(list) => S = DOMAIN list)
    BY <1>3, FS_Subset, FS_CardinalityType
  <1>5. DOMAIN q = 1..Cardinality(S) /\ \A k \in DOMAIN q : q[k] = list[p[k]]
    BY <1>2
  <1> HIDE DEF S, q
  <1> SUFFICES ASSUME Len(q) = Len(list), q # <<>> PROVE list # <<>> /\ q[1].id = list[1].id
    BY DEF q
  <1>6. q \in Seq(Entry)
    BY KeptFacts DEF q
  <1>7. Cardinality(S) = Len(list) /\ 1 \in DOMAIN q
    BY <1>4, <1>5, <1>6
  <1>8. S = DOMAIN list /\ 1 \in DOMAIN list
    BY <1>1, <1>4, <1>5, <1>7
  <1>9. /\ DOMAIN p = 1..Cardinality(S) /\ 1 \in S
        /\ \A k \in DOMAIN p : k \in Nat /\ k # 0 /\ p[k] \in S
        /\ \A k \in S : k \in Nat /\ k # 0
    BY <1>1, <1>2, <1>4, <1>8
  <1>10. PICK k \in DOMAIN p : p[k] = 1
    <2>1. list[1].id # id
      BY <1>9 DEF S
    <2> QED
      BY <1>8, <2>1, KeptPlaces
  <1>11. k = 1
    BY <1>2, <1>5, <1>7, <1>9, <1>10
  <1> QED
    BY <1>1, <1>5, <1>7, <1>8, <1>10, <1>11

LEMMA EventsAcked ==
    ASSUME Orderly, Acknowledged, ~Unlinked, Events
    PROVE  Acknowledged'
  <1>1. ClientOK /\ TypeOK
    BY DEF Orderly, BaseInv
  <1>2. UNCHANGED <<msgs, seen, online, h>>
    BY <1>1, EventsFacts DEF rows
  <1>3. UNCHANGED active
    BY DEF Events, ReceiveNew, ReceiveUpdated, ReceiveDeleted, ReceiveNotification, client, screen
  <1>4. CASE ReceiveNew
    <2>1. PICK m, n : ShowList(AddMessage(m), n)
      BY <1>4 DEF ReceiveNew
    <2>2. Len(AddMessage(m)) = Len(list) /\ AddMessage(m) # <<>> => list # <<>> /\ AddMessage(m)[1].id = list[1].id
      BY <1>1, AddedFirst
    <2> QED
      BY <1>1, <1>2, <1>3, <2>1, <2>2, ShownAcked
  <1>5. CASE ReceiveDeleted
    <2>1. PICK id : id = Push.id
      OBVIOUS
    <2>2. PICK p \in Kept(id) : ShowList([i \in DOMAIN p |-> list[p[i]]], badge)
      BY <1>5, <2>1 DEF ReceiveDeleted
    <2> DEFINE q == [i \in DOMAIN p |-> list[p[i]]]
    <2>3. Len(q) = Len(list) /\ q # <<>> => list # <<>> /\ q[1].id = list[1].id
      BY <1>1, DeletedFirst
    <2>4. ShowList(q, badge)
      BY <2>2
    <2> HIDE DEF q
    <2> QED
      BY <1>1, <1>2, <1>3, <2>3, <2>4, ShownAcked
  <1>6. CASE ReceiveUpdated \/ ReceiveNotification
    <2>1. UNCHANGED up
      BY <1>6 DEF ReceiveUpdated, ReceiveNotification, client
    <2>2. AckStays
      BY <1>2, <2>1, AckSame
    <2>3. list' # <<>> => list # <<>> /\ list'[1].id = list[1].id
      <3>1. CASE ReceiveNotification
        BY <3>1 DEF ReceiveNotification, client, store
      <3>2. CASE ReceiveUpdated
        <4>1. DOMAIN list' = DOMAIN list /\ \A i \in DOMAIN list : list'[i].id = list[i].id
          BY <1>1, <3>2, UpdatedEntries DEF ReceiveUpdated
        <4>2. list # <<>> => 1 \in DOMAIN list
          BY <1>1 DEF ClientOK
        <4>3. list = <<>> => list' = <<>>
          BY <3>2 DEF ReceiveUpdated, UpdateMessage
        <4> QED
          BY <4>1, <4>2, <4>3
      <3> QED
        BY <1>6, <3>1, <3>2
    <2>4. (\A x \in Id : x \in Live' => x \in Live) /\ (Connected => Connected')
      BY <1>2 DEF Live, Id, Connected
    <2> QED
      BY <1>1, <1>3, <2>2, <2>3, <2>4, FirstKept
  <1> QED
    BY <1>4, <1>5, <1>6 DEF Events

LEMMA QuietAcked ==
    ASSUME Orderly, ScreenOK, Acknowledged, ~Unlinked, ~Dropped, Looks \/ SocketConnects \/ SocketDrops
    PROVE  Acknowledged'
  <1>1. ClientOK /\ TypeOK
    BY DEF Orderly, BaseInv
  <1>2. UNCHANGED <<msgs, seen, h, list>> /\ (Looks => UNCHANGED online)
    BY <1>1, QuietFacts DEF rows, sockets
  <1>3. CASE SocketConnects
    <2>1. ~Connected /\ UNCHANGED active
      BY <1>1, <1>3, QuietFacts DEF Connected, SocketConnects, screen
    <2>2. ~active \/ list = <<>>
      BY <2>1 DEF Acknowledged
    <2> QED
      BY <1>2, <2>1, <2>2, Zenon DEF Acknowledged
  <1>4. CASE SocketDrops
    BY <1>1, <1>4, QuietFacts DEF Dropped, Connected
  <1>5. ASSUME NEW s \in Slot, OpenThread(s), Looks PROVE Acknowledged'
    BY <1>1, <1>2, <1>5, OpenAcked
  <1>6. CASE OpenOther \/ CloseThread
    <2>1. ~active'
      BY <1>6 DEF OpenOther, CloseThread
    <2> QED
      BY <2>1 DEF Acknowledged
  <1>7. CASE (OtherAnswers \/ LeaveChats) /\ Looks
    <2>1. UNCHANGED <<up, active>>
      BY <1>7 DEF OtherAnswers, LeaveChats
    <2>2. AckStays
      BY <1>2, <2>1, AckSame
    <2>3. (\A x \in Id : x \in Live' => x \in Live) /\ (Connected => Connected')
      BY <1>2, <1>7 DEF Live, Id, Connected
    <2> QED
      BY <1>1, <1>2, <2>1, <2>2, <2>3, FirstKept
  <1> QED
    BY <1>3, <1>4, <1>5, <1>6, <1>7 DEF Looks

LEMMA ReadsStep ==
    ASSUME Orderly, ServerOK, ScreenOK, CurrentInv, HistInv, ReadsInv, [DesktopNext]_mcVars
    PROVE  ReadsInv'
  <1>1. CASE UNCHANGED mcVars
    <2>1. UNCHANGED <<msgs, seen, list, wire, h, online, up, page, active, badge, excused>>
      BY <1>1 DEF mcVars, allVars, vars, client, store, screen, rows, sockets
    <2>2. Orders => Orders'
      BY <2>1, OrdersSame
    <2>3. Acknowledged => Acknowledged'
      BY <2>1 DEF Acknowledged, AckOn, Connected, Live, Id
    <2>4. Receipts' = Receipts /\ (ReceiptsInTurn => ReceiptsInTurn')
      BY <2>1 DEF Receipts, ReceiptsInTurn
    <2> QED
      BY <2>1, <2>2, <2>3, <2>4 DEF ReadsInv
  <1>2. ASSUME DesktopNext, "read" \notin excused' PROVE Orders' /\ Acknowledged' /\ (page' = "thread" => badge' = 0)
    <2>1. /\ "read" \notin excused /\ "current" \notin excused'
          /\ (page = "thread" => badge = 0) /\ Orders /\ Acknowledged /\ ReceiptsInTurn
          /\ ~LateListing /\ ~Unlinked /\ ~Missed /\ ~Dropped /\ faults' = faults
      BY <1>2, ReadExcuses
    <2>2. Hist /\ (Fetches # {} => ~OnItsWay) /\ \A t, w \in Writes' : t = w
      BY <1>2, <2>1, WritersStep DEF ReadsInv, HistInv, Current
    <2>3. ScreenOK'
      BY <1>2, ScreenStep
    <2>4. page' = "thread" => badge' = 0
      BY <1>2, <2>1, <2>3, BadgeRead
    <2>5. ASSUME NEW s \in Slot, Continue(s) \/ Fail(s), UNCHANGED client PROVE Orders' /\ Acknowledged'
      <3>1. ~Fail(s)
        BY <2>1 DEF Fail, Orderly, BaseInv, TypeOK
      <3> QED
        BY <2>1, <2>2, <2>5, <3>1, WorksOrders, WorksAcked
    <2>6. ASSUME NEW s \in Slot, Begins(s) PROVE Orders' /\ Acknowledged'
      BY <2>1, <2>6, BeginsOrders, BeginsAcked
    <2>7. ASSUME NEW s \in Slot, Takes(s), Unseen = {} PROVE Orders' /\ Acknowledged'
      BY <2>1, <2>2, <2>7, TakesOrders, TakesAcked
    <2>8. ASSUME Events PROVE Orders' /\ Acknowledged'
      <3>1. Orders'
        BY <2>1, <2>2, <2>8, EventsOrders
      <3>2. Acknowledged'
        BY <2>1, <2>8, EventsAcked
      <3> QED
        BY <3>1, <3>2
    <2>9. ASSUME Looks \/ SocketConnects \/ SocketDrops PROVE Orders' /\ Acknowledged'
      <3>1. UNCHANGED <<msgs, h, list>> /\ wire'[Me] = wire[Me]
        <4>1. TypeOK
          BY DEF Orderly, BaseInv
        <4> QED
          BY <2>1, <2>9, <4>1, QuietFacts DEF rows, sockets, Dropped, Connected
      <3> QED
        BY <2>1, <2>9, <3>1, OrdersSame, QuietAcked, Zenon
    <2> QED
      BY <1>2, <2>4, <2>5, <2>6, <2>7, <2>8, <2>9, RunCases
  <1>3. CASE DesktopNext
    <2>1. IsFiniteSet(Receipts')
      BY <1>3, OneHandler, ReceiptsFinite DEF ReadsInv
    <2>2. "read" \notin excused' => ReceiptsInTurn'
      <3>1. "read" \notin excused' => ReceiptsInTurn /\ \A s, t \in Receipts' : s = t
        BY <1>3, <2>1, ReadExcuses, AtMostOne
      <3> QED
        BY <1>3, <3>1, ReceiptsStep
    <2> QED
      BY <1>2, <1>3, <2>1, <2>2, ReadExcuses DEF ReadsInv
  <1> QED
    BY <1>1, <1>3

LEMMA ReadsInit == MCInit => ReadsInv
  <1> SUFFICES ASSUME MCInit PROVE ReadsInv
    OBVIOUS
  <1>1. Init /\ page = "away" /\ list = <<>> /\ excused = {}
    BY DEF MCInit, ClientInit
  <1>2. wire[Me] = <<>> /\ \A s \in Slot : h[s].op = "none"
    BY <1>1, MeFacts DEF Init, Idle
  <1>3. Fetches = {} /\ \A i : ~NewAt(i)
    BY <1>2 DEF Fetches, NewAt
  <1>4. Orders
    BY <1>1, <1>2, <1>3 DEF Orders, ListOrder, PushOrder, Pending, Unpushed, Ids
  <1>5. Acknowledged
    BY <1>1 DEF Acknowledged
  <1>6. Receipts = {} /\ IsFiniteSet(Receipts)
    BY <1>2, FS_EmptySet DEF Receipts
  <1> QED
    BY <1>1, <1>4, <1>5, <1>6 DEF ReadsInv, ReceiptsInTurn

LEMMA ReadsGives ==
    ASSUME Orderly, ScreenOK, CurrentInv, HistInv, ReadsInv
    PROVE  OpenMeansRead
  <1> SUFFICES ASSUME Quiet, page = "thread", ~more, "read" \notin excused
               PROVE  /\ badge = 0
                      /\ \A i \in UnreadAfter(me, seen[me]) : \E j \in Id \ {i} : msgs[j].at = msgs[i].at
    BY DEF OpenMeansRead
  <1>1. badge = 0 /\ Orders /\ Acknowledged /\ "history" \notin excused /\ "current" \notin excused
    BY DEF ReadsInv
  <1>2. ASSUME NEW i \in UnreadAfter(me, seen[me]), ~Tied(i) PROVE FALSE
    <2>1. i \in Live /\ i \in Id /\ msgs[i].author # me /\ (seen[me] = 0 \/ msgs[i].at > msgs[seen[me]].at)
      BY <1>2 DEF UnreadAfter, Live
    <2>2. i \in Ids(list)
      BY <1>1, <1>2, <2>1, HistGives DEF HistoryComplete, Tied
    <2>3. 1 \in DOMAIN list /\ list # <<>>
      BY <2>2 DEF Orderly, ClientOK, Ids
    <2>4. DOMAIN wire[Me] = {} /\ DOMAIN up = {} /\ \A s \in Slot : h[s].op = "none"
      BY DEF Quiet, Idle
    <2>5. list[1].id \in Live
      BY <1>1, <2>3, CurrentGives DEF ShownIsCurrent
    <2>6. AckOn(list[1].id)
      BY <1>1, <2>3, <2>5 DEF Acknowledged, ScreenOK
    <2>7. seen[me] # 0 /\ msgs[seen[me]].at >= msgs[list[1].id].at
      BY <2>4, <2>6 DEF AckOn
    <2>8. msgs[i].at > msgs[list[1].id].at
      <3>1. seen[me] \in Id /\ \A j \in Id : msgs[j].at \in Nat
        <4>1. \A j \in Id : msgs[j] \in Row
          BY DEF Orderly, BaseInv, TypeOK, Id
        <4>2. seen[me] \in Id
          BY <2>7, MeFacts DEF Orderly, BaseInv, NamesStored, TypeOK, Id
        <4> QED
          BY <4>1, <4>2 DEF Row
      <3> QED
        BY <2>1, <2>5, <2>7, <3>1 DEF Live
    <2>9. Owed(i)
      BY <1>2, <2>1, <2>4 DEF Owed, Coming
    <2>10. PICK k \in DOMAIN list : k < 1
      BY <1>1, <2>1, <2>3, <2>8, <2>9 DEF Orders, ListOrder
    <2> QED
      BY <2>10 DEF Orderly, ClientOK
  <1> QED
    BY <1>1, <1>2 DEF Tied

-----------------------------------------------------------------------------
ClientInv == OnceInv /\ ServerOK /\ ScreenOK /\ CurrentInv /\ HistInv /\ ReadsInv

LEMMA ClientStarts == MCInit => ClientInv
  BY OnceInit, CurrentInit, HistInit, ReadsInit DEF ClientInv

LEMMA ClientStep == ClientInv /\ [DesktopNext]_mcVars => ClientInv'
  <1> SUFFICES ASSUME ClientInv, [DesktopNext]_mcVars PROVE ClientInv'
    OBVIOUS
  <1>1. OnceInv /\ Orderly
    BY DEF ClientInv, OnceInv
  <1>2. ServerOK /\ ScreenOK /\ CurrentInv /\ HistInv /\ ReadsInv
    BY DEF ClientInv
  <1> QED
    BY <1>1, <1>2, OnceStep, ServerStep, ScreenStep, CurrentStep, HistStep, ReadsStep DEF ClientInv

LEMMA ClientGives == ClientInv => ShownIsCurrent /\ HistoryComplete /\ OpenMeansRead
  BY CurrentGives, HistGives, ReadsGives DEF ClientInv, OnceInv

(* useChatSocket and chatStore apply what MessagesService pushes: once nothing  *)
(* is on its way, no deleted message and no old text is on the screen, however   *)
(* edits, deletes, pages and drops followed each other, unless two updates were  *)
(* handled at once, a push met a page, or a push or the socket was lost.         *)
THEOREM ShownStaysCurrent == DesktopSpec => []ShownIsCurrent
  BY ClientStarts, ClientStep, ClientGives, PTL DEF DesktopSpec

(* The cursor of findByConverse and addMessage leave no gap: an open thread      *)
(* scrolled to the end of the history shows every message that is stored and not *)
(* deleted, but for those that share a millisecond with another one.  That pages *)
(* meet pushes or each other does no harm to it.                                 *)
THEOREM HistoryStaysComplete == DesktopSpec => []HistoryComplete
  BY ClientStarts, ClientStep, ClientGives, PTL DEF DesktopSpec

(* ChatThread emits message:read for the first message only, and handleMessageRead *)
(* stores it later: still an open thread with its history has nothing unread, on   *)
(* the badge or in the database, once nothing is on its way; unless two receipts   *)
(* of the client were handled at once, or another event excused names came before. *)
THEOREM OpenStaysRead == DesktopSpec => []OpenMeansRead
  BY ClientStarts, ClientStep, ClientGives, PTL DEF DesktopSpec

(* The same of the specification the runs check. *)
THEOREM RunKeepsThread == MCSpec => [](ShownIsCurrent /\ HistoryComplete /\ OpenMeansRead)
  <1>1. [MCNext]_mcVars => [DesktopNext]_mcVars
    BY DEF MCNext
  <1> QED
    BY <1>1, ClientStarts, ClientStep, ClientGives, PTL DEF MCSpec
=============================================================================
