-------------------------------- MODULE Messages --------------------------------
(***************************************************************************)
(* One conversation: MessagesService (apps/server/src/messages), the rooms *)
(* and read receipts of ChatGateway, BroadcastService (server/src/gateway) *)
(* and the listing of ConversesService.                                    *)
(*                                                                         *)
(* A slot runs one handler of an HTTP request or a socket event.  Each     *)
(* query is a step together with what runs until the next await; what was  *)
(* read is kept in h[s].  A request of a client with a socket keeps its    *)
(* slot until that client takes the answer ("answered" or "failed").       *)
(*                                                                         *)
(* Ids are numbers in the order of the inserts; createdAt is a number of   *)
(* milliseconds that several messages may share.  Mute checks and reply    *)
(* targets are left out (Groups has the former); contents are the number   *)
(* of edits.                                                               *)
(***************************************************************************)
EXTENDS Naturals, Sequences, FiniteSets

CONSTANTS User, NoUser,
          Socket, NoSocket,   \* connections of the chat namespace
          Owner,              \* Owner[c]: the user who is logged in on c
          Slot,               \* handlers that run at the same time
          Ops,                \* Ops[u]: the operations the clients of u call
          PageSize,           \* the limit of a page
          MaxMessages, MaxEdits, MaxMoves, MaxFaults   \* bounds

AllOps == {"create", "edit", "delete", "page", "list", "read", "join"}

ASSUME UserAssumption == NoUser \notin User /\ NoSocket \notin Socket
ASSUME OwnerAssumption == Owner \in [Socket -> User]
ASSUME OpsAssumption == Ops \in [User -> SUBSET AllOps]
ASSUME BoundsAssumption ==
    /\ PageSize \in Nat \ {0}
    /\ {MaxMessages, MaxEdits, MaxMoves, MaxFaults} \subseteq Nat

VARIABLES msgs,      \* the Message rows, in the order they were inserted
          member,    \* users with a ConverseMember row
          last,      \* last[u]: lastMessageId of that row, 0 for null
          seen,      \* seen[u]: lastSeenMessageId, 0 for null
          online,    \* sockets that are connected; they are in their user's room
          room,      \* sockets in the room of the conversation
          wire,      \* wire[c]: events emitted to c and not yet received
          h,         \* h[s]: the handler on slot s
          moves, faults

rows == <<msgs, member, last, seen>>
sockets == <<online, room, wire>>
bounds == <<moves, faults>>
vars == <<rows, sockets, h, bounds>>

Id == 1..Len(msgs)
Time == 0..MaxMessages
Event == [kind : {"new", "notify", "updated", "deleted"},
          id : 1..MaxMessages, text : 0..MaxEdits]

Idle == [op |-> "none", pc |-> "idle", user |-> NoUser, sock |-> NoSocket,
         id |-> 0, cur |-> 0, items |-> <<>>, more |-> FALSE, next |-> 0]

Init ==
    /\ msgs = <<>>
    /\ member = User
    /\ last = [u \in User |-> 0]
    /\ seen = [u \in User |-> 0]
    /\ online = {} /\ room = {}
    /\ wire = [c \in Socket |-> <<>>]
    /\ h = [s \in Slot |-> Idle]
    /\ moves = 0 /\ faults = 0

-----------------------------------------------------------------------------
At(s, op, pc) == h[s].op = op /\ h[s].pc = pc
Goto(s, pc) == h' = [h EXCEPT ![s].pc = pc]
Free(s) == h' = [h EXCEPT ![s] = Idle]

(* Nobody waits for the result of an event, or of a request made elsewhere. *)
Return(s) == IF h[s].sock = NoSocket \/ h[s].op \in {"read", "join"}
             THEN Free(s) ELSE Goto(s, "answered")
Throw(s) == IF h[s].sock = NoSocket \/ h[s].op \in {"read", "join"}
            THEN Free(s) ELSE Goto(s, "failed")

Open(s, u, c, op, pc, id, cur) ==
    h' = [h EXCEPT ![s] = [Idle EXCEPT !.op = op, !.pc = pc, !.user = u, !.sock = c,
                                       !.id = id, !.cur = cur]]

Admits(s, u, op) == h[s].pc = "idle" /\ op \in Ops[u]

(* Namespace.to(sockets).emit *)
Emit(to, kind, id) ==
    wire' = [c \in Socket |->
                IF c \in to THEN Append(wire[c], [kind |-> kind, id |-> id,
                                                  text |-> msgs[id].text])
                            ELSE wire[c]]

-----------------------------------------------------------------------------
Running(op, id) == Cardinality({s \in Slot : h[s].op = op /\ h[s].id = id})

(* create: verifyMembership; checkMuted and the message replied to pass.  Then *)
(* the insert, the previews and the pushes.                                    *)
CreateVerifies(s, u, c) ==
    /\ Admits(s, u, "create") /\ Len(msgs) + Running("create", 0) < MaxMessages
    /\ u \in member
    /\ Open(s, u, c, "create", "insert", 0, 0)
    /\ UNCHANGED <<rows, sockets, bounds>>

(* createdAt may be the millisecond of the message before. *)
InsertMessage(s) ==
    /\ At(s, "create", "insert")
    /\ \E dt \in 0..1 :
          LET t == IF msgs = <<>> THEN 1 ELSE msgs[Len(msgs)].at + dt
          IN msgs' = Append(msgs, [at |-> t, author |-> h[s].user, text |-> 0,
                                   deleted |-> FALSE])
    /\ h' = [h EXCEPT ![s].id = Len(msgs) + 1, ![s].pc = "touch"]
    /\ UNCHANGED <<member, last, seen, sockets, bounds>>

(* Mutant: only the author's row gets the new lastMessageId. *)
TouchAuthor(s) ==
    /\ At(s, "create", "touch")
    /\ last' = [u \in User |-> IF u = h[s].user THEN h[s].id ELSE last[u]]
    /\ Goto(s, "push")
    /\ UNCHANGED <<msgs, member, seen, sockets, bounds>>

(* The transaction that sets lastMessageId of every member row. *)
TouchMembers(s) ==
    /\ At(s, "create", "touch")
    /\ last' = [u \in User |-> IF u \in member THEN h[s].id ELSE last[u]]
    /\ Goto(s, "push")
    /\ UNCHANGED <<msgs, member, seen, sockets, bounds>>

(* toRoom(converseId, 'message:new') *)
PushNew(s) ==
    /\ At(s, "create", "push")
    /\ Emit(room, "new", h[s].id)
    /\ Goto(s, "notify")
    /\ UNCHANGED <<rows, online, room, bounds>>

(* Mutant: whoever has one socket in the room is taken to be informed. *)
NotifyAbsentUsers(s) ==
    /\ At(s, "create", "notify")
    /\ Emit({c \in online : /\ Owner[c] \in member \ {h[s].user}
                            /\ \A d \in room : Owner[d] # Owner[c]}, "notify", h[s].id)
    /\ Return(s)
    /\ UNCHANGED <<rows, online, room, bounds>>

(* getMemberIds, then toRoomIfNotIn for everyone but the author. *)
NotifyOthers(s) ==
    /\ At(s, "create", "notify")
    /\ Emit({c \in online \ room : Owner[c] \in member \ {h[s].user}}, "notify", h[s].id)
    /\ Return(s)
    /\ UNCHANGED <<rows, online, room, bounds>>

-----------------------------------------------------------------------------
(* update and softDelete: the message exists, is not deleted and is one's own. *)
FindOwn(s, u, c, op, id) ==
    /\ Admits(s, u, op) /\ op \in {"edit", "delete"}
    /\ id \in Id
    /\ op = "edit" => msgs[id].text + Running("edit", id) < MaxEdits
    /\ ~msgs[id].deleted /\ msgs[id].author = u
    /\ Open(s, u, c, op, "write", id, 0)
    /\ UNCHANGED <<rows, sockets, bounds>>

(* The updates name the id only: an edit may find the message deleted by now. *)
WriteEdit(s) ==
    /\ At(s, "edit", "write")
    /\ msgs' = [msgs EXCEPT ![h[s].id].text = @ + 1]
    /\ h' = [h EXCEPT ![s].cur = msgs[h[s].id].text + 1, ![s].pc = "push"]
    /\ UNCHANGED <<member, last, seen, sockets, bounds>>

WriteDelete(s) ==
    /\ At(s, "delete", "write")
    /\ msgs' = [msgs EXCEPT ![h[s].id].deleted = TRUE]
    /\ Goto(s, "push")
    /\ UNCHANGED <<member, last, seen, sockets, bounds>>

(* The push follows when the answer of the database is there: pushes of two *)
(* updates may leave in another order than the updates were stored.          *)
PushEdit(s) ==
    /\ At(s, "edit", "push")
    /\ wire' = [c \in Socket |->
                  IF c \in room THEN Append(wire[c], [kind |-> "updated", id |-> h[s].id,
                                                      text |-> h[s].cur])
                                ELSE wire[c]]
    /\ Return(s)
    /\ UNCHANGED <<rows, online, room, bounds>>

PushDeleted(s) ==
    /\ At(s, "delete", "push")
    /\ Emit(room, "deleted", h[s].id)
    /\ Return(s)
    /\ UNCHANGED <<rows, online, room, bounds>>

-----------------------------------------------------------------------------
Live == {i \in Id : ~msgs[i].deleted}
Shown(i) == [id |-> i, text |-> msgs[i].text]

(* Newest first; messages of one millisecond come in any order. *)
NewestFirst(S) ==
    {q \in [1..Cardinality(S) -> S] :
        \A i, j \in DOMAIN q : i < j => q[i] # q[j] /\ msgs[q[i]].at >= msgs[q[j]].at}

(* findByConverse: verifyMembership, then a page before the cursor, if any. *)
PageVerifies(s, u, c, cursor) ==
    /\ Admits(s, u, "page")
    /\ u \in member
    /\ h' = [h EXCEPT ![s] = [Idle EXCEPT !.op = "page", !.pc = "find", !.user = u,
                                          !.sock = c, !.next = cursor]]
    /\ UNCHANGED <<rows, sockets, bounds>>

(* Mutant: the cursor is the first message that was left out. *)
FindPageLeftOut(s) ==
    /\ At(s, "page", "find")
    /\ LET cursor == h[s].next
           found == {i \in Live : cursor = 0 \/ msgs[i].at < cursor}
           more == Cardinality(found) > PageSize
       IN \E q \in NewestFirst(found) :
             h' = [h EXCEPT ![s].pc = "answered",
                            ![s].items = [i \in 1..(IF more THEN PageSize ELSE Len(q)) |->
                                             Shown(q[i])],
                            ![s].more = more,
                            ![s].next = IF more THEN msgs[q[PageSize + 1]].at ELSE 0]
    /\ UNCHANGED <<rows, sockets, bounds>>

(* limit + 1 rows are read; nextCursor is the createdAt of the last one returned. *)
FindPage(s) ==
    /\ At(s, "page", "find")
    /\ LET cursor == h[s].next
           found == {i \in Live : cursor = 0 \/ msgs[i].at < cursor}
           more == Cardinality(found) > PageSize
       IN \E q \in NewestFirst(found) :
             h' = [h EXCEPT ![s].pc = "answered",
                            ![s].items = [i \in 1..(IF more THEN PageSize ELSE Len(q)) |->
                                             Shown(q[i])],
                            ![s].more = more,
                            ![s].next = IF more THEN msgs[q[PageSize]].at ELSE 0]
    /\ UNCHANGED <<rows, sockets, bounds>>

(* getUnreadCount: what others wrote after the message last seen. *)
UnreadAfter(u, cur) ==
    {i \in Live : msgs[i].author # u /\ (cur = 0 \/ msgs[i].at > msgs[cur].at)}

(* findUserConverses: the member row is read first, the unread messages later. *)
ListReads(s, u, c) ==
    /\ Admits(s, u, "list")
    /\ u \in member
    /\ Open(s, u, c, "list", "count", 0, seen[u])
    /\ UNCHANGED <<rows, sockets, bounds>>

ListCounts(s) ==
    /\ At(s, "list", "count")
    /\ h' = [h EXCEPT ![s].cur = Cardinality(UnreadAfter(h[s].user, h[s].cur)),
                      ![s].pc = "answered"]
    /\ UNCHANGED <<rows, sockets, bounds>>

-----------------------------------------------------------------------------
(* message:read: the member row, the message, the row's old message, the write. *)
ReadRow(s, c, id) ==
    /\ Admits(s, Owner[c], "read") /\ c \in online
    /\ Owner[c] \in member
    /\ Open(s, Owner[c], c, "read", "message", id, seen[Owner[c]])
    /\ UNCHANGED <<rows, sockets, bounds>>

(* Mutant: the position is not compared with the one before. *)
ReadMessageOnly(s) ==
    /\ At(s, "read", "message")
    /\ IF h[s].id \in Live THEN Goto(s, "write") ELSE Return(s)
    /\ UNCHANGED <<rows, sockets, bounds>>

(* createdAt never changes, so the read of the old message is no step of its own. *)
ReadMessage(s) ==
    LET id == h[s].id
        cur == h[s].cur
    IN /\ At(s, "read", "message")
       /\ IF id \in Live /\ (cur # 0 => msgs[cur].at < msgs[id].at)
          THEN Goto(s, "write") ELSE Return(s)
       /\ UNCHANGED <<rows, sockets, bounds>>

WriteSeen(s) ==
    /\ At(s, "read", "write")
    /\ seen' = IF h[s].user \in member THEN [seen EXCEPT ![h[s].user] = h[s].id] ELSE seen
    /\ Return(s)
    /\ UNCHANGED <<msgs, member, last, sockets, bounds>>

-----------------------------------------------------------------------------
(* handleConnection joins the room of the user at once. *)
Connect(c) ==
    /\ c \notin online
    /\ online' = online \cup {c}
    /\ UNCHANGED <<rows, room, wire, h, bounds>>

(* Socket.IO takes a closed socket out of its rooms; what is on its way is lost. *)
Disconnect(c) ==
    /\ c \in online /\ moves < MaxMoves
    /\ moves' = moves + 1
    /\ online' = online \ {c}
    /\ room' = room \ {c}
    /\ wire' = [wire EXCEPT ![c] = <<>>]
    /\ UNCHANGED <<rows, h, faults>>

(* converse:join *)
JoinVerifies(s, c) ==
    /\ Admits(s, Owner[c], "join") /\ c \in online
    /\ Owner[c] \in member
    /\ Open(s, Owner[c], c, "join", "join", 0, 0)
    /\ UNCHANGED <<rows, sockets, bounds>>

JoinRoom(s) ==
    /\ At(s, "join", "join")
    /\ room' = IF h[s].sock \in online THEN room \cup {h[s].sock} ELSE room
    /\ Return(s)
    /\ UNCHANGED <<rows, online, wire, bounds>>

(* converse:leave *)
LeaveRoom(c) ==
    /\ c \in room /\ moves < MaxMoves
    /\ room' = room \ {c}
    /\ moves' = moves + 1
    /\ UNCHANGED <<rows, online, wire, h, faults>>

(* The client receives the next event. *)
Receive(c) ==
    /\ wire[c] # <<>>
    /\ wire' = [wire EXCEPT ![c] = Tail(@)]
    /\ UNCHANGED <<rows, online, room, h, bounds>>

(* Members come and go (Groups): the row goes, the socket stays in the room. *)
RemoveMember(u) ==
    /\ u \in member /\ moves < MaxMoves
    /\ member' = member \ {u}
    /\ last' = [last EXCEPT ![u] = 0]
    /\ seen' = [seen EXCEPT ![u] = 0]
    /\ moves' = moves + 1
    /\ UNCHANGED <<msgs, sockets, h, faults>>

AddMember(u) ==
    /\ u \notin member
    /\ member' = member \cup {u}
    /\ UNCHANGED <<msgs, last, seen, sockets, h, bounds>>

(* A query rejects: the request gets an error, an event is logged and dropped. *)
Fail(s) ==
    /\ h[s].pc \notin {"idle", "answered", "failed"} /\ faults < MaxFaults
    /\ faults' = faults + 1
    /\ Throw(s)
    /\ UNCHANGED <<rows, sockets, moves>>

Continue(s) ==
    \/ InsertMessage(s) \/ TouchMembers(s) \/ PushNew(s) \/ NotifyOthers(s)
    \/ WriteEdit(s) \/ WriteDelete(s) \/ PushEdit(s) \/ PushDeleted(s)
    \/ FindPage(s) \/ ListCounts(s)
    \/ ReadMessage(s) \/ WriteSeen(s) \/ JoinRoom(s)

(* Requests of clients that are not looked at further, and of any socket. *)
Next ==
    \/ \E s \in Slot, u \in User :
          \/ CreateVerifies(s, u, NoSocket)
          \/ \E op \in {"edit", "delete"}, id \in Id : FindOwn(s, u, NoSocket, op, id)
    \/ \E s \in Slot, c \in Socket :
          JoinVerifies(s, c) \/ \E id \in Id : ReadRow(s, c, id)
    \/ \E s \in Slot : Continue(s) \/ Fail(s)
    \/ \E c \in Socket : Connect(c) \/ Disconnect(c) \/ LeaveRoom(c) \/ Receive(c)
    \/ \E u \in User : RemoveMember(u) \/ AddMember(u)

Spec == Init /\ [][Next]_vars
=============================================================================
