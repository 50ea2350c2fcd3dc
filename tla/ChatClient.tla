------------------------------- MODULE ChatClient -------------------------------
(***************************************************************************)
(* The desktop's view of one conversation (apps/desktop/src/renderer):     *)
(* useChatSocket, chatStore, ChatThread, MessageInput, ChatPage and        *)
(* ConversationList, composed with the server of Messages.                 *)
(*                                                                         *)
(* Me is the socket of the client looked at; everybody else uses requests. *)
(* An HTTP answer and the events of the socket arrive in any order.  A     *)
(* step is one JavaScript turn with the effects React runs after it; the   *)
(* effects are named next to the state they depend on.                     *)
(***************************************************************************)
EXTENDS Messages

CONSTANTS Me,                  \* the socket of this client
          NoSlot, Elsewhere,   \* no fetch; a fetch of another conversation
          MaxUp                \* bound: nothing is opened while more events wait in up

ASSUME MeAssumption ==
    Me \in Socket /\ NoSlot \notin Slot /\ Elsewhere \notin Slot /\ MaxUp \in Nat

VARIABLES page,      \* "thread", "other" thread, "list" of chats, "away" from chats
          active,    \* activeConverseId is this conversation
          list,      \* messages[converseId], newest first
          more,      \* hasMore[converseId], undefined is FALSE
          cursor,    \* cursors[converseId], 0 for null
          loading,   \* the fetch that will reset loadingRef of the mounted ChatThread
          known,     \* the conversation is in the store's converses
          badge,     \* unreadCount of that entry
          joined,    \* joinedRoomsRef has the conversation
          up         \* events emitted to the server and not yet handled

me == Owner[Me]
store == <<list, more, cursor, known, badge>>
screen == <<page, active, loading>>
client == <<store, screen, joined, up>>
allVars == <<vars, client>>

Thread == {"thread", "other"}

ClientInit ==
    /\ Init
    /\ page = "away" /\ active = FALSE /\ loading = NoSlot
    /\ list = <<>> /\ more = FALSE /\ cursor = 0
    /\ known = FALSE /\ badge = 0
    /\ joined = FALSE /\ up = <<>>

-----------------------------------------------------------------------------
Connected == Me \in online

(* addMessage: a message that is there is overwritten, a new one goes first. *)
AddMessage(m) ==
    IF \E i \in DOMAIN list : list[i].id = m.id
    THEN [i \in DOMAIN list |-> IF list[i].id = m.id THEN m ELSE list[i]]
    ELSE <<m>> \o list

UpdateMessage(m) == [i \in DOMAIN list |-> IF list[i].id = m.id THEN m ELSE list[i]]

(* removeMessage is a filter: the places that stay, in their order. *)
Kept(id) ==
    LET others == {i \in DOMAIN list : list[i].id # id}
    IN {q \in [1..Cardinality(others) -> others] :
           \A i, j \in DOMAIN q : i < j => q[i] < q[j]}

(* Mutant: the first message is taken to be the oldest. *)
MarkLastRead(isActive, q, otherwise) ==
    IF Connected /\ isActive /\ q # <<>>
    THEN /\ up' = Append(up, [kind |-> "read", id |-> q[Len(q)].id])
         /\ badge' = 0
    ELSE up' = up /\ badge' = otherwise

(* The effect on [activeConverseId, activeMessagesLen]: emit message:read for *)
(* the first message, reset the badge; only while the socket is connected.    *)
MarkRead(isActive, q, otherwise) ==
    IF Connected /\ isActive /\ q # <<>>
    THEN /\ up' = Append(up, [kind |-> "read", id |-> q[1].id])
         /\ badge' = 0
    ELSE up' = up /\ badge' = otherwise

(* The list becomes q; the effect runs when its length has changed. *)
ShowList(q, unread) ==
    /\ list' = q
    /\ IF Len(q) # Len(list) THEN MarkRead(active, q, unread)
       ELSE up' = up /\ badge' = unread

-----------------------------------------------------------------------------
(* The socket: the rooms known are joined after every connect. *)
SocketConnects ==
    /\ Connect(Me)
    /\ joined' = known
    /\ up' = IF known THEN <<[kind |-> "join", id |-> 0]>> ELSE <<>>
    /\ UNCHANGED <<store, screen>>

SocketDrops ==
    /\ Disconnect(Me)
    /\ joined' = FALSE /\ up' = <<>>
    /\ UNCHANGED <<store, screen>>

(* The server takes the next event of the client and starts its handler. *)
EventArrives(s) ==
    /\ up # <<>> /\ up' = Tail(up)
    /\ IF Head(up).kind = "join" THEN JoinVerifies(s, Me) ELSE ReadRow(s, Me, Head(up).id)
    /\ UNCHANGED <<store, screen, joined>>

Took(c) == wire' = [wire EXCEPT ![c] = Tail(@)]
Pushed(kind) == wire[Me] # <<>> /\ Head(wire[Me]).kind = kind
Push == [id |-> Head(wire[Me]).id, text |-> Head(wire[Me]).text]

(* message:new has no authorId, so one's own message counts as unread, too. *)
ReceiveNew ==
    /\ Pushed("new") /\ Took(Me)
    /\ ShowList(AddMessage(Push), IF known /\ ~active THEN badge + 1 ELSE badge)
    /\ UNCHANGED <<rows, online, room, h, bounds, more, cursor, known, screen, joined>>

ReceiveUpdated ==
    /\ Pushed("updated") /\ Took(Me)
    /\ list' = UpdateMessage(Push)
    /\ UNCHANGED <<rows, online, room, h, bounds, more, cursor, known, badge, screen,
                   joined, up>>

(* Mutant: the event is looked up under a field it does not have. *)
ReceiveDeletedIgnored ==
    /\ Pushed("deleted") /\ Took(Me)
    /\ UNCHANGED <<rows, online, room, h, bounds, client>>

ReceiveDeleted ==
    /\ Pushed("deleted") /\ Took(Me)
    /\ \E q \in Kept(Push.id) : ShowList([i \in DOMAIN q |-> list[q[i]]], badge)
    /\ UNCHANGED <<rows, online, room, h, bounds, more, cursor, known, screen, joined>>

(* No handler of the desktop listens to notification:new. *)
ReceiveNotification ==
    /\ Pushed("notify") /\ Took(Me)
    /\ UNCHANGED <<rows, online, room, h, bounds, client>>

-----------------------------------------------------------------------------
(* From another page: ChatPage mounts, shows the list and fetches it. *)
OpenChats(s) ==
    /\ page = "away"
    /\ page' = "list" /\ active' = FALSE
    /\ ListReads(s, me, Me)
    /\ UNCHANGED <<store, loading, joined, up>>

(* Mutant: every opening fetches the first page. *)
FetchOnOpen(s) ==
    /\ page \in {"list", "other"} /\ known /\ Len(up) <= MaxUp
    /\ page' = "thread" /\ active' = TRUE
    /\ MarkRead(TRUE, list, 0)
    /\ IF loading = NoSlot
       THEN PageVerifies(s, me, Me, 0) /\ loading' = s
       ELSE UNCHANGED <<vars, loading>>
    /\ UNCHANGED <<list, more, cursor, known, joined>>

(* A click on the conversation.  The first page is fetched only when the list *)
(* is empty and loadingRef is not set, by whatever conversation.              *)
OpenThread(s) ==
    /\ page \in {"list", "other"} /\ known /\ Len(up) <= MaxUp
    /\ page' = "thread" /\ active' = TRUE
    /\ MarkRead(TRUE, list, 0)
    /\ IF list = <<>> /\ loading = NoSlot
       THEN PageVerifies(s, me, Me, 0) /\ loading' = s
       ELSE UNCHANGED <<vars, loading>>
    /\ UNCHANGED <<list, more, cursor, known, joined>>

(* Another conversation: from a thread the same ChatThread stays mounted. *)
OpenOther ==
    /\ page \in {"list", "thread"}
    /\ page' = "other" /\ active' = FALSE
    /\ loading' \in IF loading = NoSlot THEN {NoSlot, Elsewhere} ELSE {loading}
    /\ UNCHANGED <<vars, store, joined, up>>

OtherAnswers ==
    /\ loading = Elsewhere
    /\ loading' = NoSlot
    /\ UNCHANGED <<vars, store, page, active, joined, up>>

(* ChatThread unmounts; the answer of its fetch will still reach the store. *)
CloseThread ==
    /\ page \in Thread
    /\ page' = "list" /\ active' = FALSE /\ loading' = NoSlot
    /\ UNCHANGED <<vars, store, joined, up>>

(* ChatPage unmounts and leaves activeConverseId as it is. *)
LeaveChats ==
    /\ page # "away" /\ moves < MaxMoves
    /\ page' = "away" /\ loading' = NoSlot
    /\ moves' = moves + 1
    /\ UNCHANGED <<rows, sockets, h, faults, store, active, joined, up>>

(* Scrolled to the top. *)
LoadOlder(s) ==
    /\ page = "thread" /\ more /\ loading = NoSlot
    /\ PageVerifies(s, me, Me, cursor)
    /\ loading' = s
    /\ UNCHANGED <<store, page, active, joined, up>>

Sending == \E s \in Slot : h[s].op = "create" /\ h[s].sock = Me

Send(s) ==
    /\ page = "thread" /\ ~Sending
    /\ CreateVerifies(s, me, Me)
    /\ UNCHANGED client

-----------------------------------------------------------------------------
Answered(s, op) == h[s].sock = Me /\ At(s, op, "answered")
Settle(s) == loading' = IF loading = s THEN NoSlot ELSE loading

(* prependMessages appends what was fetched, whatever the list has by now. *)
TakePage(s) ==
    /\ Answered(s, "page")
    /\ ShowList(list \o h[s].items, badge)
    /\ more' = h[s].more /\ cursor' = h[s].next
    /\ Settle(s) /\ Free(s)
    /\ UNCHANGED <<rows, sockets, bounds, known, page, active, joined>>

(* setConverses; a conversation that was not known is joined. *)
TakeList(s) ==
    /\ Answered(s, "list")
    /\ known' = TRUE /\ badge' = h[s].cur
    /\ IF Connected /\ ~joined
       THEN joined' = TRUE /\ up' = Append(up, [kind |-> "join", id |-> 0])
       ELSE UNCHANGED <<joined, up>>
    /\ Free(s)
    /\ UNCHANGED <<rows, sockets, bounds, list, more, cursor, screen>>

(* handleSend: the message as it was stored, perhaps after its own push. *)
TakeSent(s) ==
    /\ Answered(s, "create")
    /\ ShowList(AddMessage([id |-> h[s].id, text |-> 0]), badge)
    /\ Free(s)
    /\ UNCHANGED <<rows, sockets, bounds, more, cursor, known, screen, joined>>

(* The error is logged and the fetch not repeated. *)
TakeFailure(s) ==
    /\ h[s].sock = Me /\ h[s].pc = "failed"
    /\ Settle(s) /\ Free(s)
    /\ UNCHANGED <<rows, sockets, bounds, store, page, active, joined, up>>

-----------------------------------------------------------------------------
Server(s) ==
    \/ \E u \in User \ {me} :
          \/ CreateVerifies(s, u, NoSocket)
          \/ \E op \in {"edit", "delete"}, id \in Id : FindOwn(s, u, NoSocket, op, id)
    \/ Continue(s) \/ Fail(s)

ClientNext ==
    \/ \E s \in Slot : Server(s) /\ UNCHANGED client
    \/ \E s \in Slot :
          \/ EventArrives(s)
          \/ OpenChats(s) \/ OpenThread(s) \/ LoadOlder(s) \/ Send(s)
          \/ TakePage(s) \/ TakeList(s) \/ TakeSent(s) \/ TakeFailure(s)
    \/ OpenOther \/ OtherAnswers \/ CloseThread \/ LeaveChats
    \/ ReceiveNew \/ ReceiveUpdated \/ ReceiveDeleted \/ ReceiveNotification
    \/ SocketConnects \/ SocketDrops

ClientSpec == ClientInit /\ [][ClientNext]_allVars
=============================================================================
