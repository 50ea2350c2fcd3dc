------------------------------ MODULE MCMessages ------------------------------
(* Instances of Messages, with what the properties remember of the past. *)
EXTENDS Messages, TLC

CONSTANTS u1, u2, c1, c2

(* One user writes, the other one is connected twice. *)
TwoSockets == (c1 :> u2) @@ (c2 :> u2)

(* The first user writes and deletes, the second one reads. *)
WriterAndReader == (u1 :> {"create", "edit", "delete"}) @@ (u2 :> {"read", "join"})

Symmetry == Permutations(Slot) \cup Permutations(Socket)

VARIABLES raced,    \* users of whom two message:read handlers overlapped
          crossed,  \* two creates were between insert and update together, or one failed there
          fresh,    \* users whose row is younger than the last update of the rows
          acked,    \* acked[u]: createdAt of the newest receipt stored for the row of u
          told,     \* <<c, id>>: c was pushed id, and the create of id still runs
          late      \* <<c, id>>: c joined the room between the push of id and its notification
history == <<raced, crossed, fresh, acked, told, late>>
historyVars == <<vars, history>>

HistoryInit ==
    /\ Init
    /\ raced = {} /\ crossed = FALSE /\ fresh = {}
    /\ acked = [u \in User |-> 0]
    /\ told = {} /\ late = {}

Reading(u) == {s \in Slot : h[s].op = "read" /\ h[s].user = u}
Touching == {s \in Slot : At(s, "create", "touch")}
Notifying == {s \in Slot : At(s, "create", "notify")}

Remember ==
    /\ raced' = raced \cup {u \in User : Cardinality(Reading(u)') > 1}
    /\ crossed' = \/ crossed \/ Cardinality(Touching') > 1
                  \/ faults' # faults /\ Touching' # Touching
    /\ fresh' = (IF last' # last /\ member' = member THEN {} ELSE fresh) \cup (member' \ member)
    /\ acked' = [u \in User |->
                   IF u \notin member' THEN 0
                   ELSE IF seen'[u] \in {0, seen[u]} THEN acked[u]
                   ELSE LET t == msgs[seen'[u]].at IN IF t > acked[u] THEN t ELSE acked[u]]
    /\ told' = {<<c, h[s].id>> : c \in {d \in Socket : Len(wire'[d]) > Len(wire[d])},
                                 s \in Notifying' \ Notifying}
               \cup {p \in told : \E s \in Notifying' : h[s].id = p[2]}
    /\ late' = {<<c, h[s].id>> : c \in room' \ room, s \in Notifying}
               \cup {p \in late : \E s \in Notifying' : h[s].id = p[2]}

(* Receiving changes nothing here: events are received at once. *)
HistoryNext ==
    /\ IF \E c \in Socket : wire[c] # <<>> THEN \E c \in Socket : Receive(c) ELSE Next
    /\ Remember
HistorySpec == HistoryInit /\ [][HistoryNext]_historyVars

-----------------------------------------------------------------------------
(* create sets lastMessageId of all members: once no create is between its    *)
(* insert and that update, the row of everybody who was a member then names   *)
(* the newest message, until two creates overlap there or one fails there.    *)
LastIsNewestInTurn ==
    Touching = {} /\ ~crossed => \A u \in member \ fresh : last[u] = Len(msgs)

(* "prevent the cursor from moving back" (handleMessageRead): what a member    *)
(* acknowledged is never counted as unread for him again, whatever arrives,    *)
(* is deleted or fails, until two of his own receipts are handled at once.     *)
ReadStaysReadInTurn ==
    \A u \in member \ raced : \A i \in UnreadAfter(u, seen[u]) : msgs[i].at > acked[u]

(* create pushes message:new to the room and notification:new to whoever is    *)
(* not in it: every connected socket of every other member gets one of them,   *)
(* unless the socket joins the room between the two.                           *)
EveryoneTold ==
    [][\A s \in Notifying \ Notifying' : faults' = faults =>
         \A c \in online : Owner[c] \in member \ {h[s].user} =>
             \/ <<c, h[s].id>> \in told \cup late
             \/ wire'[c] # <<>> /\ wire'[c][1].id = h[s].id]_historyVars
=============================================================================
