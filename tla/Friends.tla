-------------------------------- MODULE Friends --------------------------------
(***************************************************************************)
(* FriendsService (apps/server/src/friends): requests, friendships, blocks *)
(* and the direct conversation of a pair.                                  *)
(*                                                                         *)
(* A step is the code between two awaits; a transaction is one step except *)
(* that of blockUser, whose read of the friendship decides what it deletes *)
(* (PostgreSQL's READ COMMITTED lets others commit in between).  Writes    *)
(* name rows by id and throw when the row is gone or a key exists: the     *)
(* handler then returns and its transaction leaves no trace.               *)
(***************************************************************************)
EXTENDS Naturals, FiniteSets

CONSTANTS User,
          NoUser,
          Slot,         \* handlers that run at the same time
          MaxRequests   \* bound on friend requests ever made

ASSUME NoUserAssumption == NoUser \notin User
ASSUME MaxRequestsAssumption == MaxRequests \in Nat

VARIABLES request,     \* request[i]: the FriendRequest row i; "none" before, "gone" after
          friendship,  \* friendship[p]: the request that made pair p friends, or 0
          blocked,     \* UserBlock: <<blocker, blocked>>
          dm,          \* dm[p]: the direct conversation of p, isOpen of both members
          h            \* h[s]: the handler on slot s

rows == <<request, friendship, blocked, dm>>
vars == <<request, friendship, blocked, dm, h>>

Id == 1..MaxRequests
Pair == {p \in SUBSET User : \E u, v \in User : u # v /\ p = {u, v}}

Unborn == [from |-> NoUser, to |-> NoUser, status |-> "none"]
Row == [from : User, to : User, status : {"PENDING", "REJECTED", "gone"}]

Idle == [pc |-> "idle", me |-> NoUser, other |-> NoUser, id |-> 0]
Handler == [pc : {"friendship", "pending", "create", "accept", "befriend", "reject", "remove", "block"},
            me : User, other : User, id : Id \cup {0}]

Init ==
    /\ request = [i \in Id |-> Unborn]
    /\ friendship = [p \in Pair |-> 0]
    /\ blocked = {}
    /\ dm = [p \in Pair |-> "none"]
    /\ h = [s \in Slot |-> Idle]

Stored(i) == request[i].status \in {"PENDING", "REJECTED"}
Between(i, u, v) == {request[i].from, request[i].to} = {u, v}
Pending(u, v) == {i \in Id : request[i].status = "PENDING" /\ Between(i, u, v)}
Blocks(u, v) == <<u, v>> \in blocked \/ <<v, u>> \in blocked

Both(s) == {h[s].me, h[s].other}
Goto(s, pc) == h' = [h EXCEPT ![s] = [@ EXCEPT !.pc = pc]]
Return(s) == h' = [h EXCEPT ![s] = Idle]
Open(s, pc, u, v, i) ==
    /\ h[s].pc = "idle"
    /\ h' = [h EXCEPT ![s] = [pc |-> pc, me |-> u, other |-> v, id |-> i]]

-----------------------------------------------------------------------------
(* sendRequest looks for a block, a friendship and a pending request of the   *)
(* pair, one after another; a pending request of the other one is accepted.   *)
SendRequest(s, u, v) ==
    /\ u # v
    /\ ~Blocks(u, v)
    /\ Open(s, "friendship", u, v, 0)
    /\ UNCHANGED rows

SendReadsFriendship(s) ==
    /\ h[s].pc = "friendship"
    /\ IF friendship[Both(s)] = 0 THEN Goto(s, "pending") ELSE Return(s)
    /\ UNCHANGED rows

SendReadsPending(s) ==
    LET found == Pending(h[s].me, h[s].other)
    IN /\ h[s].pc = "pending"
       /\ \/ found = {} /\ Goto(s, "create")
          \/ \E i \in found :
                IF request[i].from = h[s].other
                THEN h' = [h EXCEPT ![s] = [@ EXCEPT !.pc = "accept", !.id = i]]
                ELSE Return(s)
       /\ UNCHANGED rows

(* Unique in sender and receiver, whatever the status of the row that is there. *)
CreateRequest(s) ==
    LET sentBefore == {i \in Id : Stored(i) /\ request[i].from = h[s].me /\ request[i].to = h[s].other}
    IN /\ h[s].pc = "create"
       /\ IF sentBefore # {} THEN UNCHANGED request
          ELSE \E i \in Id :
                  /\ request[i] = Unborn /\ \A j \in Id : request[j] = Unborn => i <= j
                  /\ request' = [request EXCEPT ![i] = [from |-> h[s].me, to |-> h[s].other,
                                                        status |-> "PENDING"]]
       /\ Return(s)
       /\ UNCHANGED <<friendship, blocked, dm>>

-----------------------------------------------------------------------------
\* Mutant: a request is accepted whatever its status.
AcceptAnyStatus(s, u, i) ==
    /\ Stored(i) /\ request[i].to = u
    /\ Open(s, "befriend", u, request[i].from, i)
    /\ UNCHANGED rows

(* accept and reject, called for a request to the current user that is pending. *)
Accept(s, u, i) ==
    /\ request[i].status = "PENDING" /\ request[i].to = u
    /\ Open(s, "befriend", u, request[i].from, i)
    /\ UNCHANGED rows

AcceptFromSend(s) ==
    /\ h[s].pc = "accept"
    /\ IF request[h[s].id].status = "PENDING" THEN Goto(s, "befriend") ELSE Return(s)
    /\ UNCHANGED rows

\* Mutant: it is deleted with deleteMany, which does not miss it.
BefriendWithoutRow(s) ==
    /\ h[s].pc = "befriend"
    /\ IF friendship[Both(s)] = 0
       THEN /\ request' = [request EXCEPT ![h[s].id].status = "gone"]
            /\ friendship' = [friendship EXCEPT ![Both(s)] = h[s].id]
            /\ dm' = [dm EXCEPT ![Both(s)] = "open"]
       ELSE UNCHANGED <<request, friendship, dm>>
    /\ Return(s)
    /\ UNCHANGED blocked

(* The transaction: the request goes, the friendship comes, the conversation  *)
(* of the pair is opened or made.  Blocks are not looked at.                  *)
Befriend(s) ==
    /\ h[s].pc = "befriend"
    /\ IF Stored(h[s].id) /\ friendship[Both(s)] = 0
       THEN /\ request' = [request EXCEPT ![h[s].id].status = "gone"]
            /\ friendship' = [friendship EXCEPT ![Both(s)] = h[s].id]
            /\ dm' = [dm EXCEPT ![Both(s)] = "open"]
       ELSE UNCHANGED <<request, friendship, dm>>
    /\ Return(s)
    /\ UNCHANGED blocked

Reject(s, u, i) ==
    /\ request[i].status = "PENDING" /\ request[i].to = u
    /\ Open(s, "reject", u, request[i].from, i)
    /\ UNCHANGED rows

WriteReject(s) ==
    /\ h[s].pc = "reject"
    /\ request' = IF Stored(h[s].id) THEN [request EXCEPT ![h[s].id].status = "REJECTED"] ELSE request
    /\ Return(s)
    /\ UNCHANGED <<friendship, blocked, dm>>

-----------------------------------------------------------------------------
RemoveFriend(s, u, v) ==
    /\ u # v
    /\ friendship[{u, v}] # 0
    /\ Open(s, "remove", u, v, friendship[{u, v}])
    /\ UNCHANGED rows

Close(p) == dm' = [dm EXCEPT ![p] = IF @ = "open" THEN "closed" ELSE @]

\* Mutant: the conversation is closed whether or not the friendship was there.
WriteRemoveAnyway(s) ==
    /\ h[s].pc = "remove"
    /\ friendship' = [friendship EXCEPT ![Both(s)] = IF @ = h[s].id THEN 0 ELSE @]
    /\ Close(Both(s))
    /\ Return(s)
    /\ UNCHANGED <<request, blocked>>

WriteRemove(s) ==
    /\ h[s].pc = "remove"
    /\ IF friendship[Both(s)] = h[s].id
       THEN friendship' = [friendship EXCEPT ![Both(s)] = 0] /\ Close(Both(s))
       ELSE UNCHANGED <<friendship, dm>>
    /\ Return(s)
    /\ UNCHANGED <<request, blocked>>

(* blockUser up to the read of the friendship in its transaction; the key of  *)
(* UserBlock repeats the check for an earlier block when the row is written.  *)
BlockUser(s, u, v) ==
    /\ u # v
    /\ <<u, v>> \notin blocked
    /\ Open(s, "block", u, v, friendship[{u, v}])
    /\ UNCHANGED rows

\* Mutant: pending requests survive a block.
WriteBlockOnly(s) ==
    LET read == h[s].id
    IN /\ h[s].pc = "block"
       /\ IF <<h[s].me, h[s].other>> \in blocked \/ (read # 0 /\ friendship[Both(s)] # read)
          THEN UNCHANGED rows
          ELSE /\ blocked' = blocked \cup {<<h[s].me, h[s].other>>}
               /\ IF read # 0
                  THEN friendship' = [friendship EXCEPT ![Both(s)] = 0] /\ Close(Both(s))
                  ELSE UNCHANGED <<friendship, dm>>
               /\ UNCHANGED request
       /\ Return(s)

(* The rest of the transaction.  It fails as a whole when the friendship it   *)
(* read is no longer there; a friendship it did not read it leaves alone.     *)
WriteBlock(s) ==
    LET read == h[s].id
    IN /\ h[s].pc = "block"
       /\ IF <<h[s].me, h[s].other>> \in blocked \/ (read # 0 /\ friendship[Both(s)] # read)
          THEN UNCHANGED rows
          ELSE /\ blocked' = blocked \cup {<<h[s].me, h[s].other>>}
               /\ IF read # 0
                  THEN friendship' = [friendship EXCEPT ![Both(s)] = 0] /\ Close(Both(s))
                  ELSE UNCHANGED <<friendship, dm>>
               /\ request' = [i \in Id |-> IF i \in Pending(h[s].me, h[s].other)
                                           THEN [request[i] EXCEPT !.status = "gone"]
                                           ELSE request[i]]
       /\ Return(s)

-----------------------------------------------------------------------------
Start(s) ==
    \/ \E u, v \in User : SendRequest(s, u, v) \/ RemoveFriend(s, u, v) \/ BlockUser(s, u, v)
    \/ \E u \in User, i \in Id : Accept(s, u, i) \/ Reject(s, u, i)

Continue(s) ==
    \/ SendReadsFriendship(s) \/ SendReadsPending(s) \/ CreateRequest(s)
    \/ AcceptFromSend(s) \/ Befriend(s) \/ WriteReject(s) \/ WriteRemove(s) \/ WriteBlock(s)

Next == \E s \in Slot : Start(s) \/ Continue(s)

Spec == Init /\ [][Next]_vars

-----------------------------------------------------------------------------
TypeOK ==
    /\ request \in [Id -> Row \cup {Unborn}]
    /\ friendship \in [Pair -> Id \cup {0}]
    /\ blocked \subseteq User \X User
    /\ dm \in [Pair -> {"none", "open", "closed"}]
    /\ h \in [Slot -> Handler \cup {Idle}]

NoContact(u, v) == friendship[{u, v}] = 0 /\ Pending(u, v) = {}

(* "When blocking, the friendship is deleted as well", and no request gets    *)
(* through: who is blocked by another is neither friend nor asks to be.       *)
BlockEndsContact == \A u, v \in User : <<u, v>> \in blocked => NoContact(u, v)

(* "Between the same two users there is only one friend request at a time."   *)
OneRequestPerPair == \A u, v \in User : \A i, j \in Pending(u, v) : i = j

(* Friends have no request left to accept, which could only fail.             *)
NoRequestAmongFriends == \A p \in Pair : friendship[p] # 0 => \A u, v \in p : Pending(u, v) = {}

(* Removing a friend or blocking closes the conversation, becoming friends    *)
(* again reopens it: however handlers overlap, it is open between friends only. *)
OpenIffFriends == \A p \in Pair : dm[p] = "open" <=> friendship[p] # 0

(* However handlers overlap, a friendship is made from one stored request     *)
(* between the two, which is used up, and by its receiver.                    *)
FriendsByConsent ==
    [][\A p \in Pair : friendship'[p] \notin {0, friendship[p]} =>
          LET i == friendship'[p]
          IN /\ Stored(i) /\ {request[i].from, request[i].to} = p
             /\ request'[i].status = "gone"
             /\ \E s \in Slot : h[s].pc = "befriend" /\ h[s].me = request[i].to]_vars
=============================================================================
