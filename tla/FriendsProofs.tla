----------------------------- MODULE FriendsProofs -----------------------------
(***************************************************************************)
(* What holds of FriendsService for any number of users, handlers and      *)
(* requests.  However handlers overlap: types, the conversation of a pair  *)
(* follows its friendship, every friendship is by consent.  Where they do  *)
(* not overlap, wholly or on a pair: blocks, requests and friendship agree *)
(* and a rejection is final.                                               *)
(***************************************************************************)
EXTENDS MCFriends, FiniteSetTheorems, TLAPS

(* A handler that is to accept or reject a request holds the key of a row that exists   *)
(* or existed, from the other one to its user; a row never changes its ends.  *)
HoldsRequest(s) ==
    /\ h[s].id \in Id
    /\ request[h[s].id].status # "none"
    /\ request[h[s].id].from = h[s].other /\ request[h[s].id].to = h[s].me

HandlersOK ==
    \A s \in Slot :
        /\ h[s].pc # "idle" => h[s].me # h[s].other
        /\ h[s].pc \in {"accept", "befriend", "reject"} => HoldsRequest(s)

(* Nobody asks himself: what keeps the two ends of a row a pair.              *)
EndsDiffer == \A i \in Id : request[i].status # "none" => request[i].from # request[i].to

IInv == TypeOK /\ HandlersOK /\ EndsDiffer /\ OpenIffFriends

(* Two users make a pair. *)
LEMMA PairOfTwo == ASSUME NEW u \in User, NEW v \in User, u # v PROVE {u, v} \in Pair
  BY DEF Pair

(* A handler that runs has a user and another one. *)
LEMMA RunningHandler ==
    ASSUME IInv, NEW s \in Slot, h[s].pc # "idle"
    PROVE /\ h[s] \in Handler
          /\ Both(s) \in Pair
  <1>1. h[s] \in Handler
    BY DEF IInv, TypeOK, Idle
  <1>2. h[s].me \in User /\ h[s].other \in User
    BY <1>1 DEF Handler
  <1> QED
    BY <1>1, <1>2, PairOfTwo DEF IInv, HandlersOK, Both

LEMMA InitEstablishes == Init => IInv
  <1> SUFFICES ASSUME Init PROVE IInv
    OBVIOUS
  <1>1. TypeOK
    BY DEF Init, TypeOK
  <1>2. HandlersOK
    BY DEF Init, HandlersOK, Idle
  <1>3. EndsDiffer
    BY DEF Init, EndsDiffer, Unborn
  <1>4. OpenIffFriends
    BY DEF Init, OpenIffFriends
  <1> QED
    BY <1>1, <1>2, <1>3, <1>4 DEF IInv

(* A step that starts, ends or moves a handler and leaves the rows alone:     *)
(* what has to be shown is that the new handler is in order.                  *)
LEMMA HandlerStep ==
    ASSUME IInv, NEW s \in Slot, NEW new,
           h' = [h EXCEPT ![s] = new], UNCHANGED rows,
           new \in Handler \cup {Idle},
           new.pc # "idle" => new.me # new.other,
           new.pc \in {"accept", "befriend", "reject"} =>
               /\ new.id \in Id
               /\ request[new.id].status # "none"
               /\ request[new.id].from = new.other /\ request[new.id].to = new.me
    PROVE IInv'
  <1>1. TypeOK'
    BY DEF IInv, TypeOK, rows
  <1>2. HandlersOK'
    <2> SUFFICES ASSUME NEW t \in Slot
                 PROVE /\ h'[t].pc # "idle" => h'[t].me # h'[t].other
                       /\ h'[t].pc \in {"accept", "befriend", "reject"} => HoldsRequest(t)'
      BY DEF HandlersOK, Id
    <2>1. CASE t = s
      <3>1. h'[t] = new
        BY <2>1 DEF IInv, TypeOK
      <3> QED
        BY <3>1 DEF HoldsRequest, rows, Id
    <2>2. CASE t # s
      <3>1. h'[t] = h[t]
        BY <2>2 DEF IInv, TypeOK
      <3> QED
        BY <3>1 DEF IInv, HandlersOK, HoldsRequest, rows
    <2> QED
      BY <2>1, <2>2
  <1>3. EndsDiffer' /\ OpenIffFriends'
    BY DEF IInv, EndsDiffer, OpenIffFriends, rows
  <1> QED
    BY <1>1, <1>2, <1>3 DEF IInv

(* A step that ends a handler and writes rows: requests keep their ends and   *)
(* are never unborn again, so the other handlers stay in order.               *)
LEMMA WritingStep ==
    ASSUME IInv, NEW s \in Slot, Return(s),
           request' \in [Id -> Row \cup {Unborn}],
           \A i \in Id : request[i].status # "none" =>
               /\ request'[i].status # "none"
               /\ request'[i].from = request[i].from /\ request'[i].to = request[i].to,
           EndsDiffer',
           friendship' \in [Pair -> Id \cup {0}], blocked' \subseteq User \X User,
           dm' \in [Pair -> {"none", "open", "closed"}],
           OpenIffFriends'
    PROVE IInv'
  <1>1. TypeOK'
    BY DEF IInv, TypeOK, Return
  <1>2. HandlersOK'
    <2> SUFFICES ASSUME NEW t \in Slot
                 PROVE /\ h'[t].pc # "idle" => h'[t].me # h'[t].other
                       /\ h'[t].pc \in {"accept", "befriend", "reject"} => HoldsRequest(t)'
      BY DEF HandlersOK, Id
    <2>1. CASE t = s
      <3>1. h'[t].pc = "idle"
        BY <2>1 DEF IInv, TypeOK, Return, Idle
      <3> QED
        BY <3>1
    <2>2. CASE t # s
      <3>1. h'[t] = h[t]
        BY <2>2 DEF IInv, TypeOK, Return
      <3> QED
        BY <3>1 DEF IInv, HandlersOK, HoldsRequest
    <2> QED
      BY <2>1, <2>2
  <1> QED
    BY <1>1, <1>2 DEF IInv

LEMMA StartPreserves == ASSUME IInv, NEW s \in Slot, Start(s) PROVE IInv'
  <1>1. ASSUME NEW u \in User, NEW v \in User, SendRequest(s, u, v) PROVE IInv'
    <2> DEFINE new == [pc |-> "friendship", me |-> u, other |-> v, id |-> 0]
    <2>1. new \in Handler /\ h' = [h EXCEPT ![s] = new] /\ UNCHANGED rows /\ u # v
      BY <1>1 DEF SendRequest, Open, Handler
    <2> QED
      BY <2>1, HandlerStep
  <1>2. ASSUME NEW u \in User, NEW v \in User, RemoveFriend(s, u, v) PROVE IInv'
    <2> DEFINE new == [pc |-> "remove", me |-> u, other |-> v, id |-> friendship[{u, v}]]
    <2>1. h' = [h EXCEPT ![s] = new] /\ UNCHANGED rows /\ u # v
      BY <1>2 DEF RemoveFriend, Open
    <2>2. new \in Handler
      BY <2>1, PairOfTwo DEF IInv, TypeOK, Handler
    <2> QED
      BY <2>1, <2>2, HandlerStep
  <1>3. ASSUME NEW u \in User, NEW v \in User, BlockUser(s, u, v) PROVE IInv'
    <2> DEFINE new == [pc |-> "block", me |-> u, other |-> v, id |-> friendship[{u, v}]]
    <2>1. h' = [h EXCEPT ![s] = new] /\ UNCHANGED rows /\ u # v
      BY <1>3 DEF BlockUser, Open
    <2>2. new \in Handler
      BY <2>1, PairOfTwo DEF IInv, TypeOK, Handler
    <2> QED
      BY <2>1, <2>2, HandlerStep
  <1>4. ASSUME NEW u \in User, NEW i \in Id, Accept(s, u, i) PROVE IInv'
    <2> DEFINE new == [pc |-> "befriend", me |-> u, other |-> request[i].from, id |-> i]
    <2>1. h' = [h EXCEPT ![s] = new] /\ UNCHANGED rows
          /\ request[i].status = "PENDING" /\ request[i].to = u
      BY <1>4 DEF Accept, Open
    <2>2. new \in Handler /\ u # request[i].from
      BY <2>1 DEF IInv, TypeOK, EndsDiffer, Handler, Row, Unborn
    <2> QED
      BY <2>1, <2>2, HandlerStep
  <1>5. ASSUME NEW u \in User, NEW i \in Id, Reject(s, u, i) PROVE IInv'
    <2> DEFINE new == [pc |-> "reject", me |-> u, other |-> request[i].from, id |-> i]
    <2>1. h' = [h EXCEPT ![s] = new] /\ UNCHANGED rows
          /\ request[i].status = "PENDING" /\ request[i].to = u
      BY <1>5 DEF Reject, Open
    <2>2. new \in Handler /\ u # request[i].from
      BY <2>1 DEF IInv, TypeOK, EndsDiffer, Handler, Row, Unborn
    <2> QED
      BY <2>1, <2>2, HandlerStep
  <1> QED
    BY <1>1, <1>2, <1>3, <1>4, <1>5 DEF Start

(* A handler that returns without writing. *)
LEMMA ReturnPreserves == ASSUME IInv, NEW s \in Slot, Return(s), UNCHANGED rows PROVE IInv'
  BY HandlerStep DEF Return, Idle

LEMMA ReadPreserves ==
    ASSUME IInv, NEW s \in Slot,
           SendReadsFriendship(s) \/ SendReadsPending(s) \/ AcceptFromSend(s)
    PROVE IInv'
  <1>1. CASE SendReadsFriendship(s)
    <2>1. CASE Return(s)
      BY <1>1, <2>1, ReturnPreserves DEF SendReadsFriendship
    <2>2. CASE Goto(s, "pending")
      <3> DEFINE new == [h[s] EXCEPT !.pc = "pending"]
      <3>1. h[s] \in Handler /\ h[s].me # h[s].other
        BY <1>1, RunningHandler DEF SendReadsFriendship, IInv, HandlersOK
      <3>2. new \in Handler /\ new.me # new.other /\ new.pc = "pending"
        BY <3>1 DEF Handler
      <3> QED
        BY <1>1, <2>2, <3>2, HandlerStep DEF SendReadsFriendship, Goto
    <2> QED
      BY <1>1, <2>1, <2>2 DEF SendReadsFriendship
  <1>2. CASE SendReadsPending(s)
    <2>1. h[s] \in Handler /\ h[s].me # h[s].other
      BY <1>2, RunningHandler DEF SendReadsPending, IInv, HandlersOK
    <2>2. CASE Return(s)
      BY <1>2, <2>2, ReturnPreserves DEF SendReadsPending
    <2>3. CASE Goto(s, "create")
      <3> DEFINE new == [h[s] EXCEPT !.pc = "create"]
      <3>1. new \in Handler /\ new.me # new.other /\ new.pc = "create"
        BY <2>1 DEF Handler
      <3> QED
        BY <1>2, <2>3, <3>1, HandlerStep DEF SendReadsPending, Goto
    <2>4. ASSUME NEW i \in Pending(h[s].me, h[s].other), request[i].from = h[s].other,
                 h' = [h EXCEPT ![s] = [@ EXCEPT !.pc = "accept", !.id = i]]
          PROVE IInv'
      <3> DEFINE new == [h[s] EXCEPT !.pc = "accept", !.id = i]
      <3>1. i \in Id /\ request[i].status = "PENDING" /\ request[i].to = h[s].me
        BY <2>1, <2>4 DEF Pending, Between
      <3>2. /\ new \in Handler /\ new.me = h[s].me /\ new.other = h[s].other
            /\ new.pc = "accept" /\ new.id = i
        BY <2>1, <3>1 DEF Handler
      <3> HIDE DEF new
      <3>3. h' = [h EXCEPT ![s] = new] /\ UNCHANGED rows
        BY <1>2, <2>4 DEF SendReadsPending, new
      <3> QED
        BY <2>1, <2>4, <3>1, <3>2, <3>3, HandlerStep
    <2> QED
      BY <1>2, <2>2, <2>3, <2>4 DEF SendReadsPending
  <1>3. CASE AcceptFromSend(s)
    <2>1. CASE Return(s)
      BY <1>3, <2>1, ReturnPreserves DEF AcceptFromSend
    <2>2. CASE Goto(s, "befriend")
      <3> DEFINE new == [h[s] EXCEPT !.pc = "befriend"]
      <3>1. h[s] \in Handler /\ h[s].me # h[s].other /\ HoldsRequest(s)
        BY <1>3, RunningHandler DEF AcceptFromSend, IInv, HandlersOK
      <3>2. /\ new \in Handler /\ new.me = h[s].me /\ new.other = h[s].other
            /\ new.pc = "befriend" /\ new.id = h[s].id
        BY <3>1 DEF Handler
      <3> QED
        BY <1>3, <2>2, <3>1, <3>2, HandlerStep DEF AcceptFromSend, Goto, HoldsRequest
    <2> QED
      BY <1>3, <2>1, <2>2 DEF AcceptFromSend
  <1> QED
    BY <1>1, <1>2, <1>3

LEMMA CreatePreserves == ASSUME IInv, NEW s \in Slot, CreateRequest(s) PROVE IInv'
  <1>1. CASE UNCHANGED request
    BY <1>1, ReturnPreserves DEF CreateRequest, rows
  <1>2. ASSUME NEW i \in Id, request[i] = Unborn,
               request' = [request EXCEPT ![i] = [from |-> h[s].me, to |-> h[s].other,
                                                  status |-> "PENDING"]]
        PROVE IInv'
    <2>1. h[s] \in Handler /\ h[s].me # h[s].other
      BY RunningHandler DEF CreateRequest, IInv, HandlersOK
    <2> DEFINE row == [from |-> h[s].me, to |-> h[s].other, status |-> "PENDING"]
    <2>2. row \in Row
      BY <2>1 DEF Handler, Row
    <2>3. request' \in [Id -> Row \cup {Unborn}]
      BY <1>2, <2>2 DEF IInv, TypeOK
    <2>4. \A j \in Id : IF j = i THEN request'[j] = row ELSE request'[j] = request[j]
      BY <1>2 DEF IInv, TypeOK
    <2>5. EndsDiffer'
      BY <2>1, <2>4 DEF IInv, EndsDiffer, Id
    <2>6. \A j \in Id : request[j].status # "none" =>
              /\ request'[j].status # "none"
              /\ request'[j].from = request[j].from /\ request'[j].to = request[j].to
      BY <1>2, <2>4 DEF Unborn
    <2>7. Return(s) /\ UNCHANGED <<friendship, blocked, dm>>
      BY DEF CreateRequest
    <2> QED
      BY <2>3, <2>5, <2>6, <2>7, WritingStep DEF IInv, TypeOK, OpenIffFriends
  <1> QED
    BY <1>1, <1>2 DEF CreateRequest

(* Setting the status of a stored row to one that is not "none". *)
LEMMA StatusChange ==
    ASSUME IInv, NEW S \in SUBSET Id, NEW st \in {"PENDING", "REJECTED", "gone"},
           \A i \in S : Stored(i),
           request' = [i \in Id |-> IF i \in S THEN [request[i] EXCEPT !.status = st] ELSE request[i]]
    PROVE /\ request' \in [Id -> Row \cup {Unborn}]
          /\ \A i \in Id : request[i].status # "none" =>
                 /\ request'[i].status # "none"
                 /\ request'[i].from = request[i].from /\ request'[i].to = request[i].to
          /\ EndsDiffer'
  <1>1. ASSUME NEW i \in S
        PROVE /\ request'[i] \in Row /\ request'[i].status = st /\ request[i].status # "none"
              /\ request'[i].from = request[i].from /\ request'[i].to = request[i].to
    <2>1. request[i] \in Row
      BY DEF IInv, TypeOK, Stored, Unborn
    <2>2. request'[i] = [request[i] EXCEPT !.status = st]
      OBVIOUS
    <2> QED
      BY <2>1, <2>2 DEF Row, Stored
  <1>2. \A i \in Id \ S : request'[i] = request[i]
    OBVIOUS
  <1>3. request' \in [Id -> Row \cup {Unborn}]
    BY <1>1, <1>2 DEF IInv, TypeOK
  <1>4. \A i \in Id : request[i].status # "none" =>
            /\ request'[i].status # "none"
            /\ request'[i].from = request[i].from /\ request'[i].to = request[i].to
    BY <1>1, <1>2
  <1>5. EndsDiffer'
    BY <1>1, <1>2 DEF IInv, EndsDiffer, Id
  <1> QED
    BY <1>3, <1>4, <1>5

(* The same for the write of one status. *)
LEMMA OneStatus ==
    ASSUME IInv, NEW i \in Id, NEW st \in {"PENDING", "REJECTED", "gone"}, Stored(i),
           request' = [request EXCEPT ![i].status = st]
    PROVE /\ request' \in [Id -> Row \cup {Unborn}]
          /\ \A j \in Id : request[j].status # "none" =>
                 /\ request'[j].status # "none"
                 /\ request'[j].from = request[j].from /\ request'[j].to = request[j].to
          /\ EndsDiffer'
  <1> DEFINE S == {i}
  <1>1. request' = [j \in Id |-> IF j \in S THEN [request[j] EXCEPT !.status = st] ELSE request[j]]
    BY DEF IInv, TypeOK
  <1>2. S \in SUBSET Id /\ \A j \in S : Stored(j)
    OBVIOUS
  <1> HIDE DEF S
  <1> QED
    BY <1>1, <1>2, StatusChange

LEMMA BefriendPreserves == ASSUME IInv, NEW s \in Slot, Befriend(s) PROVE IInv'
  <1>1. CASE UNCHANGED <<request, friendship, dm>>
    BY <1>1, ReturnPreserves DEF Befriend, rows
  <1>2. CASE /\ Stored(h[s].id)
             /\ request' = [request EXCEPT ![h[s].id].status = "gone"]
             /\ friendship' = [friendship EXCEPT ![Both(s)] = h[s].id]
             /\ dm' = [dm EXCEPT ![Both(s)] = "open"]
    <2>1. Both(s) \in Pair /\ h[s].id \in Id
      BY RunningHandler DEF Befriend, IInv, HandlersOK, HoldsRequest
    <2>2. /\ request' \in [Id -> Row \cup {Unborn}] /\ EndsDiffer'
          /\ \A i \in Id : request[i].status # "none" =>
                 /\ request'[i].status # "none"
                 /\ request'[i].from = request[i].from /\ request'[i].to = request[i].to
      BY <1>2, <2>1, OneStatus
    <2>3. friendship' \in [Pair -> Id \cup {0}] /\ dm' \in [Pair -> {"none", "open", "closed"}]
      BY <1>2, <2>1 DEF IInv, TypeOK
    <2>4. OpenIffFriends'
      BY <1>2, <2>1, MaxRequestsAssumption DEF IInv, TypeOK, OpenIffFriends, Id
    <2> QED
      BY <2>2, <2>3, <2>4, WritingStep DEF Befriend, IInv, TypeOK
  <1> QED
    BY <1>1, <1>2 DEF Befriend

LEMMA RejectPreserves == ASSUME IInv, NEW s \in Slot, WriteReject(s) PROVE IInv'
  <1>1. CASE UNCHANGED request
    BY <1>1, ReturnPreserves DEF WriteReject, rows
  <1>2. CASE Stored(h[s].id) /\ request' = [request EXCEPT ![h[s].id].status = "REJECTED"]
    <2>1. h[s].id \in Id
      BY DEF WriteReject, IInv, HandlersOK, HoldsRequest
    <2>2. /\ request' \in [Id -> Row \cup {Unborn}] /\ EndsDiffer'
          /\ \A i \in Id : request[i].status # "none" =>
                 /\ request'[i].status # "none"
                 /\ request'[i].from = request[i].from /\ request'[i].to = request[i].to
      BY <1>2, <2>1, OneStatus
    <2>3. Return(s) /\ UNCHANGED <<friendship, blocked, dm>>
      BY DEF WriteReject
    <2> QED
      BY <2>2, <2>3, WritingStep DEF IInv, TypeOK, OpenIffFriends
  <1> QED
    BY <1>1, <1>2 DEF WriteReject

(* Ending a friendship and closing the conversation keep the two together. *)
LEMMA EndPreserves ==
    ASSUME IInv, NEW p \in Pair, friendship' = [friendship EXCEPT ![p] = 0], Close(p)
    PROVE /\ friendship' \in [Pair -> Id \cup {0}]
          /\ dm' \in [Pair -> {"none", "open", "closed"}]
          /\ OpenIffFriends'
  BY DEF Close, IInv, TypeOK, OpenIffFriends

LEMMA RemovePreserves == ASSUME IInv, NEW s \in Slot, WriteRemove(s) PROVE IInv'
  <1>1. CASE UNCHANGED <<friendship, dm>>
    BY <1>1, ReturnPreserves DEF WriteRemove, rows
  <1>2. CASE friendship' = [friendship EXCEPT ![Both(s)] = 0] /\ Close(Both(s))
    <2>1. Both(s) \in Pair
      BY RunningHandler DEF WriteRemove
    <2>2. Return(s) /\ UNCHANGED <<request, blocked>>
      BY DEF WriteRemove
    <2>3. EndsDiffer'
      BY <2>2 DEF IInv, EndsDiffer
    <2> QED
      BY <1>2, <2>1, <2>2, <2>3, EndPreserves, WritingStep DEF IInv, TypeOK
  <1> QED
    BY <1>1, <1>2 DEF WriteRemove

LEMMA BlockPreserves == ASSUME IInv, NEW s \in Slot, WriteBlock(s) PROVE IInv'
  <1>1. CASE UNCHANGED rows
    BY <1>1, ReturnPreserves DEF WriteBlock
  <1>2. CASE ~(<<h[s].me, h[s].other>> \in blocked \/ (h[s].id # 0 /\ friendship[Both(s)] # h[s].id))
    <2> DEFINE dropped == Pending(h[s].me, h[s].other)
    <2>1. h[s] \in Handler /\ Both(s) \in Pair
      BY RunningHandler DEF WriteBlock
    <2>2. /\ blocked' = blocked \cup {<<h[s].me, h[s].other>>}
          /\ \/ friendship' = [friendship EXCEPT ![Both(s)] = 0] /\ Close(Both(s))
             \/ UNCHANGED <<friendship, dm>>
          /\ request' = [i \in Id |-> IF i \in dropped
                                      THEN [request[i] EXCEPT !.status = "gone"]
                                      ELSE request[i]]
          /\ Return(s)
      BY <1>2 DEF WriteBlock
    <2>3. dropped \in SUBSET Id /\ \A i \in dropped : Stored(i)
      BY DEF Pending, Stored
    <2>4. /\ request' \in [Id -> Row \cup {Unborn}] /\ EndsDiffer'
          /\ \A i \in Id : request[i].status # "none" =>
                 /\ request'[i].status # "none"
                 /\ request'[i].from = request[i].from /\ request'[i].to = request[i].to
      <3> HIDE DEF dropped
      <3> QED
        BY <2>2, <2>3, StatusChange
    <2>5. /\ friendship' \in [Pair -> Id \cup {0}]
          /\ dm' \in [Pair -> {"none", "open", "closed"}]
          /\ OpenIffFriends'
      <3>1. CASE UNCHANGED <<friendship, dm>>
        BY <3>1 DEF IInv, TypeOK, OpenIffFriends
      <3> QED
        BY <2>1, <2>2, <3>1, EndPreserves
    <2>6. blocked' \subseteq User \X User
      BY <2>1, <2>2 DEF IInv, TypeOK, Handler
    <2> QED
      BY <2>2, <2>4, <2>5, <2>6, WritingStep
  <1> QED
    BY <1>1, <1>2 DEF WriteBlock

LEMMA StepPreserves == IInv /\ [Next]_vars => IInv'
  <1> SUFFICES ASSUME IInv, [Next]_vars PROVE IInv'
    OBVIOUS
  <1>1. CASE UNCHANGED vars
    BY <1>1 DEF vars, IInv, TypeOK, HandlersOK, HoldsRequest, EndsDiffer, OpenIffFriends
  <1>2. ASSUME NEW s \in Slot, Start(s) PROVE IInv'
    BY <1>2, StartPreserves
  <1>3. ASSUME NEW s \in Slot, Continue(s) PROVE IInv'
    BY <1>3, ReadPreserves, CreatePreserves, BefriendPreserves, RejectPreserves,
       RemovePreserves, BlockPreserves DEF Continue
  <1> QED
    BY <1>1, <1>2, <1>3 DEF Next

LEMMA Invariance == Spec => []IInv
  BY InitEstablishes, StepPreserves, PTL DEF Spec

(* Rows and handlers are typed in every reachable state of the service.       *)
THEOREM TypeCorrect == Spec => []TypeOK
  <1>1. IInv => TypeOK
    BY DEF IInv
  <1> QED
    BY <1>1, Invariance, PTL

(* accept, removeFriend and blockUser keep the direct conversation of a pair  *)
(* open exactly while the two are friends, however they overlap.              *)
THEOREM ConversationFollowsFriendship == Spec => []OpenIffFriends
  <1>1. IInv => OpenIffFriends
    BY DEF IInv
  <1> QED
    BY <1>1, Invariance, PTL

(* Only accept makes friends, of the two ends of a request that is used up,   *)
(* on behalf of its receiver: no overlap of handlers gets around consent.     *)
THEOREM EveryFriendshipByConsent == Spec => FriendsByConsent
  <1> DEFINE Made(p) == friendship'[p] \notin {0, friendship[p]}
  <1> DEFINE Consent(p) ==
          LET i == friendship'[p]
          IN /\ Stored(i) /\ {request[i].from, request[i].to} = p
             /\ request'[i].status = "gone"
             /\ \E s \in Slot : h[s].pc = "befriend" /\ h[s].me = request[i].to
  <1>1. ASSUME IInv, Next, NEW p \in Pair, Made(p) PROVE Consent(p)
    <2>1. PICK s \in Slot : Befriend(s) /\ ~UNCHANGED friendship
      <3>1. PICK s \in Slot : Start(s) \/ Continue(s)
        BY <1>1 DEF Next
      <3>2. CASE Start(s)
        BY <1>1, <3>2 DEF Start, SendRequest, RemoveFriend, BlockUser, Accept, Reject, rows
      <3>3. CASE WriteRemove(s) \/ WriteBlock(s)
        <4>1. \/ UNCHANGED friendship
              \/ friendship' = [friendship EXCEPT ![Both(s)] = 0]
          BY <3>3 DEF WriteRemove, WriteBlock, rows
        <4> QED
          BY <1>1, <4>1 DEF IInv, TypeOK
      <3>4. CASE Befriend(s)
        BY <1>1, <3>4
      <3> QED
        BY <1>1, <3>1, <3>2, <3>3, <3>4 DEF Continue, SendReadsFriendship, SendReadsPending,
           CreateRequest, AcceptFromSend, WriteReject, rows
    <2>2. /\ Stored(h[s].id) /\ h[s].pc = "befriend"
          /\ request' = [request EXCEPT ![h[s].id].status = "gone"]
          /\ friendship' = [friendship EXCEPT ![Both(s)] = h[s].id]
      BY <2>1 DEF Befriend
    <2>3. HoldsRequest(s)
      BY <1>1, <2>2 DEF IInv, HandlersOK
    <2>4. p = Both(s) /\ friendship'[p] = h[s].id
      BY <1>1, <2>2 DEF IInv, TypeOK
    <2>5. request'[h[s].id].status = "gone"
      <3>1. request[h[s].id] \in Row
        BY <1>1, <2>2, <2>3 DEF IInv, TypeOK, HoldsRequest, Stored, Unborn
      <3>2. request'[h[s].id] = [request[h[s].id] EXCEPT !.status = "gone"]
        BY <1>1, <2>2, <2>3 DEF IInv, TypeOK, HoldsRequest
      <3> QED
        BY <3>1, <3>2 DEF Row
    <2> QED
      BY <2>2, <2>3, <2>4, <2>5 DEF HoldsRequest, Both
  <1>2. IInv /\ [Next]_vars => [\A p \in Pair : Made(p) => Consent(p)]_vars
    BY <1>1
  <1> QED
    BY <1>2, Invariance, PTL DEF Spec, FriendsByConsent

-----------------------------------------------------------------------------
(* What two handlers on a pair at the same time can break, and one cannot.    *)
(* All of it is a matter of three things of the pair: its pending requests,   *)
(* whether one of the two blocks the other, and its friendship.               *)
Ends(r, i) == {r[i].from, r[i].to}
Asking(p) == {i \in Id : request[i].status = "PENDING" /\ Ends(request, i) = p}
Barred(p) == \E b \in blocked : {b[1], b[2]} = p
On(s, p) == h[s].pc # "idle" /\ Both(s) = p
Alone(p) == \A s, t \in Slot : On(s, p) /\ On(t, p) => s = t

(* What the handler has read is still so. *)
ReadIsTrue(s) ==
    /\ h[s].pc \in {"friendship", "pending", "create"} => ~Barred(Both(s))
    /\ h[s].pc \in {"pending", "create"} => friendship[Both(s)] = 0
    /\ h[s].pc = "create" => Asking(Both(s)) = {}
    /\ h[s].pc \in {"accept", "befriend", "reject"} => h[s].id \in Asking(Both(s))
    /\ h[s].pc \in {"remove", "block"} => friendship[Both(s)] = h[s].id

OrderlyRows(p) ==
    /\ Asking(p) # {} => friendship[p] = 0 /\ ~Barred(p)
    /\ \A i, j \in Asking(p) : i = j
    /\ Barred(p) => friendship[p] = 0

PairInv(p) == OrderlyRows(p) /\ \A s \in Slot : On(s, p) => ReadIsTrue(s)

LEMMA SamePair ==
    ASSUME NEW a, NEW b, NEW c, NEW d, {a, b} = {c, d}
    PROVE (a = c /\ b = d) \/ (a = d /\ b = c)
  <1>1. (a = c \/ a = d) /\ (b = c \/ b = d) /\ (c = a \/ c = b) /\ (d = a \/ d = b)
    <2>1. a \in {c, d} /\ b \in {c, d} /\ c \in {a, b} /\ d \in {a, b}
      OBVIOUS
    <2> QED
      BY <2>1, Zenon
  <1> QED
    BY <1>1, Zenon

LEMMA PendingIsAsking == \A u, v \in User : Pending(u, v) = Asking({u, v})
  BY DEF Pending, Between, Asking, Ends

LEMMA BlocksBar == ASSUME IInv, NEW u \in User, NEW v \in User PROVE Blocks(u, v) <=> Barred({u, v})
  <1>1. ASSUME NEW b \in blocked, {b[1], b[2]} = {u, v} PROVE Blocks(u, v)
    <2>1. b[1] \in User /\ b[2] \in User /\ b = <<b[1], b[2]>>
      BY DEF IInv, TypeOK
    <2>2. (b[1] = u /\ b[2] = v) \/ (b[1] = v /\ b[2] = u)
      BY <1>1, SamePair
    <2> QED
      BY <2>1, <2>2 DEF Blocks
  <1>2. ASSUME Blocks(u, v) PROVE Barred({u, v})
    <2>1. CASE <<u, v>> \in blocked
      BY <2>1 DEF Barred
    <2>2. CASE <<v, u>> \in blocked
      <3>1. {<<v, u>>[1], <<v, u>>[2]} = {u, v}
        OBVIOUS
      <3> QED
        BY <2>2, <3>1 DEF Barred
    <2> QED
      BY <1>2, <2>1, <2>2 DEF Blocks
  <1> QED
    BY <1>1, <1>2 DEF Barred

LEMMA PairInit == Init => \A p \in Pair : PairInv(p)
  BY DEF Init, PairInv, OrderlyRows, Asking, Barred, On, Idle, Unborn

(* A step that leaves the rows alone has only its own handler to answer for. *)
LEMMA RowsStay ==
    ASSUME NEW p \in Pair, PairInv(p), NEW s \in Slot, NEW new, h' = [h EXCEPT ![s] = new], UNCHANGED rows, IInv,
           On(s, p)' => ReadIsTrue(s)'
    PROVE  PairInv(p)'
  <1>1. OrderlyRows(p)'
    BY DEF PairInv, OrderlyRows, Asking, Barred, Ends, rows, Id
  <1>2. ASSUME NEW t \in Slot, t # s, On(t, p)' PROVE ReadIsTrue(t)'
    <2>1. h'[t] = h[t]
      BY <1>2 DEF IInv, TypeOK
    <2>2. On(t, p) /\ ReadIsTrue(t)
      BY <1>2, <2>1 DEF On, Both, PairInv
    <2>3. Both(t) = p /\ Both(t)' = p
      BY <1>2, <2>1 DEF On, Both
    <2>4. /\ friendship' = friendship /\ Asking(p)' = Asking(p) /\ (Barred(p)' <=> Barred(p))
      BY DEF Asking, Barred, Ends, rows, Id
    <2> QED
      BY <2>1, <2>2, <2>3, <2>4 DEF ReadIsTrue
  <1> QED
    BY <1>1, <1>2 DEF PairInv

(* A handler that writes and ends: of its own pair the rows have to be in     *)
(* order, as no other handler is there; other pairs see nothing of it.        *)
LEMMA OwnRows ==
    ASSUME NEW p \in Pair, Alone(p), NEW s \in Slot, On(s, p), Return(s), IInv, OrderlyRows(p)'
    PROVE  PairInv(p)'
  <1>1. ASSUME NEW t \in Slot, On(t, p)' PROVE FALSE
    <2>1. t # s /\ h'[t] = h[t]
      BY <1>1 DEF On, Return, Idle, IInv, TypeOK
    <2>2. On(t, p)
      BY <1>1, <2>1 DEF On, Both
    <2> QED
      BY <2>1, <2>2 DEF Alone
  <1> QED
    BY <1>1 DEF PairInv

LEMMA OtherRows ==
    ASSUME NEW p \in Pair, PairInv(p), NEW s \in Slot, Return(s), IInv,
           friendship'[p] = friendship[p], Asking(p)' = Asking(p), Barred(p)' <=> Barred(p)
    PROVE  PairInv(p)'
  <1>1. OrderlyRows(p)'
    BY DEF PairInv, OrderlyRows
  <1>2. ASSUME NEW t \in Slot, On(t, p)' PROVE ReadIsTrue(t)'
    <2>1. t # s /\ h'[t] = h[t]
      BY <1>2 DEF On, Return, Idle, IInv, TypeOK
    <2>2. On(t, p) /\ ReadIsTrue(t) /\ Both(t) = p /\ Both(t)' = p
      BY <1>2, <2>1 DEF On, Both, PairInv
    <2> QED
      BY <2>1, <2>2 DEF ReadIsTrue
  <1> QED
    BY <1>1, <1>2 DEF PairInv

(* Requests that are rejected or gone are asked no more, and no others. *)
LEMMA FewerAsked ==
    ASSUME IInv, NEW S \in SUBSET Id, NEW st \in {"REJECTED", "gone"}, \A i \in S : Stored(i),
           request' = [i \in Id |-> IF i \in S THEN [request[i] EXCEPT !.status = st] ELSE request[i]],
           NEW p \in Pair
    PROVE  Asking(p)' = Asking(p) \ S
  <1>1. ASSUME NEW i \in Id, i \in S PROVE request'[i].status = st
    <2>1. request[i] \in Row /\ request'[i] = [request[i] EXCEPT !.status = st]
      BY <1>1 DEF IInv, TypeOK, Stored, Unborn
    <2> QED
      BY <2>1 DEF Row
  <1>2. \A i \in Id \ S : request'[i] = request[i]
    OBVIOUS
  <1> QED
    BY <1>1, <1>2 DEF Asking, Ends, Id

LEMMA OneLessAsked ==
    ASSUME IInv, NEW i \in Id, NEW st \in {"REJECTED", "gone"}, Stored(i),
           request' = [request EXCEPT ![i].status = st], NEW p \in Pair
    PROVE  Asking(p)' = Asking(p) \ {i}
  <1> DEFINE S == {i}
  <1>1. request' = [j \in Id |-> IF j \in S THEN [request[j] EXCEPT !.status = st] ELSE request[j]]
    BY DEF IInv, TypeOK
  <1>2. S \in SUBSET Id /\ \A j \in S : Stored(j)
    OBVIOUS
  <1> HIDE DEF S
  <1>3. Asking(p)' = Asking(p) \ S
    BY <1>1, <1>2, FewerAsked
  <1> QED
    BY <1>3 DEF S

LEMMA HeldRequest ==
    ASSUME IInv, NEW s \in Slot, h[s].pc \in {"accept", "befriend", "reject"}
    PROVE  h[s].id \in Id /\ Ends(request, h[s].id) = Both(s)
  BY DEF IInv, HandlersOK, HoldsRequest, Ends, Both

-----------------------------------------------------------------------------
LEMMA StartStep == ASSUME IInv, NEW p \in Pair, PairInv(p), NEW s \in Slot, Start(s) PROVE PairInv(p)'
  <1>1. ASSUME NEW u \in User, NEW v \in User, SendRequest(s, u, v) PROVE PairInv(p)'
    <2> DEFINE new == [pc |-> "friendship", me |-> u, other |-> v, id |-> 0]
    <2>1. h' = [h EXCEPT ![s] = new] /\ UNCHANGED rows /\ ~Blocks(u, v)
      BY <1>1 DEF SendRequest, Open
    <2>2. h'[s].pc = "friendship" /\ Both(s)' = {u, v}
      BY <2>1 DEF IInv, TypeOK, Both
    <2>3. ~Barred({u, v})
      BY <2>1, BlocksBar
    <2>4. ReadIsTrue(s)'
      BY <2>1, <2>2, <2>3 DEF ReadIsTrue, Barred, rows
    <2> HIDE DEF new
    <2> QED
      BY <2>1, <2>4, RowsStay
  <1>2. ASSUME NEW u \in User, NEW v \in User, RemoveFriend(s, u, v) \/ BlockUser(s, u, v)
        PROVE PairInv(p)'
    <2>1. PICK pc \in {"remove", "block"} :
             /\ h' = [h EXCEPT ![s] = [pc |-> pc, me |-> u, other |-> v, id |-> friendship[{u, v}]]]
             /\ UNCHANGED rows
      BY <1>2 DEF RemoveFriend, BlockUser, Open
    <2>2. h'[s].pc \in {"remove", "block"} /\ Both(s)' = {u, v} /\ h'[s].id = friendship[{u, v}]
      BY <2>1 DEF IInv, TypeOK, Both
    <2>3. ReadIsTrue(s)'
      BY <2>1, <2>2 DEF ReadIsTrue, rows
    <2> QED
      BY <2>1, <2>3, RowsStay
  <1>3. ASSUME NEW u \in User, NEW i \in Id, Accept(s, u, i) \/ Reject(s, u, i) PROVE PairInv(p)'
    <2>1. PICK pc \in {"befriend", "reject"} :
             /\ h' = [h EXCEPT ![s] = [pc |-> pc, me |-> u, other |-> request[i].from, id |-> i]]
             /\ UNCHANGED rows /\ request[i].status = "PENDING" /\ request[i].to = u
      BY <1>3 DEF Accept, Reject, Open
    <2>2. h'[s].pc \in {"befriend", "reject"} /\ Both(s)' = Ends(request, i) /\ h'[s].id = i
      BY <2>1 DEF IInv, TypeOK, Both, Ends
    <2>3. ReadIsTrue(s)'
      BY <2>1, <2>2 DEF ReadIsTrue, Asking, Ends, rows, Id
    <2> QED
      BY <2>1, <2>3, RowsStay
  <1> QED
    BY <1>1, <1>2, <1>3 DEF Start

LEMMA ReturnStep ==
    ASSUME IInv, NEW p \in Pair, PairInv(p), NEW s \in Slot, Return(s), UNCHANGED rows
    PROVE PairInv(p)'
  <1>1. ~On(s, p)'
    BY DEF Return, On, Idle, IInv, TypeOK
  <1> QED
    BY <1>1, RowsStay DEF Return

LEMMA ReadStep ==
    ASSUME IInv, NEW p \in Pair, PairInv(p), NEW s \in Slot,
           SendReadsFriendship(s) \/ SendReadsPending(s) \/ AcceptFromSend(s)
    PROVE PairInv(p)'
  <1>1. UNCHANGED rows
    BY DEF SendReadsFriendship, SendReadsPending, AcceptFromSend
  <1>2. h[s] \in Handler /\ h[s].me \in User /\ h[s].other \in User /\ (On(s, p) => ReadIsTrue(s))
    BY RunningHandler DEF SendReadsFriendship, SendReadsPending, AcceptFromSend, PairInv, Handler
  <1>3. CASE Return(s)
    BY <1>1, <1>3, ReturnStep
  <1>4. CASE SendReadsFriendship(s) /\ friendship[Both(s)] = 0 /\ Goto(s, "pending")
    <2> DEFINE new == [h[s] EXCEPT !.pc = "pending"]
    <2>1. h' = [h EXCEPT ![s] = new] /\ h'[s].pc = "pending" /\ Both(s)' = Both(s)
      BY <1>2, <1>4 DEF Goto, Handler, IInv, TypeOK, Both
    <2>2. On(s, p)' => ReadIsTrue(s)'
      BY <1>1, <1>2, <1>4, <2>1 DEF SendReadsFriendship, ReadIsTrue, On, Barred, rows
    <2> HIDE DEF new
    <2> QED
      BY <1>1, <2>1, <2>2, RowsStay
  <1>5. CASE SendReadsPending(s) /\ Pending(h[s].me, h[s].other) = {} /\ Goto(s, "create")
    <2> DEFINE new == [h[s] EXCEPT !.pc = "create"]
    <2>1. h' = [h EXCEPT ![s] = new] /\ h'[s].pc = "create" /\ Both(s)' = Both(s)
      BY <1>2, <1>5 DEF Goto, Handler, IInv, TypeOK, Both
    <2>2. Asking(Both(s)) = {}
      BY <1>2, <1>5, PendingIsAsking DEF Both
    <2>3. On(s, p)' => ReadIsTrue(s)'
      BY <1>1, <1>2, <1>5, <2>1, <2>2 DEF SendReadsPending, ReadIsTrue, On, Barred, Asking, Ends, rows, Id
    <2> HIDE DEF new
    <2> QED
      BY <1>1, <2>1, <2>3, RowsStay
  <1>6. ASSUME NEW i \in Pending(h[s].me, h[s].other),
               h' = [h EXCEPT ![s] = [@ EXCEPT !.pc = "accept", !.id = i]]
        PROVE PairInv(p)'
    <2> DEFINE new == [h[s] EXCEPT !.pc = "accept", !.id = i]
    <2>1. h' = [h EXCEPT ![s] = new] /\ h'[s].pc = "accept" /\ h'[s].id = i /\ Both(s)' = Both(s)
      BY <1>2, <1>6 DEF Handler, IInv, TypeOK, Both
    <2>2. i \in Asking(Both(s))
      BY <1>2, <1>6, PendingIsAsking DEF Both
    <2>3. ReadIsTrue(s)'
      BY <1>1, <2>1, <2>2 DEF ReadIsTrue, Asking, Ends, rows, Id
    <2> HIDE DEF new
    <2> QED
      BY <1>1, <2>1, <2>3, RowsStay
  <1>7. CASE AcceptFromSend(s) /\ Goto(s, "befriend")
    <2> DEFINE new == [h[s] EXCEPT !.pc = "befriend"]
    <2>1. h' = [h EXCEPT ![s] = new] /\ h'[s].pc = "befriend" /\ h'[s].id = h[s].id /\ Both(s)' = Both(s)
      BY <1>2, <1>7 DEF Goto, Handler, IInv, TypeOK, Both
    <2>2. On(s, p)' => ReadIsTrue(s)'
      BY <1>1, <1>2, <1>7, <2>1 DEF AcceptFromSend, ReadIsTrue, On, Asking, Ends, rows, Id
    <2> HIDE DEF new
    <2> QED
      BY <1>1, <2>1, <2>2, RowsStay
  <1> QED
    BY <1>3, <1>4, <1>5, <1>6, <1>7 DEF SendReadsFriendship, SendReadsPending, AcceptFromSend

(* One action after the other that writes. *)
LEMMA Started ==
    ASSUME IInv, NEW p \in Pair, PairInv(p), NEW s \in Slot, h[s].pc # "idle"
    PROVE  Both(s) = p => On(s, p) /\ ReadIsTrue(s)
  BY DEF On, PairInv

LEMMA CreateStep ==
    ASSUME IInv, NEW p \in Pair, PairInv(p), Alone(p), NEW s \in Slot, CreateRequest(s)
    PROVE  PairInv(p)'
  <1>1. CASE UNCHANGED request
    BY <1>1, ReturnStep DEF CreateRequest, rows
  <1>2. ASSUME NEW i \in Id, request[i] = Unborn,
               request' = [request EXCEPT ![i] = [from |-> h[s].me, to |-> h[s].other, status |-> "PENDING"]]
        PROVE  PairInv(p)'
    <2>1. UNCHANGED <<friendship, blocked, dm>> /\ Return(s) /\ h[s].pc = "create"
      BY DEF CreateRequest
    <2>2. Ends(request', i) = Both(s) /\ request'[i].status = "PENDING"
      BY <1>2 DEF Ends, Both, IInv, TypeOK
    <2>3. request[i].status # "PENDING" /\ \A j \in Id \ {i} : request'[j] = request[j]
      BY <1>2 DEF Unborn, IInv, TypeOK
    <2>4. Barred(p)' <=> Barred(p)
      BY <2>1 DEF Barred
    <2>5. CASE Both(s) = p
      <3>1. On(s, p) /\ ReadIsTrue(s)
        BY <2>1, <2>5, Started
      <3>2. Asking(p) = {} /\ friendship[p] = 0 /\ ~Barred(p)
        BY <2>1, <2>5, <3>1 DEF ReadIsTrue
      <3>3. Asking(p)' = {i}
        BY <2>2, <2>3, <2>5, <3>2 DEF Asking, Ends, Id
      <3>4. OrderlyRows(p)'
        BY <2>1, <2>4, <3>2, <3>3 DEF OrderlyRows
      <3> QED
        BY <2>1, <3>1, <3>4, OwnRows
    <2>6. CASE Both(s) # p
      <3>1. Asking(p)' = Asking(p)
        BY <2>2, <2>3, <2>6 DEF Asking, Ends, Id
      <3> QED
        BY <2>1, <2>4, <3>1, OtherRows
    <2> QED
      BY <2>5, <2>6
  <1> QED
    BY <1>1, <1>2 DEF CreateRequest

LEMMA BefriendStep ==
    ASSUME IInv, NEW p \in Pair, PairInv(p), Alone(p), NEW s \in Slot, Befriend(s)
    PROVE  PairInv(p)'
  <1>1. CASE UNCHANGED <<request, friendship, dm>>
    BY <1>1, ReturnStep DEF Befriend, rows
  <1>2. CASE /\ Stored(h[s].id)
             /\ request' = [request EXCEPT ![h[s].id].status = "gone"]
             /\ friendship' = [friendship EXCEPT ![Both(s)] = h[s].id]
    <2>1. UNCHANGED blocked /\ Return(s) /\ h[s].pc = "befriend"
      BY DEF Befriend
    <2>2. h[s].id \in Id /\ Ends(request, h[s].id) = Both(s)
      BY <2>1, HeldRequest
    <2>3. Asking(p)' = Asking(p) \ {h[s].id}
      BY <1>2, <2>2, OneLessAsked
    <2>4. Barred(p)' <=> Barred(p)
      BY <2>1 DEF Barred
    <2>5. CASE Both(s) = p
      <3>1. On(s, p) /\ ReadIsTrue(s) /\ OrderlyRows(p)
        BY <2>1, <2>5, Started DEF PairInv
      <3>2. h[s].id \in Asking(p)
        BY <2>1, <2>5, <3>1 DEF ReadIsTrue
      <3>3. ~Barred(p) /\ Asking(p)' = {}
        BY <2>3, <3>1, <3>2 DEF OrderlyRows
      <3>4. OrderlyRows(p)'
        BY <2>4, <3>3 DEF OrderlyRows
      <3> QED
        BY <2>1, <3>1, <3>4, OwnRows
    <2>6. CASE Both(s) # p
      <3>1. Asking(p)' = Asking(p)
        BY <2>2, <2>3, <2>6 DEF Asking
      <3>2. friendship'[p] = friendship[p]
        BY <1>2, <2>6 DEF IInv, TypeOK
      <3> QED
        BY <2>1, <2>4, <3>1, <3>2, OtherRows
    <2> QED
      BY <2>5, <2>6
  <1> QED
    BY <1>1, <1>2 DEF Befriend

LEMMA RejectStep ==
    ASSUME IInv, NEW p \in Pair, PairInv(p), Alone(p), NEW s \in Slot, WriteReject(s)
    PROVE  PairInv(p)'
  <1>1. CASE UNCHANGED request
    BY <1>1, ReturnStep DEF WriteReject, rows
  <1>2. CASE Stored(h[s].id) /\ request' = [request EXCEPT ![h[s].id].status = "REJECTED"]
    <2>1. UNCHANGED <<friendship, blocked, dm>> /\ Return(s) /\ h[s].pc = "reject"
      BY DEF WriteReject
    <2>2. h[s].id \in Id /\ Ends(request, h[s].id) = Both(s)
      BY <2>1, HeldRequest
    <2>3. Asking(p)' = Asking(p) \ {h[s].id}
      BY <1>2, <2>2, OneLessAsked
    <2>4. Barred(p)' <=> Barred(p)
      BY <2>1 DEF Barred
    <2>5. CASE Both(s) = p
      <3>1. On(s, p) /\ OrderlyRows(p)
        BY <2>1, <2>5, Started DEF PairInv
      <3>2. OrderlyRows(p)'
        BY <2>1, <2>3, <2>4, <3>1 DEF OrderlyRows
      <3> QED
        BY <2>1, <3>1, <3>2, OwnRows
    <2>6. CASE Both(s) # p
      <3>1. Asking(p)' = Asking(p)
        BY <2>2, <2>3, <2>6 DEF Asking
      <3> QED
        BY <2>1, <2>4, <3>1, OtherRows
    <2> QED
      BY <2>5, <2>6
  <1> QED
    BY <1>1, <1>2 DEF WriteReject

LEMMA RemoveStep ==
    ASSUME IInv, NEW p \in Pair, PairInv(p), Alone(p), NEW s \in Slot, WriteRemove(s)
    PROVE  PairInv(p)'
  <1>1. UNCHANGED <<request, blocked>> /\ Return(s) /\ h[s].pc = "remove"
    BY DEF WriteRemove
  <1>2. Asking(p)' = Asking(p) /\ (Barred(p)' <=> Barred(p))
    BY <1>1 DEF Asking, Barred, Ends, Id
  <1>3. friendship' = friendship \/ friendship' = [friendship EXCEPT ![Both(s)] = 0]
    BY DEF WriteRemove
  <1>4. CASE Both(s) = p
    <2>1. On(s, p) /\ OrderlyRows(p)
      BY <1>1, <1>4, Started DEF PairInv
    <2>2. friendship'[p] = 0 \/ friendship'[p] = friendship[p]
      BY <1>3 DEF IInv, TypeOK
    <2>3. OrderlyRows(p)'
      BY <1>2, <2>1, <2>2 DEF OrderlyRows
    <2> QED
      BY <1>1, <2>1, <2>3, OwnRows
  <1>5. CASE Both(s) # p
    <2>1. friendship'[p] = friendship[p]
      BY <1>3, <1>5 DEF IInv, TypeOK
    <2> QED
      BY <1>1, <1>2, <2>1, OtherRows
  <1> QED
    BY <1>4, <1>5

LEMMA BlockStep ==
    ASSUME IInv, NEW p \in Pair, PairInv(p), Alone(p), NEW s \in Slot, WriteBlock(s)
    PROVE  PairInv(p)'
  <1> DEFINE dropped == Pending(h[s].me, h[s].other)
  <1>1. CASE UNCHANGED rows
    BY <1>1, ReturnStep DEF WriteBlock
  <1>2. CASE /\ blocked' = blocked \cup {<<h[s].me, h[s].other>>}
             /\ IF h[s].id # 0 THEN friendship' = [friendship EXCEPT ![Both(s)] = 0]
                ELSE UNCHANGED friendship
             /\ request' = [i \in Id |-> IF i \in dropped THEN [request[i] EXCEPT !.status = "gone"]
                                         ELSE request[i]]
    <2>1. Return(s) /\ h[s].pc = "block" /\ h[s].me \in User /\ h[s].other \in User
      BY RunningHandler DEF WriteBlock, Handler
    <2>2. dropped = Asking(Both(s)) /\ dropped \in SUBSET Id /\ \A i \in dropped : Stored(i)
      BY <2>1, PendingIsAsking DEF Both, Pending, Stored
    <2>3. Asking(p)' = Asking(p) \ dropped
      <3> HIDE DEF dropped
      <3> QED
        BY <1>2, <2>2, FewerAsked
    <2>4. CASE Both(s) = p
      <3>1. On(s, p) /\ ReadIsTrue(s)
        BY <2>1, <2>4, Started
      <3>2. friendship[p] = h[s].id
        BY <2>1, <2>4, <3>1 DEF ReadIsTrue
      <3>3. friendship'[p] = 0
        BY <1>2, <2>4, <3>2 DEF IInv, TypeOK
      <3>4. Asking(p)' = {}
        BY <2>2, <2>3, <2>4
      <3>5. OrderlyRows(p)'
        BY <3>3, <3>4 DEF OrderlyRows
      <3> QED
        BY <2>1, <3>1, <3>5, OwnRows
    <2>5. CASE Both(s) # p
      <3>1. Asking(p)' = Asking(p)
        BY <2>2, <2>3, <2>5 DEF Asking
      <3>2. friendship'[p] = friendship[p]
        BY <1>2, <2>5 DEF IInv, TypeOK
      <3>3. Barred(p)' <=> Barred(p)
        BY <1>2, <2>5 DEF Barred, Both
      <3> QED
        BY <2>1, <3>1, <3>2, <3>3, OtherRows
    <2> QED
      BY <2>4, <2>5
  <1> QED
    BY <1>1, <1>2 DEF WriteBlock

LEMMA PairStep ==
    ASSUME IInv, NEW p \in Pair, PairInv(p), Alone(p), [Next]_vars PROVE PairInv(p)'
  <1>1. CASE UNCHANGED vars
    <2>1. friendship' = friendship /\ Asking(p)' = Asking(p) /\ (Barred(p)' <=> Barred(p))
      BY <1>1 DEF vars, Asking, Barred, Ends, Id
    <2>2. OrderlyRows(p)'
      BY <2>1 DEF PairInv, OrderlyRows
    <2>3. ASSUME NEW t \in Slot, On(t, p)' PROVE ReadIsTrue(t)'
      <3>1. h'[t] = h[t] /\ Both(t) = p /\ Both(t)' = p
        BY <1>1, <2>3 DEF vars, On, Both
      <3>2. ReadIsTrue(t)
        BY <2>3, <3>1 DEF On, PairInv
      <3> QED
        BY <2>1, <3>1, <3>2 DEF ReadIsTrue
    <2> QED
      BY <2>2, <2>3 DEF PairInv
  <1>2. ASSUME NEW s \in Slot, Start(s) PROVE PairInv(p)'
    BY <1>2, StartStep
  <1>3. ASSUME NEW s \in Slot, Continue(s) PROVE PairInv(p)'
    BY <1>3, ReadStep, CreateStep, BefriendStep, RejectStep, RemoveStep, BlockStep DEF Continue
  <1> QED
    BY <1>1, <1>2, <1>3 DEF Next

(* Whoever blocks, blocks another one. *)
BlocksPairs == \A b \in blocked : {b[1], b[2]} \in Pair

LEMMA BlocksStayPairs == ASSUME IInv, BlocksPairs, [Next]_vars PROVE BlocksPairs'
  <1>1. CASE UNCHANGED blocked
    BY <1>1 DEF BlocksPairs
  <1>2. ASSUME NEW s \in Slot, WriteBlock(s) PROVE BlocksPairs'
    <2>1. {h[s].me, h[s].other} \in Pair
      BY <1>2, RunningHandler DEF WriteBlock, Both
    <2>2. blocked' \subseteq blocked \cup {<<h[s].me, h[s].other>>}
      BY <1>2 DEF WriteBlock, rows
    <2>3. ASSUME NEW b \in blocked' PROVE {b[1], b[2]} \in Pair
      <3>1. CASE b \in blocked
        BY <3>1 DEF BlocksPairs
      <3>2. CASE b = <<h[s].me, h[s].other>>
        <4>1. b[1] = h[s].me /\ b[2] = h[s].other
          BY <3>2
        <4> QED
          BY <2>1, <4>1
      <3> QED
        BY <2>2, <2>3, <3>1, <3>2
    <2> QED
      BY <2>3 DEF BlocksPairs
  <1>3. ASSUME NEW s \in Slot, Start(s) PROVE UNCHANGED blocked
    BY <1>3 DEF Start, SendRequest, RemoveFriend, BlockUser, Accept, Reject, rows
  <1>4. ASSUME NEW s \in Slot, Continue(s), ~WriteBlock(s) PROVE UNCHANGED blocked
    BY <1>4 DEF Continue, SendReadsFriendship, SendReadsPending, CreateRequest,
       AcceptFromSend, Befriend, WriteReject, WriteRemove, rows
  <1> QED
    BY <1>1, <1>2, <1>3, <1>4 DEF Next, vars

(* What the invariant of a pair says of its two users. *)
LEMMA PairIsOrderly ==
    ASSUME NEW u \in User, NEW v \in User, PairInv({u, v})
    PROVE  /\ <<u, v>> \in blocked => NoContact(u, v)
           /\ \A i, j \in Pending(u, v) : i = j
           /\ friendship[{u, v}] # 0 => Pending(u, v) = {}
  <1>1. Pending(u, v) = Asking({u, v})
    BY PendingIsAsking
  <1>2. OrderlyRows({u, v})
    BY DEF PairInv
  <1>3. <<u, v>> \in blocked => Barred({u, v})
    BY DEF Barred
  <1> QED
    BY <1>1, <1>2, <1>3 DEF OrderlyRows, NoContact

(* The checks of sendRequest, accept, reject, removeFriend and blockUser are  *)
(* enough when handlers do not overlap: a block ends all contact, a pair has  *)
(* one pending request at most, and none once they are friends.               *)
OneAtATime == \A s, t \in Slot : s = t

THEOREM SerialOrderly ==
    ASSUME OneAtATime
    PROVE Spec => [](BlockEndsContact /\ OneRequestPerPair /\ NoRequestAmongFriends)
  <1> DEFINE SInv == IInv /\ BlocksPairs /\ \A p \in Pair : PairInv(p)
  <1>1. Init => SInv
    BY InitEstablishes, PairInit DEF Init, BlocksPairs
  <1>2. SInv /\ [Next]_vars => SInv'
    <2> SUFFICES ASSUME SInv, [Next]_vars PROVE SInv'
      OBVIOUS
    <2>1. \A p \in Pair : Alone(p)
      BY DEF OneAtATime, Alone
    <2>2. \A p \in Pair : PairInv(p)'
      BY <2>1, PairStep
    <2> QED
      BY <2>2, StepPreserves, BlocksStayPairs
  <1>3. SInv => BlockEndsContact /\ OneRequestPerPair /\ NoRequestAmongFriends
    <2> SUFFICES ASSUME SInv PROVE BlockEndsContact /\ OneRequestPerPair /\ NoRequestAmongFriends
      OBVIOUS
    <2>1. ASSUME NEW u \in User, NEW v \in User, u # v PROVE PairInv({u, v})
      BY <2>1, PairOfTwo
    <2>2. BlockEndsContact
      <3> SUFFICES ASSUME NEW u \in User, NEW v \in User, <<u, v>> \in blocked PROVE NoContact(u, v)
        BY DEF BlockEndsContact
      <3>1. {u, v} \in Pair
        BY DEF BlocksPairs
      <3> QED
        BY <3>1, PairIsOrderly
    <2>3. OneRequestPerPair
      <3> SUFFICES ASSUME NEW u \in User, NEW v \in User, NEW i \in Pending(u, v), NEW j \in Pending(u, v)
                   PROVE i = j
        BY DEF OneRequestPerPair
      <3>1. u # v
        BY DEF Pending, Between, IInv, EndsDiffer
      <3> QED
        BY <2>1, <3>1, PairIsOrderly
    <2>4. NoRequestAmongFriends
      <3> SUFFICES ASSUME NEW p \in Pair, friendship[p] # 0, NEW u \in p, NEW v \in p,
                          NEW i \in Pending(u, v)
                   PROVE  FALSE
        BY DEF NoRequestAmongFriends
      <3>1. u \in User /\ v \in User /\ u # v
        BY DEF Pending, Between, IInv, EndsDiffer, Pair
      <3>2. p = {u, v}
        BY <3>1 DEF Pair
      <3> QED
        BY <2>1, <3>1, <3>2, PairIsOrderly
    <2> QED
      BY <2>2, <2>3, <2>4
  <1> HIDE DEF SInv
  <1> QED
    BY <1>1, <1>2, <1>3, PTL DEF Spec

-----------------------------------------------------------------------------
(* When handlers overlap: a pair on which two have been running at the same   *)
(* time is crossed, every other pair is in order.                             *)
CrossedInv ==
    /\ IInv /\ BlocksPairs
    /\ \A p \in Pair : Crowded(p) => p \in crossed
    /\ \A p \in Pair \ crossed : PairInv(p)

LEMMA NotCrowded == ASSUME NEW p \in Pair, ~Crowded(p) PROVE Alone(p)
  BY DEF Crowded, Alone, On

LEMMA CrossedInvariance == MCSpec => []CrossedInv
  <1>1. MCInit => CrossedInv
    <2>1. Init => \A p \in Pair : ~Crowded(p)
      <3>1. Init => \A s \in Slot : h[s].pc = "idle"
        BY DEF Init, Idle
      <3>2. ASSUME NEW s \in Slot, NEW t \in Slot, h[s].pc = "idle" PROVE {h[s].pc, h[t].pc} \cap {"idle"} # {}
        BY <3>2
      <3> QED
        BY <3>1, <3>2 DEF Crowded
    <2> QED
      BY <2>1, InitEstablishes, PairInit DEF MCInit, Init, BlocksPairs, CrossedInv
  <1>2. CrossedInv /\ [MCNext]_<<vars, crossed>> => CrossedInv'
    <2> SUFFICES ASSUME CrossedInv, [MCNext]_<<vars, crossed>> PROVE CrossedInv'
      OBVIOUS
    <2>1. [Next]_vars
      BY DEF MCNext
    <2>2. IInv' /\ BlocksPairs'
      BY <2>1, StepPreserves, BlocksStayPairs DEF CrossedInv
    <2>3. /\ crossed \subseteq crossed'
          /\ \A p \in Pair : Crowded(p)' => p \in crossed'
      <3>1. CASE MCNext
        BY <3>1 DEF MCNext
      <3>2. CASE UNCHANGED <<vars, crossed>>
        <4>1. \A p \in Pair : Crowded(p)' <=> Crowded(p)
          BY <3>2 DEF vars, Crowded, Both
        <4> QED
          BY <3>2, <4>1 DEF CrossedInv
      <3> QED
        BY <3>1, <3>2
    <2>4. ASSUME NEW p \in Pair, p \notin crossed' PROVE PairInv(p)'
      <3>1. PairInv(p) /\ ~Crowded(p)
        BY <2>3, <2>4 DEF CrossedInv
      <3> QED
        BY <2>1, <3>1, NotCrowded, PairStep DEF CrossedInv
    <2> QED
      BY <2>2, <2>3, <2>4 DEF CrossedInv
  <1> QED
    BY <1>1, <1>2, PTL DEF MCSpec

(* sendRequest, accept, reject, removeFriend and blockUser: what overlapping  *)
(* handlers of one pair can break they break for that pair only.  A pair      *)
(* whose handlers never overlapped has one pending request at most, none when *)
(* the two are friends, and neither when one blocks the other.                *)
THEOREM PairsStayOrderly == MCSpec => []OrderlyPairs
  <1>1. CrossedInv => OrderlyPairs
    <2> SUFFICES ASSUME CrossedInv PROVE OrderlyPairs
      OBVIOUS
    <2>1. BlockEndsContactOfPair
      <3> SUFFICES ASSUME NEW u \in User, NEW v \in User, <<u, v>> \in blocked, {u, v} \notin crossed
                   PROVE  NoContact(u, v)
        BY DEF BlockEndsContactOfPair
      <3>1. {u, v} \in Pair
        BY DEF BlocksPairs, CrossedInv
      <3> QED
        BY <3>1, PairIsOrderly DEF CrossedInv
    <2>2. ASSUME NEW u \in User, NEW v \in User, u # v, {u, v} \notin crossed
          PROVE  /\ Cardinality(Pending(u, v)) <= 1
                 /\ friendship[{u, v}] # 0 => Pending(u, v) = {}
      <3>1. PairInv({u, v})
        BY <2>2, PairOfTwo DEF CrossedInv
      <3>2. (\A i, j \in Pending(u, v) : i = j) /\ (friendship[{u, v}] # 0 => Pending(u, v) = {})
        BY <3>1, PairIsOrderly
      <3>3. CASE Pending(u, v) = {}
        BY <3>2, <3>3, FS_EmptySet
      <3>4. ASSUME NEW i \in Pending(u, v) PROVE Cardinality(Pending(u, v)) <= 1
        <4>1. Pending(u, v) = {i}
          BY <3>2, <3>4
        <4>2. Cardinality({i}) = 1
          BY FS_Singleton
        <4> QED
          BY <4>1, <4>2
      <3> QED
        BY <3>2, <3>3, <3>4
    <2> QED
      BY <2>1, <2>2 DEF OrderlyPairs, OneRequestOfPair
  <1> QED
    BY <1>1, CrossedInvariance, PTL

(* accept and reject find "Friend request is no longer pending": as long as   *)
(* no two handlers overlap on its pair, a rejected request stays rejected.    *)
THEOREM RejectionIsFinal == MCSpec => RejectedStaysRejected
  <1> DEFINE Final(i) == request[i].status = "REJECTED" /\ {request[i].from, request[i].to} \notin crossed'
                            => request'[i].status = "REJECTED"
  <1>1. ASSUME CrossedInv, MCNext, NEW i \in Id, request[i].status = "REJECTED",
               {request[i].from, request[i].to} \notin crossed'
        PROVE  request'[i].status = "REJECTED"
    <2> DEFINE p == {request[i].from, request[i].to}
    <2>1. p \in Pair /\ p \notin crossed
      <3>1. request[i].from \in User /\ request[i].to \in User /\ request[i].from # request[i].to
        BY <1>1 DEF CrossedInv, IInv, TypeOK, Unborn, Row, EndsDiffer
      <3> QED
        BY <1>1, <3>1, PairOfTwo DEF MCNext
    <2>2. PairInv(p) /\ IInv
      BY <2>1 , <1>1 DEF CrossedInv
    <2>3. PICK s \in Slot : Start(s) \/ Continue(s)
      BY <1>1 DEF MCNext, Next
    <2>4. CASE Befriend(s)
      <3>1. HoldsRequest(s) /\ h[s].pc = "befriend"
        BY <2>2, <2>4 DEF IInv, HandlersOK, Befriend
      <3>2. h[s].id # i
        <4>1. ASSUME h[s].id = i PROVE FALSE
          <5>1. Both(s) = p
            BY <3>1, <4>1 DEF HoldsRequest, Both
          <5>2. h[s].id \in Asking(p)
            BY <2>1, <2>2, <3>1, <5>1, Started DEF ReadIsTrue
          <5> QED
            BY <1>1, <4>1, <5>2 DEF Asking
        <4> QED
          BY <4>1
      <3> QED
        BY <1>1, <2>2, <2>4, <3>1, <3>2 DEF Befriend, IInv, TypeOK, HoldsRequest
    <2>5. CASE WriteReject(s)
      <3>1. HoldsRequest(s) /\ h[s].pc = "reject"
        BY <2>2, <2>5 DEF IInv, HandlersOK, WriteReject
      <3>2. CASE h[s].id = i /\ request' = [request EXCEPT ![h[s].id].status = "REJECTED"]
        <4>1. request[i] \in Row /\ request'[i] = [request[i] EXCEPT !.status = "REJECTED"]
          BY <1>1, <2>2, <3>2 DEF IInv, TypeOK, Unborn
        <4> QED
          BY <4>1 DEF Row
      <3> QED
        BY <1>1, <2>2, <2>5, <3>1, <3>2 DEF WriteReject, IInv, TypeOK
    <2>6. CASE CreateRequest(s)
      <3>1. \/ request' = request
            \/ \E j \in Id : \E new : request[j] = Unborn /\ request' = [request EXCEPT ![j] = new]
        BY <2>6 DEF CreateRequest
      <3> QED
        BY <1>1, <2>2, <3>1 DEF IInv, TypeOK, Unborn
    <2>7. CASE WriteBlock(s)
      <3>1. i \notin Pending(h[s].me, h[s].other)
        BY <1>1 DEF Pending
      <3> QED
        BY <1>1, <2>7, <3>1 DEF WriteBlock, rows
    <2>8. CASE UNCHANGED request
      BY <1>1, <2>8
    <2>9. CASE Start(s)
      BY <2>8, <2>9 DEF Start, SendRequest, RemoveFriend, BlockUser, Accept, Reject, rows
    <2> QED
      BY <2>3, <2>4, <2>5, <2>6, <2>7, <2>8, <2>9 DEF Continue, SendReadsFriendship, SendReadsPending,
         AcceptFromSend, WriteRemove, rows
  <1>2. CrossedInv /\ [MCNext]_<<vars, crossed>> => [\A i \in Id : Final(i)]_<<vars, crossed>>
    BY <1>1
  <1> QED
    BY <1>2, CrossedInvariance, PTL DEF MCSpec, RejectedStaysRejected
=============================================================================
