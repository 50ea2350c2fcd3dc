------------------------------- MODULE MCFriends -------------------------------
(***************************************************************************)
(* Instances of Friends.  A history variable remembers the pairs on which  *)
(* two handlers were running at the same time: what their overlap can      *)
(* break, it breaks for that pair only.                                    *)
(***************************************************************************)
EXTENDS Friends, TLC

VARIABLE crossed

Crowded(p) == \E s, t \in Slot : s # t /\ {h[s].pc, h[t].pc} \cap {"idle"} = {} /\ Both(s) = p /\ Both(t) = p

MCInit == Init /\ crossed = {}
MCNext == Next /\ crossed' = crossed \cup {p \in Pair : Crowded(p)'}
MCSpec == MCInit /\ [][MCNext]_<<vars, crossed>>

(* Bounds a run to pairs that share a user, one of them crossed at most. *)
Bounded ==
    /\ Cardinality(crossed) <= 1
    /\ \E u \in User :
          /\ \A i \in Id : u \in {request[i].from, request[i].to} \/ request[i] = Unborn
          /\ \A b \in blocked : u \in {b[1], b[2]}
          /\ \A s \in Slot : u \in Both(s) \/ h[s] = Idle

Anonymous == Permutations(User) \cup Permutations(Slot)

-----------------------------------------------------------------------------
(* blockUser, for a pair whose handlers never overlapped: who is blocked by   *)
(* another is neither friend nor asks to be, whatever happens to other pairs. *)
BlockEndsContactOfPair ==
    \A u, v \in User : <<u, v>> \in blocked /\ {u, v} \notin crossed => NoContact(u, v)

(* sendRequest and accept, for such a pair: it has one pending request, and   *)
(* none when the two are friends.                                             *)
OneRequestOfPair ==
    \A u, v \in User : u # v /\ {u, v} \notin crossed =>
        /\ Cardinality(Pending(u, v)) <= 1
        /\ friendship[{u, v}] # 0 => Pending(u, v) = {}

(* Both: what two handlers can break for a pair, other pairs cannot.          *)
OrderlyPairs == BlockEndsContactOfPair /\ OneRequestOfPair

(* "Friend request is no longer pending", for such a pair: a request that was *)
(* rejected stays so, and never makes a friendship.                           *)
RejectedStaysRejected ==
    [][\A i \in Id :
          request[i].status = "REJECTED" /\ {request[i].from, request[i].to} \notin crossed'
             => request'[i].status = "REJECTED"]_<<vars, crossed>>
=============================================================================
