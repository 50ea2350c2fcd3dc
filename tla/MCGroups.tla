------------------------------- MODULE MCGroups -------------------------------
(***************************************************************************)
(* Instances of Groups.  A history variable remembers which handlers have  *)
(* met: each of the four meetings below leaves one of them acting on rows  *)
(* that the other has changed since it read them.                          *)
(***************************************************************************)
EXTENDS Groups, TLC

VARIABLE met   \* the Meetings so far

mcvars == <<vars, met>>

(* Every account may use every session; with one session, handlers never overlap. *)
Shared == [s \in Session |-> User]

(* One session per account, named after it (Session = User). *)
OwnSession == [s \in Session |-> {s}]

(* Session s runs a leaveGroup that has read its caller's role as OWNER. *)
Leaving(s) ==
    /\ h[s].actorRole = "OWNER"
    /\ h[s].pc \in {"leaveConverse", "leaveNext", "transfer", "last"}

(* leaves: an account leaves on two devices at once, and is OWNER to both. *)
OneLeave ==
    \A s, t \in Session : Leaving(s) /\ Leaving(t) /\ h[s].user = h[t].user => s = t

(* adds: two addMembers have both counted the members. *)
OneAdd ==
    \A s, t \in Session :
        {h[s].op, h[t].op} = {"add"} /\ {h[s].pc, h[t].pc} \subseteq {"bans", "write"} => s = t

(* handover: the next OWNER is about to leave, or to be removed, banned or     *)
(* given a role by a handler that has read its caller's own role.              *)
Promotes(s) ==
    /\ h[s].pc = "transfer" /\ WriteTransfer(s)
    /\ \E t \in Session :
          \/ h[t].op = "leave" /\ h[t].user = h[s].next
          \/ h[t].pc \in {"target", "write"} /\ h[s].next \in h[t].ids

(* ban: an addMembers that asked for the bans before inserts the account after. *)
BansLate(s) ==
    /\ At(s, "ban", "write") /\ WriteBan(s)
    /\ \E t \in Session : At(t, "add", "write") /\ h[s].ids \subseteq h[t].ids

MCInit == Init /\ met = {}

MCNext ==
    /\ Next
    /\ met' = met \cup (IF OneLeave' THEN {} ELSE {"leaves"})
                  \cup (IF OneAdd' THEN {} ELSE {"adds"})
                  \cup (IF \E s \in Session : Promotes(s) THEN {"handover"} ELSE {})
                  \cup (IF \E s \in Session : BansLate(s) THEN {"ban"} ELSE {})

MCSpec == MCInit /\ [][MCNext]_mcvars

(* What TLC explores of it: one kind of meeting in a behaviour. *)
BoundedSpec == MCInit /\ [][MCNext /\ Cardinality(met') <= 1]_mcvars

Anonymous == Permutations(User) \cup Permutations(Session)

-----------------------------------------------------------------------------
(* However handlers overlap, of different accounts or of one, two members are *)
(* never OWNER together: leaveGroup is the only writer of that role, and it   *)
(* hands it on in the transaction that removes the one who held it.  But an   *)
(* account that leaves twice at once, and is added again in between, makes    *)
(* two owners: the second transaction still goes by the role read before.     *)
NeverTwoOwners == "leaves" \notin met => AtMostOneOwner

(* What the permission matrix promises of the rows outlives every overlap but *)
(* these: a live group has its OWNER until a successor is promoted while he   *)
(* leaves, is removed or re-roled; a banned account stays out until it is     *)
(* banned between two queries of an addMembers; and only two addMembers that  *)
(* both counted exceed maxMembers.                                            *)
SafeUnlessMet ==
    /\ met \cap {"leaves", "handover"} = {} => ExactlyOneOwner
    /\ "ban" \notin met => NoBannedMember
    /\ "adds" \notin met => WithinCapacity
=============================================================================
