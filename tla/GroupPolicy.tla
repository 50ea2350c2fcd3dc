----------------------------- MODULE GroupPolicy -----------------------------
(***************************************************************************)
(* What the group part of ConversesService promises: the operations on one *)
(* group, each as ONE atomic step that checks the permission matrix of the *)
(* service's doc comments against the rows as they are when the step is    *)
(* taken.  Groups.tla is the service as it is written, every handler cut   *)
(* at its awaits; it implements this module only when its handlers do not  *)
(* overlap (Groups!RefinesPolicy, proved in GroupsProofs).                 *)
(***************************************************************************)
EXTENDS FiniteSets, Integers

CONSTANTS User,         \* the accounts that may own, join or be banned
          MaxMembers    \* Converse.maxMembers of this group

VARIABLES status,   \* "none", then "live", then "deleted" (deletedAt set)
          role,     \* role[u]: the role of u's ConverseMember row, or "NONE"
          before,   \* <<a, b>>: the row of a has a smaller joinedAt than b's
          mute,     \* mute[u]: mutedUntil is null / in the future / past
          bans      \* users with a GroupBan row

vars == <<status, role, before, mute, bans>>

Role == {"OWNER", "ADMIN", "MEMBER"}
NoRow == "NONE"

Members == {u \in User : role[u] # NoRow}
Owners == {u \in User : role[u] = "OWNER"}

(* The members of set S that joined before every other member of S. *)
Earliest(S) == {m \in S : \A n \in S : <<n, m>> \notin before}

(* ADMIN acts on MEMBERs only, OWNER on anybody else. *)
MayActOn(r, t) == r = "OWNER" \/ (r = "ADMIN" /\ role[t] = "MEMBER")

Manager(u) == status = "live" /\ role[u] \in {"OWNER", "ADMIN"}
SoleOwner(u) == status = "live" /\ role[u] = "OWNER"

(* The ConverseMember row of m is deleted, and with it everything the row holds. *)
DropRow(m) ==
    /\ role' = [role EXCEPT ![m] = NoRow]
    /\ mute' = [mute EXCEPT ![m] = "off"]
    /\ before' = {p \in before : p[1] # m /\ p[2] # m}

Init ==
    /\ status = "none"
    /\ role = [u \in User |-> NoRow]
    /\ before = {}
    /\ mute = [u \in User |-> "off"]
    /\ bans = {}

Create(u, ids) ==
    /\ status = "none"
    /\ Cardinality(ids \cup {u}) <= MaxMembers
    /\ status' = "live"
    /\ role' = [v \in User |-> IF v = u THEN "OWNER"
                               ELSE IF v \in ids THEN "MEMBER" ELSE NoRow]
    /\ UNCHANGED <<before, mute, bans>>

Add(u, new) ==
    /\ Manager(u)
    /\ new # {} /\ new \cap Members = {} /\ new \cap bans = {}
    /\ Cardinality(Members) + Cardinality(new) <= MaxMembers
    /\ role' = [v \in User |-> IF v \in new THEN "MEMBER" ELSE role[v]]
    /\ before' = before \cup (Members \X new)
    /\ UNCHANGED <<status, mute, bans>>

Remove(u, m) ==
    /\ Manager(u) /\ u # m /\ m \in Members /\ MayActOn(role[u], m)
    /\ DropRow(m)
    /\ UNCHANGED <<status, bans>>

Ban(u, m) ==
    /\ Manager(u) /\ u # m /\ m \in Members /\ m \notin bans /\ MayActOn(role[u], m)
    /\ DropRow(m)
    /\ bans' = bans \cup {m}
    /\ UNCHANGED status

Unban(u, m) ==
    /\ Manager(u) /\ m \in bans
    /\ bans' = bans \ {m}
    /\ UNCHANGED <<status, role, before, mute>>

SetRole(u, m, r) ==
    /\ SoleOwner(u) /\ u # m /\ m \in Members
    /\ role' = [role EXCEPT ![m] = r]
    /\ UNCHANGED <<status, before, mute, bans>>

SetMute(u, m) ==
    /\ Manager(u) /\ u # m /\ m \in Members /\ MayActOn(role[u], m)
    /\ mute' = [mute EXCEPT ![m] = "running"]
    /\ UNCHANGED <<status, role, before, bans>>

Unmute(u, m) ==
    /\ Manager(u) /\ m \in Members
    /\ mute' = [mute EXCEPT ![m] = "off"]
    /\ UNCHANGED <<status, role, before, bans>>

Delete(u) ==
    /\ SoleOwner(u)
    /\ status' = "deleted"
    /\ UNCHANGED <<role, before, mute, bans>>

LeaveAsOther(u) ==
    /\ status = "live" /\ role[u] \in {"ADMIN", "MEMBER"}
    /\ DropRow(u)
    /\ UNCHANGED <<status, bans>>

(* The departing OWNER hands the group to the earliest joined other member. *)
LeaveAsOwner(u, n) ==
    /\ SoleOwner(u)
    /\ n \in Earliest(Members \ {u})
    /\ role' = [role EXCEPT ![n] = "OWNER", ![u] = NoRow]
    /\ mute' = [mute EXCEPT ![u] = "off"]
    /\ before' = {p \in before : p[1] # u /\ p[2] # u}
    /\ UNCHANGED <<status, bans>>

LeaveLast(u) ==
    /\ SoleOwner(u) /\ Members = {u}
    /\ DropRow(u)
    /\ status' = "deleted"
    /\ UNCHANGED bans

MuteRunsOut(m) ==
    /\ mute[m] = "running"
    /\ mute' = [mute EXCEPT ![m] = "over"]
    /\ UNCHANGED <<status, role, before, bans>>

ClearMute(m) ==
    /\ mute[m] = "over"
    /\ mute' = [mute EXCEPT ![m] = "off"]
    /\ UNCHANGED <<status, role, before, bans>>

Next ==
    \/ \E u \in User, ids \in SUBSET User : Create(u, ids) \/ Add(u, ids)
    \/ \E u, m \in User :
          \/ Remove(u, m) \/ Ban(u, m) \/ Unban(u, m)
          \/ SetMute(u, m) \/ Unmute(u, m)
          \/ LeaveAsOwner(u, m)
          \/ \E r \in {"ADMIN", "MEMBER"} : SetRole(u, m, r)
    \/ \E u \in User :
          Delete(u) \/ LeaveAsOther(u) \/ LeaveLast(u) \/ MuteRunsOut(u) \/ ClearMute(u)

Spec == Init /\ [][Next]_vars

-----------------------------------------------------------------------------
(* The rows have their types; a user without a row has no mute and no place *)
(* in the joining order (both are columns of the ConverseMember row).       *)
TypeOK ==
    /\ status \in {"none", "live", "deleted"}
    /\ role \in [User -> Role \cup {NoRow}]
    /\ before \subseteq Members \X Members
    /\ mute \in [User -> {"off", "running", "over"}]
    /\ \A u \in User : role[u] = NoRow => mute[u] = "off"
    /\ bans \subseteq User

(* A live group has exactly one OWNER: never none, which nobody could then *)
(* repair (only the OWNER changes roles), and never two.                   *)
ExactlyOneOwner == status = "live" => \E u \in User : Owners = {u}

(* A banned user is not a member: banMember removes, addMembers refuses. *)
NoBannedMember == bans \cap Members = {}

(* The group never has more members than Converse.maxMembers. *)
WithinCapacity == Cardinality(Members) <= MaxMembers

Safety == ExactlyOneOwner /\ NoBannedMember /\ WithinCapacity
=============================================================================
