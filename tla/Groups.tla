-------------------------------- MODULE Groups --------------------------------
(***************************************************************************)
(* The group handlers of ConversesService (apps/server/src/converses), and *)
(* the mute check MessagesService.create makes, on one group.              *)
(*                                                                         *)
(* A handler is a chain of database calls joined by await: each call is    *)
(* one atomic step here (a Prisma $transaction is one call), and between   *)
(* two steps of one handler any step of another may happen.  What a        *)
(* handler has read is kept in its session's record, so a later write is   *)
(* decided by values that may be stale by then.  A handler that throws     *)
(* returns its session to Idle and changes no row.                         *)
(*                                                                         *)
(* Broadcasts are left to another module; names, descriptions and the      *)
(* existence of the named accounts are outside the model.                  *)
(***************************************************************************)
EXTENDS FiniteSets, Integers

CONSTANTS User,         \* accounts
          NoUser,       \* not an account
          Session,      \* request slots; each runs one handler at a time
          Acts,         \* Acts[s]: the accounts logged in on session s
          Ops,          \* the operations the clients of this instance call
          MaxMembers    \* Converse.maxMembers of the group

AllOps == {"create", "add", "remove", "role", "mute", "unmute", "ban", "unban",
           "delete", "leave", "post"}

ASSUME UserAssumption == IsFiniteSet(User) /\ NoUser \notin User
ASSUME ActsAssumption == Acts \in [Session -> SUBSET User]
ASSUME OpsAssumption == Ops \subseteq AllOps
ASSUME MaxMembersAssumption == MaxMembers \in Nat \ {0}

VARIABLES status, role, before, mute, bans,   \* the rows, as in GroupPolicy
          h                                   \* h[s]: the handler running on s

rows == <<status, role, before, mute, bans>>
vars == <<status, role, before, mute, bans, h>>

(* The rows are the abstract state; the handlers are hidden. *)
Policy == INSTANCE GroupPolicy
          WITH status <- status, role <- role, before <- before, mute <- mute, bans <- bans

Members == Policy!Members
NoRow == Policy!NoRow

Idle == [op |-> "none", pc |-> "idle", user |-> NoUser, ids |-> {},
         actorRole |-> NoRow, next |-> NoUser]

Handler == [op : AllOps \cup {"none"},
            pc : {"idle", "actor", "target", "converse", "members", "bans",
                  "leaveConverse", "leaveNext", "muted", "clear",
                  "write", "transfer", "last"},
            user : User \cup {NoUser},
            ids : SUBSET User,
            actorRole : Policy!Role \cup {NoRow},
            next : User \cup {NoUser}]

Init ==
    /\ Policy!Init
    /\ h = [s \in Session |-> Idle]

-----------------------------------------------------------------------------
Goto(s, pc) == h' = [h EXCEPT ![s].pc = pc]
Return(s) == h' = [h EXCEPT ![s] = Idle]
At(s, op, pc) == h[s].op = op /\ h[s].pc = pc

Open(s, u, op, ids, pc) ==
    h' = [h EXCEPT ![s] = [Idle EXCEPT !.op = op, !.pc = pc, !.user = u, !.ids = ids]]

Admits(s, u, op) == h[s].pc = "idle" /\ u \in Acts[s] /\ op \in Ops

(* The roles requireGroupRole is called with. *)
Allowed(op) == IF op \in {"role", "delete"} THEN {"OWNER"} ELSE {"OWNER", "ADMIN"}

(* The user ids of a request: nobody removes, mutes, bans or re-roles himself. *)
Inputs(u, op) ==
    CASE op \in {"remove", "role", "mute", "ban"} -> {{m} : m \in User \ {u}}
      [] op \in {"unmute", "unban"} -> {{m} : m \in User}
      [] op = "add" -> SUBSET User \ {{}}
      [] OTHER -> {{}}

(* createGroup: one transaction; the DTO admits at most maxMembers - 1 others. *)
CreateGroup(s, u, ids) ==
    /\ Admits(s, u, "create")
    /\ Policy!Create(u, ids)
    /\ UNCHANGED h

(* requireGroupRole, first call: the group must exist and not be deleted. *)
RequireGroup(s, u, op, ids) ==
    /\ Admits(s, u, op)
    /\ op \notin {"create", "leave", "post"}
    /\ ids \in Inputs(u, op)
    /\ status = "live"
    /\ Open(s, u, op, ids, "actor")
    /\ UNCHANGED rows

AfterRole(op) ==
    CASE op = "delete" -> "write"
      [] op = "add" -> "converse"
      [] OTHER -> "target"

(* requireGroupRole, second call: the caller's row is read and returned. *)
RequireRole(s) ==
    /\ h[s].pc = "actor"
    /\ IF role[h[s].user] \in Allowed(h[s].op)
       THEN h' = [h EXCEPT ![s].pc = AfterRole(h[s].op),
                           ![s].actorRole = role[h[s].user]]
       ELSE Return(s)
    /\ UNCHANGED rows

(* Mutant: an ADMIN may act on anybody. *)
TargetOfAnyRole(s) ==
    IF h[s].op = "unban" THEN h[s].ids \subseteq bans ELSE h[s].ids \subseteq Members

(* The operations on one member read the target's row (unbanMember: the ban); *)
(* remove, mute and ban let an ADMIN act on a MEMBER only, unmute does not.   *)
TargetAccepted(s) ==
    IF h[s].op = "unban" THEN h[s].ids \subseteq bans
    ELSE /\ h[s].ids \subseteq Members
         /\ h[s].op \in {"remove", "mute", "ban"} /\ h[s].actorRole = "ADMIN"
               => \A m \in h[s].ids : role[m] = "MEMBER"

ReadTarget(s) ==
    /\ h[s].pc = "target"
    /\ IF TargetAccepted(s) THEN Goto(s, "write") ELSE Return(s)
    /\ UNCHANGED rows

-----------------------------------------------------------------------------
(* addMembers: group, members, bans are three reads before the insert. *)
AddReadsGroup(s) ==
    /\ h[s].pc = "converse"
    /\ IF status = "live" THEN Goto(s, "members") ELSE Return(s)
    /\ UNCHANGED rows

AddReadsMembers(s) ==
    LET new == h[s].ids \ Members
    IN /\ h[s].pc = "members"
       /\ IF new = {} \/ Cardinality(Members) + Cardinality(new) > MaxMembers
          THEN Return(s)
          ELSE h' = [h EXCEPT ![s].ids = new, ![s].pc = "bans"]
       /\ UNCHANGED rows

AddReadsBans(s) ==
    /\ h[s].pc = "bans"
    /\ IF h[s].ids \cap bans = {} THEN Goto(s, "write") ELSE Return(s)
    /\ UNCHANGED rows

(* createMany inserts all rows or, when one of them exists by now, throws. *)
WriteAdd(s) ==
    /\ At(s, "add", "write")
    /\ IF h[s].ids \cap Members = {}
       THEN /\ role' = [v \in User |-> IF v \in h[s].ids THEN "MEMBER" ELSE role[v]]
            /\ before' = before \cup (Members \X h[s].ids)
       ELSE UNCHANGED <<role, before>>
    /\ Return(s)
    /\ UNCHANGED <<status, mute, bans>>

-----------------------------------------------------------------------------
(* The writes on one member.  delete and update of a row that is gone throw. *)
WriteRemove(s) ==
    /\ At(s, "remove", "write")
    /\ \E m \in h[s].ids :
          IF m \in Members THEN Policy!DropRow(m) ELSE UNCHANGED <<role, before, mute>>
    /\ Return(s)
    /\ UNCHANGED <<status, bans>>

(* groupBan.create and converseMember.delete in one transaction: a second ban *)
(* violates the unique key, a missing member fails the delete; both roll back. *)
WriteBan(s) ==
    /\ At(s, "ban", "write")
    /\ \E m \in h[s].ids :
          IF m \in Members /\ m \notin bans
          THEN Policy!DropRow(m) /\ bans' = bans \cup {m}
          ELSE UNCHANGED <<role, before, mute, bans>>
    /\ Return(s)
    /\ UNCHANGED status

WriteUnban(s) ==
    /\ At(s, "unban", "write")
    /\ bans' = bans \ h[s].ids
    /\ Return(s)
    /\ UNCHANGED <<status, role, before, mute>>

(* Mutant: the role is upserted, so the row need not exist. *)
UpsertRole(s) ==
    /\ At(s, "role", "write")
    /\ \E m \in h[s].ids, r \in {"ADMIN", "MEMBER"} : role' = [role EXCEPT ![m] = r]
    /\ Return(s)
    /\ UNCHANGED <<status, before, mute, bans>>

(* Mutant: the DTO lets every role through, OWNER too. *)
WriteAnyRole(s) ==
    /\ At(s, "role", "write")
    /\ \E m \in h[s].ids, r \in Policy!Role :
          role' = IF m \in Members THEN [role EXCEPT ![m] = r] ELSE role
    /\ Return(s)
    /\ UNCHANGED <<status, before, mute, bans>>

(* The DTO admits the roles ADMIN and MEMBER. *)
WriteRole(s) ==
    /\ At(s, "role", "write")
    /\ \E m \in h[s].ids, r \in {"ADMIN", "MEMBER"} :
          role' = IF m \in Members THEN [role EXCEPT ![m] = r] ELSE role
    /\ Return(s)
    /\ UNCHANGED <<status, before, mute, bans>>

WriteMute(s) ==
    /\ h[s].op \in {"mute", "unmute"} /\ h[s].pc = "write"
    /\ \E m \in h[s].ids :
          mute' = IF m \in Members
                  THEN [mute EXCEPT ![m] = IF h[s].op = "mute" THEN "running" ELSE "off"]
                  ELSE mute
    /\ Return(s)
    /\ UNCHANGED <<status, role, before, bans>>

WriteDelete(s) ==
    /\ At(s, "delete", "write")
    /\ status' = "deleted"
    /\ Return(s)
    /\ UNCHANGED <<role, before, mute, bans>>

-----------------------------------------------------------------------------
(* leaveGroup reads the caller's row first, then the group. *)
LeaveReadsRow(s, u) ==
    /\ Admits(s, u, "leave")
    /\ role[u] # NoRow
    /\ h' = [h EXCEPT ![s] = [Idle EXCEPT !.op = "leave", !.pc = "leaveConverse",
                                          !.user = u, !.actorRole = role[u]]]
    /\ UNCHANGED rows

(* Mutant: the OWNER leaves like everybody else. *)
LeaveWithoutHandover(s) ==
    /\ h[s].pc = "leaveConverse"
    /\ IF status # "live" THEN Return(s) ELSE Goto(s, "write")
    /\ UNCHANGED rows

LeaveReadsGroup(s) ==
    /\ h[s].pc = "leaveConverse"
    /\ IF status # "live" THEN Return(s)
       ELSE Goto(s, IF h[s].actorRole = "OWNER" THEN "leaveNext" ELSE "write")
    /\ UNCHANGED rows

(* findFirst ordered by joinedAt: the earliest other member, whatever his role. *)
PickNextOwner(s) ==
    /\ h[s].pc = "leaveNext"
    /\ LET others == Members \ {h[s].user}
       IN IF others = {} THEN Goto(s, "last")
          ELSE \E n \in Policy!Earliest(others) :
                  h' = [h EXCEPT ![s].next = n, ![s].pc = "transfer"]
    /\ UNCHANGED rows

WriteLeave(s) ==
    /\ At(s, "leave", "write")
    /\ IF h[s].user \in Members THEN Policy!DropRow(h[s].user)
       ELSE UNCHANGED <<role, before, mute>>
    /\ Return(s)
    /\ UNCHANGED <<status, bans>>

(* One transaction: next becomes OWNER, the caller's row goes; both or neither. *)
WriteTransfer(s) ==
    LET u == h[s].user
        n == h[s].next
    IN /\ h[s].pc = "transfer"
       /\ IF {u, n} \subseteq Members
          THEN /\ role' = [role EXCEPT ![n] = "OWNER", ![u] = NoRow]
               /\ mute' = [mute EXCEPT ![u] = "off"]
               /\ before' = {p \in before : p[1] # u /\ p[2] # u}
          ELSE UNCHANGED <<role, before, mute>>
       /\ Return(s)
       /\ UNCHANGED <<status, bans>>

(* One transaction: the last row goes and the group is soft-deleted. *)
WriteLast(s) ==
    /\ h[s].pc = "last"
    /\ IF h[s].user \in Members
       THEN Policy!DropRow(h[s].user) /\ status' = "deleted"
       ELSE UNCHANGED <<status, role, before, mute>>
    /\ Return(s)
    /\ UNCHANGED bans

-----------------------------------------------------------------------------
(* MessagesService.create: verifyMembership, then checkMuted. *)
PostReadsRow(s, u) ==
    /\ Admits(s, u, "post")
    /\ role[u] # NoRow
    /\ Open(s, u, "post", {}, "muted")
    /\ UNCHANGED rows

CheckMuted(s) ==
    /\ h[s].pc = "muted"
    /\ IF mute[h[s].user] = "over" THEN Goto(s, "clear") ELSE Return(s)
    /\ UNCHANGED rows

(* checkMuted found mutedUntil in the past and now sets it to null. *)
ClearMute(s) ==
    /\ h[s].pc = "clear"
    /\ mute' = [mute EXCEPT ![h[s].user] = "off"]
    /\ Return(s)
    /\ UNCHANGED <<status, role, before, bans>>

(* mutedUntil <= now from here on. *)
MuteRunsOut(m) ==
    /\ mute[m] = "running"
    /\ mute' = [mute EXCEPT ![m] = "over"]
    /\ UNCHANGED <<status, role, before, bans, h>>

(* A database call rejects or the server dies: the handler ends between two writes. *)
Fail(s) ==
    /\ h[s].pc # "idle"
    /\ Return(s)
    /\ UNCHANGED rows

-----------------------------------------------------------------------------
Start(s, u) ==
    \/ \E ids \in SUBSET User : CreateGroup(s, u, ids)
    \/ \E op \in Ops : \E ids \in Inputs(u, op) : RequireGroup(s, u, op, ids)
    \/ LeaveReadsRow(s, u)
    \/ PostReadsRow(s, u)

Continue(s) ==
    \/ RequireRole(s) \/ ReadTarget(s)
    \/ AddReadsGroup(s) \/ AddReadsMembers(s) \/ AddReadsBans(s)
    \/ LeaveReadsGroup(s) \/ PickNextOwner(s) \/ CheckMuted(s)
    \/ WriteAdd(s) \/ WriteRemove(s) \/ WriteBan(s) \/ WriteUnban(s)
    \/ WriteRole(s) \/ WriteMute(s) \/ WriteDelete(s)
    \/ WriteLeave(s) \/ WriteTransfer(s) \/ WriteLast(s) \/ ClearMute(s)
    \/ Fail(s)

Next ==
    \/ \E s \in Session, u \in User : Start(s, u)
    \/ \E s \in Session : Continue(s)
    \/ \E m \in User : MuteRunsOut(m)

Spec == Init /\ [][Next]_vars

-----------------------------------------------------------------------------
TypeOK ==
    /\ Policy!TypeOK
    /\ h \in [Session -> Handler]

(* Handlers that do not overlap implement the atomic operations of the      *)
(* permission matrix: every write is allowed by the rows it is applied to.  *)
RefinesPolicy == Policy!Spec

(* The first three hold for handlers one at a time, not for handlers that   *)
(* overlap.  A live group has exactly one OWNER (createGroup, leaveGroup).   *)
ExactlyOneOwner == Policy!ExactlyOneOwner

(* banMember removes the member for good: addMembers refuses a banned user. *)
NoBannedMember == Policy!NoBannedMember

(* addMembers refuses to exceed maxMembers. *)
WithinCapacity == Policy!WithinCapacity

(* Together, what the permission matrix promises of the rows.                *)
GroupSafety == ExactlyOneOwner /\ NoBannedMember /\ WithinCapacity

(* Two members are never OWNER together; see MCGroups!NeverTwoOwners.        *)
AtMostOneOwner == \A u, v \in Policy!Owners : u = v

(* A stale update never re-creates a row: a removed, banned or departed      *)
(* member comes back through addMembers only, and as a plain MEMBER.         *)
NoResurrection ==
    [][\A u \in User : role[u] = NoRow /\ role'[u] # NoRow =>
          \/ status = "none"
          \/ /\ role'[u] = "MEMBER"
             /\ \E s \in Session : At(s, "add", "write") /\ u \in h[s].ids]_vars
=============================================================================
