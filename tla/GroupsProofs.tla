----------------------------- MODULE GroupsProofs -----------------------------
(***************************************************************************)
(* Theorems about the group handlers, for every set of users and sessions: *)
(* what holds however handlers overlap, that handlers one at a time        *)
(* implement GroupPolicy, and that GroupPolicy keeps one owner, no banned  *)
(* member and the capacity.                                                *)
(***************************************************************************)
EXTENDS MCGroups, FiniteSetTheorems, TLAPS

Reads(s) ==
    \/ RequireRole(s) \/ ReadTarget(s)
    \/ AddReadsGroup(s) \/ AddReadsMembers(s) \/ AddReadsBans(s)
    \/ LeaveReadsGroup(s) \/ PickNextOwner(s) \/ CheckMuted(s) \/ Fail(s)

Writes(s) ==
    \/ WriteAdd(s) \/ WriteRemove(s) \/ WriteBan(s) \/ WriteUnban(s)
    \/ WriteRole(s) \/ WriteMute(s) \/ WriteDelete(s)
    \/ WriteLeave(s) \/ WriteTransfer(s) \/ WriteLast(s) \/ ClearMute(s)

Opens(s, u) ==
    \/ \E op \in Ops : \E ids \in Inputs(u, op) : RequireGroup(s, u, op, ids)
    \/ LeaveReadsRow(s, u)
    \/ PostReadsRow(s, u)

(* The shape of Next: handlers open, read, write; mutes run out. *)
LEMMA NextCases ==
    ASSUME Next
    PROVE  \/ \E s \in Session, u \in User, ids \in SUBSET User : CreateGroup(s, u, ids)
           \/ \E s \in Session, u \in User : Opens(s, u)
           \/ \E s \in Session : Reads(s) \/ Writes(s)
           \/ \E m \in User : MuteRunsOut(m)
BY DEF Next, Start, Continue, Opens, Reads, Writes

LEMMA InputsType ==
    ASSUME NEW u \in User, NEW op, NEW ids \in Inputs(u, op)
    PROVE  ids \in SUBSET User
BY DEF Inputs

LEMMA IdleType == Idle \in Handler
BY DEF Idle, Handler, NoRow, Policy!NoRow, AllOps

LEMMA ReadsKeepRows ==
    /\ \A s \in Session : Reads(s) => UNCHANGED rows
    /\ \A s \in Session, u \in User : Opens(s, u) => UNCHANGED rows
BY DEF Reads, Opens, RequireRole, ReadTarget, AddReadsGroup, AddReadsMembers, AddReadsBans,
       LeaveReadsGroup, PickNextOwner, CheckMuted, Fail, RequireGroup, LeaveReadsRow,
       PostReadsRow

LEMMA WritesReturn ==
    ASSUME NEW s \in Session, Writes(s)
    PROVE  Return(s) /\ h[s].pc # "idle"
BY DEF Writes, WriteAdd, WriteRemove, WriteBan, WriteUnban, WriteRole, WriteMute,
       WriteDelete, WriteLeave, WriteTransfer, WriteLast, ClearMute, At

-----------------------------------------------------------------------------
(* Before the group exists it has no member and no handler passes its first read. *)
Unborn == status = "none" => Members = {} /\ \A s \in Session : h[s].pc = "idle"

BaseInv == TypeOK /\ Unborn

LEMMA HandlerTypeStep ==
    ASSUME TypeOK, Next
    PROVE  h' \in [Session -> Handler]
<1> USE DEF TypeOK
<1>1. ASSUME NEW s \in Session, NEW u \in User, Opens(s, u)
      PROVE  h' \in [Session -> Handler]
  <2>1. ASSUME NEW op \in Ops, NEW ids \in Inputs(u, op), RequireGroup(s, u, op, ids)
        PROVE  h' \in [Session -> Handler]
    BY <2>1, InputsType, OpsAssumption, IdleType DEF RequireGroup, Open, Idle, Handler
  <2>2. CASE LeaveReadsRow(s, u)
    BY <2>2, IdleType DEF LeaveReadsRow, Idle, Handler, AllOps, Policy!TypeOK, NoRow, Policy!NoRow
  <2>3. CASE PostReadsRow(s, u)
    BY <2>3, IdleType DEF PostReadsRow, Open, Idle, Handler, AllOps
  <2>4. QED
    BY <1>1, <2>1, <2>2, <2>3 DEF Opens
<1>2. ASSUME NEW s \in Session, Return(s)
      PROVE  h' \in [Session -> Handler]
  BY <1>2, IdleType DEF Return
<1>3. ASSUME NEW s \in Session, NEW pc, Goto(s, pc),
             pc \in {"write", "members", "leaveNext", "last", "clear"}
      PROVE  h' \in [Session -> Handler]
  BY <1>3 DEF Goto, Handler
<1>4. ASSUME NEW s \in Session, Reads(s)
      PROVE  h' \in [Session -> Handler]
  <2>1. CASE RequireRole(s)
    <3>1. h[s].op \in AllOps \cup {"none"} /\ h[s].user \in User \cup {NoUser}
      BY DEF Handler
    <3>2. CASE role[h[s].user] \in Allowed(h[s].op)
      <4>1. role[h[s].user] \in Policy!Role \cup {NoRow}
        BY <3>2 DEF Allowed, Policy!Role
      <4>2. AfterRole(h[s].op) \in {"write", "converse", "target"}
        BY DEF AfterRole
      <4>3. QED
        BY <2>1, <3>2, <4>1, <4>2 DEF RequireRole, Handler
    <3>3. QED
      BY <2>1, <3>2, <1>2 DEF RequireRole
  <2>2. CASE AddReadsMembers(s)
    BY <2>2, <1>2 DEF AddReadsMembers, Handler
  <2>3. CASE PickNextOwner(s)
    <3>1. ASSUME NEW n \in Policy!Earliest(Members \ {h[s].user}),
                 h' = [h EXCEPT ![s].next = n, ![s].pc = "transfer"]
          PROVE  h' \in [Session -> Handler]
      <4>1. n \in User
        BY DEF Policy!Earliest, Members, Policy!Members
      <4>2. [h[s] EXCEPT !.next = n, !.pc = "transfer"] \in Handler
        BY <4>1 DEF Handler
      <4>3. h' = [h EXCEPT ![s] = [h[s] EXCEPT !.next = n, !.pc = "transfer"]]
        BY <3>1
      <4>4. QED
        BY <4>2, <4>3
    <3>2. CASE Members \ {h[s].user} = {}
      <4>1. Goto(s, "last")
        BY <2>3, <3>2 DEF PickNextOwner
      <4>2. QED
        BY <4>1, <1>3
    <3>3. CASE Members \ {h[s].user} # {}
      BY <2>3, <3>1, <3>3 DEF PickNextOwner
    <3>4. QED
      BY <3>2, <3>3
  <2>4. CASE \/ ReadTarget(s) \/ AddReadsGroup(s) \/ AddReadsBans(s)
             \/ LeaveReadsGroup(s) \/ CheckMuted(s) \/ Fail(s)
    BY <2>4, <1>2, <1>3 DEF ReadTarget, AddReadsGroup, AddReadsBans, LeaveReadsGroup,
                            CheckMuted, Fail
  <2>5. QED
    BY <1>4, <2>1, <2>2, <2>3, <2>4 DEF Reads
<1>5. QED
  BY NextCases, <1>1, <1>2, <1>4, WritesReturn DEF CreateGroup, MuteRunsOut

(* Deleting a row keeps the rows typed. *)
LEMMA DropRowType ==
    ASSUME Policy!TypeOK, NEW m \in User, Policy!DropRow(m),
           bans' \in SUBSET User, status' \in {"none", "live", "deleted"}
    PROVE  Policy!TypeOK'
<1>1. Policy!Members' = Policy!Members \ {m}
  BY DEF Policy!DropRow, Policy!TypeOK, Policy!Members, Policy!NoRow
<1>2. QED
  BY <1>1 DEF Policy!DropRow, Policy!TypeOK, Policy!Role, Policy!NoRow

LEMMA RowTypeStep ==
    ASSUME BaseInv, Next
    PROVE  Policy!TypeOK'
<1> USE DEF BaseInv, TypeOK
<1> DEFINE C == Policy!Members
<1>1. ASSUME UNCHANGED rows PROVE Policy!TypeOK'
  BY <1>1 DEF rows, Policy!TypeOK, Policy!Members
<1>2. ASSUME NEW s \in Session, NEW u \in User, NEW ids \in SUBSET User,
             CreateGroup(s, u, ids)
      PROVE  Policy!TypeOK'
  <2>1. before = {} /\ mute = [v \in User |-> "off"] /\ C = {}
    BY <1>2 DEF CreateGroup, Policy!Create, Unborn, Members, Policy!Members, Policy!TypeOK
  <2>2. QED
    BY <1>2, <2>1 DEF CreateGroup, Policy!Create, Policy!TypeOK, Policy!Role,
                      Policy!NoRow
<1>3. ASSUME NEW s \in Session, Writes(s)
      PROVE  Policy!TypeOK'
  <2>0. h[s] \in Handler /\ h[s].ids \in SUBSET User
    BY DEF Handler
  <2>1. CASE WriteAdd(s)
    <3>1. CASE h[s].ids \cap Members = {}
      <4>1. Policy!Members' = C \cup h[s].ids
        BY <2>0, <2>1, <3>1 DEF WriteAdd, Policy!Members, Policy!NoRow, Policy!TypeOK
      <4>2. QED
        BY <2>0, <2>1, <3>1, <4>1
           DEF WriteAdd, Policy!TypeOK, Policy!Role, Policy!NoRow, Members
    <3>2. QED
      BY <2>1, <3>1, <1>1 DEF WriteAdd, rows
  <2>2. CASE WriteRemove(s)
    BY <2>0, <2>2, <1>1, DropRowType DEF WriteRemove, rows, Policy!TypeOK
  <2>3. CASE WriteBan(s)
    <3>1. PICK m \in h[s].ids :
             IF m \in Members /\ m \notin bans
             THEN Policy!DropRow(m) /\ bans' = bans \cup {m}
             ELSE UNCHANGED <<role, before, mute, bans>>
      BY <2>3 DEF WriteBan
    <3>2. status' = status /\ bans \in SUBSET User /\ m \in User
      BY <2>0, <2>3 DEF WriteBan, Policy!TypeOK
    <3>3. QED
      BY <3>1, <3>2, <1>1, DropRowType DEF rows, Policy!TypeOK
  <2>4. CASE WriteUnban(s)
    BY <2>4 DEF WriteUnban, Policy!TypeOK, Policy!Members
  <2>5. CASE WriteRole(s)
    <3>1. PICK m \in h[s].ids, r \in {"ADMIN", "MEMBER"} :
             role' = IF m \in Members THEN [role EXCEPT ![m] = r] ELSE role
      BY <2>5 DEF WriteRole
    <3>2. Policy!Members' = C
      BY <2>0, <3>1 DEF Members, Policy!Members, Policy!NoRow, Policy!TypeOK
    <3>3. QED
      BY <2>0, <2>5, <3>1, <3>2
         DEF WriteRole, Policy!TypeOK, Policy!Role, Policy!NoRow, Members, Policy!Members
  <2>6. CASE WriteMute(s)
    BY <2>0, <2>6 DEF WriteMute, Policy!TypeOK, Members, Policy!Members, Policy!NoRow
  <2>7. CASE WriteDelete(s)
    BY <2>7 DEF WriteDelete, Policy!TypeOK, Policy!Members
  <2>8. CASE WriteLeave(s)
    <3>1. CASE h[s].user \in Members
      BY <2>8, <3>1, DropRowType DEF WriteLeave, Members, Policy!Members, Policy!TypeOK
    <3>2. CASE h[s].user \notin Members
      BY <2>8, <3>2, <1>1 DEF WriteLeave, rows
    <3>3. QED
      BY <3>1, <3>2
  <2>9. CASE WriteTransfer(s)
    <3>1. CASE {h[s].user, h[s].next} \subseteq Members
      <4>1. h[s].user \in User /\ h[s].next \in C
        BY <3>1 DEF Members, Policy!Members
      <4>a. role' = [role EXCEPT ![h[s].next] = "OWNER", ![h[s].user] = NoRow]
        BY <2>9, <3>1 DEF WriteTransfer
      <4>2. Policy!Members' = C \ {h[s].user}
        BY <4>1, <4>a DEF NoRow, Policy!Members, Policy!NoRow, Policy!TypeOK
      <4>3. QED
        BY <2>9, <3>1, <4>1, <4>2
           DEF WriteTransfer, Policy!TypeOK, Policy!Role, Policy!NoRow, Policy!Members
    <3>2. QED
      BY <2>9, <3>1, <1>1 DEF WriteTransfer, rows
  <2>10. CASE WriteLast(s)
    <3>1. CASE h[s].user \in Members
      BY <2>10, <3>1, DropRowType DEF WriteLast, Members, Policy!Members, Policy!TypeOK
    <3>2. CASE h[s].user \notin Members
      BY <2>10, <3>2, <1>1 DEF WriteLast, rows
    <3>3. QED
      BY <3>1, <3>2
  <2>11. CASE ClearMute(s)
    BY <2>11 DEF ClearMute, Policy!TypeOK, Policy!Members, Policy!NoRow
  <2>12. QED
    BY <1>3, <2>1, <2>2, <2>3, <2>4, <2>5, <2>6, <2>7, <2>8, <2>9, <2>10, <2>11 DEF Writes
<1>4. ASSUME NEW m \in User, MuteRunsOut(m)
      PROVE  Policy!TypeOK'
  BY <1>4 DEF MuteRunsOut, Policy!TypeOK, Policy!Members, Policy!NoRow
<1>5. QED
  BY <1>1, <1>2, <1>3, <1>4, NextCases, ReadsKeepRows

LEMMA ReadsNotIdle == \A s \in Session : Reads(s) => h[s].pc # "idle"
BY DEF Reads, RequireRole, ReadTarget, AddReadsGroup, AddReadsMembers, AddReadsBans,
       LeaveReadsGroup, PickNextOwner, CheckMuted, Fail

LEMMA StatusForward == Next /\ status' = "none" => status = "none"
BY NextCases, ReadsKeepRows
   DEF Writes, CreateGroup, Policy!Create, MuteRunsOut, rows, WriteAdd, WriteRemove,
       WriteBan, WriteUnban, WriteRole, WriteMute, WriteDelete, WriteLeave,
       WriteTransfer, WriteLast, ClearMute

LEMMA UnbornStep ==
    ASSUME BaseInv, Next
    PROVE  Unborn'
<1> SUFFICES ASSUME status' = "none"
             PROVE  Members' = {} /\ \A s \in Session : h'[s].pc = "idle"
  BY DEF Unborn
<1>1. status = "none" /\ Members = {} /\ \A s \in Session : h[s].pc = "idle"
  BY StatusForward DEF BaseInv, Unborn
<1>2. \A s \in Session, u \in User : ~Opens(s, u)
  BY <1>1 DEF Opens, RequireGroup, LeaveReadsRow, PostReadsRow, Members, Policy!Members,
              NoRow, Policy!NoRow
<1>3. \A s \in Session : ~Reads(s) /\ ~Writes(s)
  BY <1>1, ReadsNotIdle, WritesReturn
<1>4. \A s \in Session, u \in User, ids \in SUBSET User : ~CreateGroup(s, u, ids)
  BY DEF CreateGroup, Policy!Create
<1>5. PICK m \in User : MuteRunsOut(m)
  BY <1>2, <1>3, <1>4, NextCases
<1>6. QED
  BY <1>1, <1>5 DEF MuteRunsOut, Members, Policy!Members

LEMMA BaseInit == Init => BaseInv
BY IdleType DEF Init, BaseInv, TypeOK, Unborn, Policy!Init, Policy!TypeOK, Policy!Role,
                Policy!NoRow, Members, Policy!Members, Idle

LEMMA BaseStep == BaseInv /\ [Next]_vars => BaseInv'
<1>1. ASSUME BaseInv, UNCHANGED vars PROVE BaseInv'
  BY <1>1 DEF vars, BaseInv, TypeOK, Unborn, Policy!TypeOK, Policy!Members, Members
<1>2. ASSUME BaseInv, Next PROVE BaseInv'
  BY <1>2, HandlerTypeStep, RowTypeStep, UnbornStep DEF BaseInv, TypeOK
<1>3. QED
  BY <1>1, <1>2

(* Rows and handler records are typed in every reachable state, and the rows  *)
(* carry no mute and no joining order for a user who is not a member.         *)
THEOREM TypeCorrect == Spec => []TypeOK
<1>1. BaseInv => TypeOK
  BY DEF BaseInv
<1>2. QED
  BY BaseInit, BaseStep, <1>1, PTL DEF Spec

-----------------------------------------------------------------------------
NewMember(u) ==
    \/ status = "none"
    \/ /\ role'[u] = "MEMBER"
       /\ \E s \in Session : At(s, "add", "write") /\ u \in h[s].ids

LEMMA NoResurrectionStep ==
    ASSUME BaseInv, Next, NEW u \in User, role[u] = NoRow, role'[u] # NoRow
    PROVE  NewMember(u)
<1> USE DEF BaseInv, TypeOK, Policy!TypeOK
<1>1. ASSUME NEW s \in Session, Writes(s)
      PROVE  NewMember(u)
  <2>1. CASE WriteAdd(s)
    BY <2>1 DEF WriteAdd, NewMember
  <2>2. CASE WriteRemove(s) \/ WriteBan(s) \/ WriteLeave(s) \/ WriteLast(s)
    <3>1. role' = role \/ \E m \in User : role' = [role EXCEPT ![m] = NoRow]
      BY <2>2 DEF WriteRemove, WriteBan, WriteLeave, WriteLast, Policy!DropRow, Members,
                  Policy!Members, NoRow
    <3>2. QED
      BY <3>1
  <2>3. CASE WriteRole(s)
    BY <2>3 DEF WriteRole, Members, Policy!Members, NoRow
  <2>4. CASE WriteTransfer(s)
    <3>1. \/ role' = role
          \/ /\ role' = [role EXCEPT ![h[s].next] = "OWNER", ![h[s].user] = NoRow]
             /\ h[s].next \in Members
      BY <2>4 DEF WriteTransfer
    <3>2. h[s].next \in Members => role[h[s].next] # NoRow
      BY DEF Members, Policy!Members, NoRow
    <3>3. QED
      BY <3>1, <3>2
  <2>5. CASE WriteUnban(s) \/ WriteMute(s) \/ WriteDelete(s) \/ ClearMute(s)
    BY <2>5 DEF WriteUnban, WriteMute, WriteDelete, ClearMute
  <2>6. QED
    BY <1>1, <2>1, <2>2, <2>3, <2>4, <2>5 DEF Writes
<1>2. ASSUME NEW s \in Session, NEW v \in User, NEW ids \in SUBSET User, CreateGroup(s, v, ids)
      PROVE  NewMember(u)
  BY <1>2 DEF CreateGroup, Policy!Create, NewMember
<1>3. QED
  BY <1>1, <1>2, NextCases, ReadsKeepRows DEF rows, MuteRunsOut

(* However handlers overlap, a stale update, role change or handover never    *)
(* re-creates a deleted row; only addMembers does, as a plain MEMBER.         *)
THEOREM RemovedStaysRemoved == Spec => NoResurrection
<1>1. BaseInv /\ [Next]_vars =>
         [\A u \in User : role[u] = NoRow /\ role'[u] # NoRow => NewMember(u)]_vars
  BY NoResurrectionStep
<1>2. QED
  BY BaseInit, BaseStep, <1>1, PTL DEF Spec, NoResurrection, NewMember

-----------------------------------------------------------------------------
(* u is OWNER, or may still hand the group over because he was when he read. *)
Claim(u) == role[u] = "OWNER" \/ \E s \in Session : Leaving(s) /\ h[s].user = u

OneClaim == \A u, v \in User : Claim(u) /\ Claim(v) => u = v

(* Only a handler that read OWNER looks for a successor. *)
HandoverRead ==
    \A s \in Session : h[s].pc \in {"leaveNext", "transfer", "last"} => h[s].actorRole = "OWNER"

OwnerInv == BaseInv /\ HandoverRead /\ ("leaves" \notin met => OneClaim /\ OneLeave)

(* What a read does to the record of its handler, and to no other record. *)
LEMMA ReadsEffect ==
    ASSUME TypeOK, NEW s \in Session, Reads(s)
    PROVE  /\ \A t \in Session \ {s} : h'[t] = h[t]
           /\ h[s].pc # "idle"
           /\ \/ h'[s] = Idle
              \/ /\ h'[s].user = h[s].user
                 /\ \/ h'[s].pc \in {"write", "converse", "target", "members", "bans", "clear"}
                    \/ /\ h'[s].actorRole = h[s].actorRole
                       /\ \/ /\ h[s].pc = "leaveConverse" /\ h'[s].pc = "leaveNext"
                             /\ h[s].actorRole = "OWNER"
                          \/ h[s].pc = "leaveNext" /\ h'[s].pc \in {"transfer", "last"}
<1> USE DEF TypeOK, Return, Goto
<1>1. CASE RequireRole(s)
  <2>1. AfterRole(h[s].op) \in {"write", "converse", "target"}
    BY DEF AfterRole
  <2>2. CASE role[h[s].user] \in Allowed(h[s].op)
    <3>1. h' = [h EXCEPT ![s] = [h[s] EXCEPT !.pc = AfterRole(h[s].op),
                                             !.actorRole = role[h[s].user]]]
      BY <1>1, <2>2 DEF RequireRole
    <3>2. h'[s].pc = AfterRole(h[s].op) /\ h'[s].user = h[s].user
      BY <3>1 DEF Handler
    <3>3. QED
      BY <1>1, <2>1, <3>1, <3>2 DEF RequireRole
  <2>3. CASE role[h[s].user] \notin Allowed(h[s].op)
    BY <1>1, <2>3 DEF RequireRole
  <2>4. QED
    BY <2>2, <2>3
<1>2. CASE PickNextOwner(s)
  <2>1. CASE Members \ {h[s].user} = {}
    <3>1. h' = [h EXCEPT ![s].pc = "last"] /\ h[s].pc = "leaveNext"
      BY <1>2, <2>1 DEF PickNextOwner
    <3>2. QED
      BY <3>1 DEF Handler
  <2>2. CASE Members \ {h[s].user} # {}
    <3>1. PICK n : h' = [h EXCEPT ![s].next = n, ![s].pc = "transfer"]
      BY <1>2, <2>2 DEF PickNextOwner
    <3>2. h' = [h EXCEPT ![s] = [h[s] EXCEPT !.next = n, !.pc = "transfer"]]
      BY <3>1
    <3>3. h'[s] = [h[s] EXCEPT !.next = n, !.pc = "transfer"] /\ h[s] \in Handler
      BY <3>2
    <3>4. /\ h'[s].pc = "transfer" /\ h'[s].user = h[s].user
          /\ h'[s].actorRole = h[s].actorRole
      BY <3>3 DEF Handler
    <3>5. QED
      BY <1>2, <3>2, <3>4 DEF PickNextOwner
  <2>3. QED
    BY <2>1, <2>2
<1>3. CASE LeaveReadsGroup(s)
  BY <1>3 DEF LeaveReadsGroup, Handler
<1>4. CASE AddReadsMembers(s)
  BY <1>4 DEF AddReadsMembers, Handler
<1>5. CASE ReadTarget(s) \/ AddReadsGroup(s) \/ AddReadsBans(s) \/ CheckMuted(s) \/ Fail(s)
  BY <1>5 DEF ReadTarget, AddReadsGroup, AddReadsBans, CheckMuted, Fail, Handler
<1>6. QED
  BY <1>1, <1>2, <1>3, <1>4, <1>5 DEF Reads

(* A handler opens on behalf of an account of its session. *)
LEMMA OpensEffect ==
    ASSUME TypeOK, NEW s \in Session, NEW u \in User, Opens(s, u)
    PROVE  /\ \A t \in Session \ {s} : h'[t] = h[t]
           /\ h'[s].user = u /\ u \in Acts[s]
           /\ \/ h'[s].pc \in {"actor", "muted"}
              \/ h'[s].pc = "leaveConverse" /\ h'[s].actorRole = role[u]
<1> USE DEF TypeOK, Open, Admits, Idle
<1>1. CASE \E op \in Ops : \E ids \in Inputs(u, op) : RequireGroup(s, u, op, ids)
  BY <1>1 DEF RequireGroup
<1>2. CASE LeaveReadsRow(s, u)
  BY <1>2 DEF LeaveReadsRow
<1>3. CASE PostReadsRow(s, u)
  BY <1>3 DEF PostReadsRow
<1>4. QED
  BY <1>1, <1>2, <1>3 DEF Opens

LEMMA HandoverStep ==
    ASSUME OwnerInv, Next
    PROVE  HandoverRead'
<1> USE DEF OwnerInv, BaseInv, TypeOK, HandoverRead, Idle
<1>1. ASSUME NEW s \in Session, Reads(s) PROVE HandoverRead'
  <2>1. ASSUME NEW t \in Session
        PROVE  h'[t].pc \in {"leaveNext", "transfer", "last"} => h'[t].actorRole = "OWNER"
    <3>1. CASE t # s
      BY <1>1, <3>1, ReadsEffect
    <3>2. CASE t = s
      BY <1>1, <3>2, ReadsEffect
    <3>3. QED
      BY <3>1, <3>2
  <2>2. QED
    BY <2>1
<1>2. ASSUME NEW s \in Session, NEW u \in User, Opens(s, u) PROVE HandoverRead'
  <2>1. ASSUME NEW t \in Session
        PROVE  h'[t].pc \in {"leaveNext", "transfer", "last"} => h'[t].actorRole = "OWNER"
    <3>1. CASE t # s
      BY <1>2, <3>1, OpensEffect
    <3>2. CASE t = s
      BY <1>2, <3>2, OpensEffect
    <3>3. QED
      BY <3>1, <3>2
  <2>2. QED
    BY <2>1
<1>3. ASSUME NEW s \in Session, Writes(s) PROVE HandoverRead'
  BY <1>3, WritesReturn DEF Return
<1>5. ASSUME UNCHANGED h PROVE HandoverRead'
  BY <1>5
<1>4. QED
  BY NextCases, <1>1, <1>2, <1>3, <1>5 DEF CreateGroup, MuteRunsOut

(* Steps that give nobody a claim he had not. *)
LEMMA ClaimsShrink ==
    ASSUME OneClaim, \A u \in User : Claim(u)' => Claim(u)
    PROVE  OneClaim'
BY DEF OneClaim

LEMMA OneClaimStep ==
    ASSUME OwnerInv, OneClaim, OneLeave, Next
    PROVE  OneClaim'
<1> USE DEF OwnerInv, BaseInv, TypeOK
<1>1. ASSUME NEW s \in Session, NEW u \in User, Opens(s, u)
      PROVE  OneClaim'
  <2>1. role' = role /\ \A t \in Session \ {s} : h'[t] = h[t]
    BY <1>1, ReadsKeepRows
       DEF rows, Opens, RequireGroup, LeaveReadsRow, PostReadsRow, Open
  <2>2. Leaving(s)' => h'[s].user = u /\ role[u] = "OWNER"
    BY <1>1 DEF Leaving, Opens, RequireGroup, LeaveReadsRow, PostReadsRow, Open, Idle,
                NoRow, Policy!NoRow
  <2>3. \A v \in User : Claim(v)' => Claim(v)
    BY <2>1, <2>2 DEF Claim, Leaving
  <2>4. QED
    BY <2>3, ClaimsShrink
<1>2. ASSUME NEW s \in Session, Reads(s)
      PROVE  OneClaim'
  <2>1. role' = role /\ \A t \in Session \ {s} : h'[t] = h[t]
    BY <1>2, ReadsKeepRows, ReadsEffect DEF rows
  <2>2. Leaving(s)' => Leaving(s) /\ h'[s].user = h[s].user
    BY <1>2, ReadsEffect DEF Leaving, Idle, NoRow, Policy!NoRow
  <2>3. QED
    BY <2>1, <2>2, ClaimsShrink DEF Claim, Leaving
<1>3. ASSUME NEW s \in Session, Writes(s)
      PROVE  OneClaim'
  <2>1. ~Leaving(s)' /\ \A t \in Session \ {s} : h'[t] = h[t]
    BY <1>3, WritesReturn DEF Return, Idle, Leaving, NoRow, Policy!NoRow
  <2>2. ASSUME \A v \in User : role'[v] = "OWNER" => role[v] = "OWNER"
        PROVE  OneClaim'
    BY <2>1, <2>2, ClaimsShrink DEF Claim, Leaving
  <2>3. CASE WriteTransfer(s) /\ {h[s].user, h[s].next} \subseteq Members
    <3> DEFINE u == h[s].user
               n == h[s].next
    <3>1. u \in User /\ n \in User /\ Policy!TypeOK
      BY <2>3 DEF Members, Policy!Members
    <3>2. role' = [role EXCEPT ![n] = "OWNER", ![u] = NoRow]
      BY <2>3 DEF WriteTransfer
    <3>3. \A v \in User : role'[v] = "OWNER" => (v = n \/ role[v] = "OWNER") /\ v # u
      BY <3>1, <3>2 DEF Policy!TypeOK, NoRow, Policy!NoRow
    <3>4. Leaving(s) /\ Claim(u)
      BY <2>3 DEF WriteTransfer, Leaving, HandoverRead, Claim
    <3>5. \A v \in User : Claim(v) => v = u
      BY <3>1, <3>4 DEF OneClaim
    <3>6. \A t \in Session \ {s} : Leaving(t) => h[t].user \notin User
      <4>1. SUFFICES ASSUME NEW t \in Session \ {s}, Leaving(t), h[t].user \in User
                     PROVE  FALSE
        OBVIOUS
      <4>2. h[t].user = u
        BY <4>1, <3>5 DEF Claim
      <4>3. QED
        BY <3>4, <4>1, <4>2 DEF OneLeave
    <3>7. \A v \in User : Claim(v)' => v = n
      BY <2>1, <3>3, <3>5, <3>6 DEF Claim, Leaving
    <3>8. QED
      BY <3>7 DEF OneClaim
  <2>4. CASE WriteTransfer(s) /\ ~({h[s].user, h[s].next} \subseteq Members)
    BY <2>2, <2>4 DEF WriteTransfer
  <2>5. CASE WriteAdd(s) \/ WriteRole(s)
    BY <2>2, <2>5 DEF WriteAdd, WriteRole, Policy!TypeOK
  <2>6. CASE WriteRemove(s) \/ WriteBan(s) \/ WriteLeave(s) \/ WriteLast(s)
    <3>1. role' = role \/ \E m \in User : role' = [role EXCEPT ![m] = NoRow]
      BY <2>6 DEF WriteRemove, WriteBan, WriteLeave, WriteLast, Policy!DropRow, Members,
                  Policy!Members, NoRow
    <3>2. QED
      BY <2>2, <3>1 DEF Policy!TypeOK, NoRow, Policy!NoRow
  <2>7. CASE WriteUnban(s) \/ WriteMute(s) \/ WriteDelete(s) \/ ClearMute(s)
    BY <2>2, <2>7 DEF WriteUnban, WriteMute, WriteDelete, ClearMute
  <2>8. QED
    BY <1>3, <2>3, <2>4, <2>5, <2>6, <2>7 DEF Writes
<1>4. ASSUME NEW s \in Session, NEW u \in User, NEW ids \in SUBSET User, CreateGroup(s, u, ids)
      PROVE  OneClaim'
  <2>1. \A t \in Session : ~Leaving(t)'
    BY <1>4 DEF Unborn, CreateGroup, Policy!Create, Leaving
  <2>2. \A v \in User : role'[v] = "OWNER" => v = u
    BY <1>4 DEF CreateGroup, Policy!Create, Policy!NoRow
  <2>3. QED
    BY <2>1, <2>2 DEF OneClaim, Claim
<1>5. ASSUME NEW m \in User, MuteRunsOut(m)
      PROVE  OneClaim'
  BY <1>5, ClaimsShrink DEF MuteRunsOut, Claim, Leaving
<1>6. QED
  BY NextCases, <1>1, <1>2, <1>3, <1>4, <1>5

LEMMA OwnerInit == MCInit => OwnerInv
<1> SUFFICES ASSUME MCInit PROVE OwnerInv
  OBVIOUS
<1>1. \A u \in User : ~Claim(u)
  BY DEF MCInit, Init, Policy!Init, Claim, Leaving, Idle, Policy!NoRow
<1>2. HandoverRead /\ OneLeave
  BY DEF MCInit, Init, HandoverRead, OneLeave, Leaving, Idle
<1>3. QED
  BY <1>1, <1>2, BaseInit DEF MCInit, OwnerInv, OneClaim

LEMMA OwnerStep == OwnerInv /\ [MCNext]_mcvars => OwnerInv'
<1>1. ASSUME OwnerInv, UNCHANGED mcvars PROVE OwnerInv'
  <2>1. BaseInv'
    BY <1>1, BaseStep DEF OwnerInv, mcvars
  <2>2. QED
    BY <1>1, <2>1
       DEF mcvars, vars, rows, OwnerInv, OneClaim, Claim, Leaving, HandoverRead, OneLeave
<1>2. ASSUME OwnerInv, MCNext PROVE OwnerInv'
  <2>1. BaseInv' /\ HandoverRead'
    BY <1>2, BaseStep, HandoverStep DEF OwnerInv, MCNext
  <2>2. ASSUME "leaves" \notin met' PROVE OneClaim' /\ OneLeave'
    <3>1. OneLeave' /\ "leaves" \notin met
      BY <1>2, <2>2 DEF MCNext
    <3>2. OneClaim'
      BY <1>2, <3>1, OneClaimStep DEF OwnerInv, MCNext
    <3>3. QED
      BY <3>1, <3>2
  <2>3. QED
    BY <2>1, <2>2 DEF OwnerInv
<1>3. QED
  BY <1>1, <1>2

(* As long as no account has left twice at once, as OWNER both times, two     *)
(* members are never OWNER together: for every number of accounts, devices    *)
(* and handlers, of different accounts or of one, however they overlap.       *)
THEOREM OwnersNeverTwo == MCSpec => []NeverTwoOwners
<1>1. OwnerInv => NeverTwoOwners
  BY DEF OwnerInv, OneClaim, Claim, NeverTwoOwners, AtMostOneOwner, Policy!Owners
<1>2. QED
  BY OwnerInit, OwnerStep, <1>1, PTL DEF MCSpec

-----------------------------------------------------------------------------
(* Handlers never overlap. *)
OneHandler == \A s, t \in Session : s = t

MemberOps == {"remove", "role", "mute", "unmute", "ban", "unban"}
GuardedOps == {"remove", "mute", "ban"}

(* What the code before a control point fixes about the request. *)
Request(s) ==
    /\ h[s].pc # "idle" => h[s].user \in User
    /\ h[s].pc = "actor" => h[s].op \in MemberOps \cup {"add", "delete"}
    /\ h[s].pc = "target" => h[s].op \in MemberOps
    /\ h[s].pc \in {"converse", "members", "bans"} => h[s].op = "add"
    /\ h[s].pc \in {"leaveConverse", "leaveNext", "transfer", "last"} => h[s].op = "leave"
    /\ h[s].op \in MemberOps =>
          \E m \in User : h[s].ids = {m} /\ (h[s].op \notin {"unmute", "unban"} => m # h[s].user)

(* The caller's role, as read by requireGroupRole, is still his role. *)
Authorised(s) ==
    /\ status = "live"
    /\ h[s].actorRole = role[h[s].user]
    /\ h[s].actorRole \in Allowed(h[s].op)

(* What handler s has read still holds when it writes. *)
Fresh(s) ==
    /\ h[s].pc = "actor" => status = "live"
    /\ h[s].pc \in {"target", "converse", "members", "bans"} => Authorised(s)
    /\ h[s].pc = "write" /\ h[s].op # "leave" => Authorised(s)
    /\ h[s].pc = "write" /\ h[s].op \in MemberOps => TargetAccepted(s)
    /\ h[s].pc = "bans" \/ At(s, "add", "write") =>
          /\ h[s].ids # {} /\ h[s].ids \cap Members = {}
          /\ Cardinality(Members) + Cardinality(h[s].ids) <= MaxMembers
    /\ At(s, "add", "write") => h[s].ids \cap bans = {}
    /\ h[s].pc = "leaveConverse" => role[h[s].user] = h[s].actorRole /\ h[s].actorRole # NoRow
    /\ h[s].pc \in {"leaveNext", "transfer", "last"} => status = "live" /\ role[h[s].user] = "OWNER"
    /\ At(s, "leave", "write") => status = "live" /\ role[h[s].user] \in {"ADMIN", "MEMBER"}
    /\ h[s].pc = "transfer" => h[s].next \in Policy!Earliest(Members \ {h[s].user})
    /\ h[s].pc = "last" => Members = {h[s].user}
    /\ h[s].pc = "clear" => mute[h[s].user] = "over"

SerialInv == BaseInv /\ \A s \in Session : Request(s) /\ Fresh(s)

LEMMA IdleFacts ==
    ASSUME NEW s \in Session, h[s] = Idle
    PROVE  Request(s) /\ Fresh(s)
BY DEF Idle, Request, Fresh, At, MemberOps

LEMMA OpensFacts ==
    ASSUME BaseInv, NEW s \in Session, NEW u \in User, Opens(s, u)
    PROVE  (Request(s) /\ Fresh(s))'
<1> USE DEF BaseInv, TypeOK
<1>1. UNCHANGED rows
  BY ReadsKeepRows
<1>2. ASSUME NEW op \in Ops, NEW ids \in Inputs(u, op), RequireGroup(s, u, op, ids)
      PROVE  (Request(s) /\ Fresh(s))'
  <2>1. h'[s] = [Idle EXCEPT !.op = op, !.pc = "actor", !.user = u, !.ids = ids]
    BY <1>2 DEF RequireGroup, Open
  <2>2. op \in MemberOps \cup {"add", "delete"} /\ status' = "live"
    BY <1>1, <1>2, OpsAssumption DEF RequireGroup, AllOps, MemberOps, rows
  <2>3. op \in MemberOps => \E m \in User : ids = {m} /\ (op \notin {"unmute", "unban"} => m # u)
    BY DEF MemberOps, Inputs
  <2>4. Request(s)'
    BY <2>1, <2>2, <2>3 DEF Request, Idle
  <2>5. Fresh(s)'
    BY <2>1, <2>2 DEF Fresh, At, Idle
  <2>6. QED
    BY <2>4, <2>5
<1>3. CASE LeaveReadsRow(s, u)
  <2>1. h'[s] = [Idle EXCEPT !.op = "leave", !.pc = "leaveConverse", !.user = u,
                             !.actorRole = role[u]]
    BY <1>3 DEF LeaveReadsRow
  <2>2. QED
    BY <1>1, <1>3, <2>1 DEF Request, Fresh, At, Idle, LeaveReadsRow, rows, MemberOps
<1>4. CASE PostReadsRow(s, u)
  <2>1. h'[s] = [Idle EXCEPT !.op = "post", !.pc = "muted", !.user = u, !.ids = {}]
    BY <1>4 DEF PostReadsRow, Open
  <2>2. QED
    BY <2>1 DEF Request, Fresh, At, Idle, MemberOps
<1>5. QED
  BY <1>2, <1>3, <1>4 DEF Opens

LEMMA ReadsFacts ==
    ASSUME BaseInv, NEW s \in Session, Request(s), Fresh(s), Reads(s)
    PROVE  (Request(s) /\ Fresh(s))'
<1> USE DEF BaseInv, TypeOK
<1>1. UNCHANGED rows /\ Members' = Members
  BY ReadsKeepRows DEF rows, Members, Policy!Members
<1>2. ASSUME Return(s) PROVE (Request(s) /\ Fresh(s))'
  <2>1. h'[s] = Idle
    BY <1>2 DEF Return
  <2>2. QED
    BY <2>1 DEF Idle, Request, Fresh, At, MemberOps
<1>3. ASSUME NEW pc, Goto(s, pc)
      PROVE  h'[s] = [h[s] EXCEPT !.pc = pc]
  BY <1>3 DEF Goto
<1>4. CASE RequireRole(s)
  <2>1. CASE role[h[s].user] \in Allowed(h[s].op)
    <3>1. h'[s] = [h[s] EXCEPT !.pc = AfterRole(h[s].op), !.actorRole = role[h[s].user]]
      BY <1>4, <2>1 DEF RequireRole
    <3>2. h'[s].pc = AfterRole(h[s].op) /\ h'[s].actorRole = role[h[s].user]
          /\ h'[s].op = h[s].op /\ h'[s].user = h[s].user /\ h'[s].ids = h[s].ids
      BY <3>1 DEF Handler
    <3>3. status' = "live" /\ h[s].op \in MemberOps \cup {"add", "delete"} /\ h[s].user \in User
      BY <1>1, <1>4 DEF RequireRole, Request, Fresh, rows
    <3>4. \/ h[s].op = "delete" /\ h'[s].pc = "write"
          \/ h[s].op = "add" /\ h'[s].pc = "converse"
          \/ h[s].op \in MemberOps /\ h'[s].pc = "target"
      BY <3>2, <3>3 DEF AfterRole, MemberOps
    <3>5. Request(s)'
      BY <3>2, <3>3, <3>4 DEF Request, MemberOps
    <3>6. Authorised(s)'
      BY <1>1, <2>1, <3>2, <3>3 DEF Authorised, rows
    <3>7. Fresh(s)'
      BY <3>4, <3>2, <3>6 DEF Fresh, At, MemberOps
    <3>8. QED
      BY <3>5, <3>7
  <2>2. CASE role[h[s].user] \notin Allowed(h[s].op)
    BY <1>2, <1>4, <2>2 DEF RequireRole
  <2>3. QED
    BY <2>1, <2>2
<1>5. CASE ReadTarget(s)
  <2>1. CASE TargetAccepted(s)
    <3>1. h'[s] = [h[s] EXCEPT !.pc = "write"]
      BY <1>3, <1>5, <2>1 DEF ReadTarget
    <3>2. h[s].op \in MemberOps /\ Authorised(s)
      BY <1>5 DEF ReadTarget, Request, Fresh
    <3>3. Request(s)'
      <4>1. /\ h'[s].pc = "write" /\ h'[s].op = h[s].op
            /\ h'[s].user = h[s].user /\ h'[s].ids = h[s].ids
        BY <3>1 DEF Handler
      <4>2. h[s].pc = "target"
        BY <1>5 DEF ReadTarget
      <4>3. QED
        BY <4>1, <4>2 DEF Request
    <3>4. Authorised(s)' /\ TargetAccepted(s)'
      BY <1>1, <2>1, <3>1, <3>2 DEF Authorised, TargetAccepted, Handler, rows
    <3>5. Fresh(s)'
      BY <3>1, <3>2, <3>4 DEF Fresh, At, Handler, MemberOps
    <3>6. QED
      BY <3>3, <3>5
  <2>2. CASE ~TargetAccepted(s)
    BY <1>2, <1>5, <2>2 DEF ReadTarget
  <2>3. QED
    BY <2>1, <2>2
<1>6. CASE AddReadsGroup(s)
  <2>1. CASE status = "live"
    <3>1. h'[s] = [h[s] EXCEPT !.pc = "members"] /\ h[s].pc = "converse"
      BY <1>3, <1>6, <2>1 DEF AddReadsGroup
    <3>2. QED
      BY <1>1, <3>1 DEF Request, Fresh, Authorised, At, Handler, rows, MemberOps
  <2>2. CASE status # "live"
    BY <1>2, <1>6, <2>2 DEF AddReadsGroup
  <2>3. QED
    BY <2>1, <2>2
<1>7. CASE AddReadsMembers(s)
  <2> DEFINE new == h[s].ids \ Members
  <2>1. CASE new # {} /\ ~(Cardinality(Members) + Cardinality(new) > MaxMembers)
    <3>1. h'[s] = [h[s] EXCEPT !.ids = new, !.pc = "bans"] /\ h[s].pc = "members"
      BY <1>7, <2>1 DEF AddReadsMembers
    <3>2. h'[s].ids = new /\ h'[s].pc = "bans" /\ h'[s].op = "add" /\ h'[s].user = h[s].user
          /\ h'[s].actorRole = h[s].actorRole /\ h[s].op = "add"
      BY <3>1 DEF Handler, Request
    <3>3. Cardinality(Members) + Cardinality(new) <= MaxMembers
      <4>1. new \in SUBSET User
        BY DEF Handler
      <4>2. IsFiniteSet(new) /\ IsFiniteSet(Members)
        BY <4>1, UserAssumption, FS_Subset DEF Members, Policy!Members
      <4>3. Cardinality(Members) \in Nat /\ Cardinality(new) \in Nat
        BY <4>2, FS_CardinalityType
      <4>4. QED
        BY <2>1, <4>3, MaxMembersAssumption
    <3>4. Request(s)'
      <4>1. h[s].user \in User
        BY <3>1 DEF Request
      <4>2. QED
        BY <3>2, <4>1 DEF Request, MemberOps
    <3>5. Authorised(s)'
      BY <1>1, <3>1, <3>2 DEF Authorised, Fresh, rows
    <3>6. Fresh(s)'
      BY <1>1, <2>1, <3>2, <3>3, <3>5 DEF Fresh, At, MemberOps
    <3>7. QED
      BY <3>4, <3>6
  <2>2. CASE ~(new # {} /\ ~(Cardinality(Members) + Cardinality(new) > MaxMembers))
    BY <1>2, <1>7, <2>2 DEF AddReadsMembers
  <2>3. QED
    BY <2>1, <2>2
<1>8. CASE AddReadsBans(s)
  <2>1. CASE h[s].ids \cap bans = {}
    <3>1. h'[s] = [h[s] EXCEPT !.pc = "write"] /\ h[s].pc = "bans" /\ h[s].op = "add"
      BY <1>3, <1>8, <2>1 DEF AddReadsBans, Request
    <3>2. QED
      BY <1>1, <2>1, <3>1 DEF Request, Fresh, Authorised, At, Handler, rows, MemberOps
  <2>2. CASE h[s].ids \cap bans # {}
    BY <1>2, <1>8, <2>2 DEF AddReadsBans
  <2>3. QED
    BY <2>1, <2>2
<1>9. CASE LeaveReadsGroup(s)
  <2>1. CASE status = "live"
    <3>1. PICK pc : /\ h'[s] = [h[s] EXCEPT !.pc = pc]
                    /\ pc = IF h[s].actorRole = "OWNER" THEN "leaveNext" ELSE "write"
      BY <1>3, <1>9, <2>1 DEF LeaveReadsGroup
    <3>2. h[s].pc = "leaveConverse" /\ h[s].op = "leave" /\ h[s].user \in User
          /\ h[s].actorRole = role[h[s].user] /\ h[s].actorRole # NoRow
      BY <1>9 DEF LeaveReadsGroup, Request, Fresh
    <3>3. role[h[s].user] \in Policy!Role
      BY <3>2 DEF Policy!TypeOK, NoRow
    <3>4. QED
      BY <1>1, <2>1, <3>1, <3>2, <3>3
         DEF Request, Fresh, At, Handler, rows, MemberOps, Policy!Role
  <2>2. CASE status # "live"
    BY <1>2, <1>9, <2>2 DEF LeaveReadsGroup
  <2>3. QED
    BY <2>1, <2>2
<1>10. CASE PickNextOwner(s)
  <2>0. h[s].pc = "leaveNext" /\ h[s].op = "leave" /\ h[s].user \in User
        /\ status = "live" /\ role[h[s].user] = "OWNER"
    BY <1>10 DEF PickNextOwner, Request, Fresh
  <2>1. CASE Members \ {h[s].user} = {}
    <3>1. h'[s] = [h[s] EXCEPT !.pc = "last"]
      BY <1>3, <1>10, <2>1 DEF PickNextOwner
    <3>2. Members = {h[s].user}
      BY <2>0, <2>1 DEF Members, Policy!Members, Policy!NoRow
    <3>3. QED
      BY <1>1, <2>0, <3>1, <3>2 DEF Request, Fresh, At, Handler, rows, MemberOps
  <2>2. CASE Members \ {h[s].user} # {}
    <3>1. PICK n \in Policy!Earliest(Members \ {h[s].user}) :
             h' = [h EXCEPT ![s].next = n, ![s].pc = "transfer"]
      BY <1>10, <2>2 DEF PickNextOwner
    <3>2. h'[s] = [h[s] EXCEPT !.next = n, !.pc = "transfer"]
      BY <3>1
    <3>3. h'[s].pc = "transfer" /\ h'[s].next = n /\ h'[s].user = h[s].user
          /\ h'[s].op = h[s].op
      BY <3>2 DEF Handler
    <3>4. n \in Policy!Earliest(Members \ {h[s].user})'
      BY <1>1, <3>1, <3>3 DEF Policy!Earliest, rows
    <3>5. QED
      BY <1>1, <2>0, <3>3, <3>4 DEF Request, Fresh, At, rows, MemberOps
  <2>3. QED
    BY <2>1, <2>2
<1>11. CASE CheckMuted(s)
  <2>1. CASE mute[h[s].user] = "over"
    <3>1. h'[s] = [h[s] EXCEPT !.pc = "clear"] /\ h[s].pc = "muted"
      BY <1>3, <1>11, <2>1 DEF CheckMuted
    <3>2. QED
      BY <1>1, <2>1, <3>1 DEF Request, Fresh, At, Handler, rows
  <2>2. CASE mute[h[s].user] # "over"
    BY <1>2, <1>11, <2>2 DEF CheckMuted
  <2>3. QED
    BY <2>1, <2>2
<1>12. CASE Fail(s)
  BY <1>2, <1>12 DEF Fail
<1>13. QED
  BY <1>4, <1>5, <1>6, <1>7, <1>8, <1>9, <1>10, <1>11, <1>12 DEF Reads

LEMMA SerialInit == Init => SerialInv
BY BaseInit, IdleFacts DEF Init, SerialInv

LEMMA SerialStep == OneHandler /\ SerialInv /\ [Next]_vars => SerialInv'
<1> SUFFICES ASSUME OneHandler, SerialInv, [Next]_vars
             PROVE  SerialInv'
  OBVIOUS
<1>0. BaseInv /\ BaseInv'
  BY BaseStep DEF SerialInv
<1>1. ASSUME NEW s \in Session, (Request(s) /\ Fresh(s))' PROVE SerialInv'
  <2>1. \A t \in Session : t = s
    BY DEF OneHandler
  <2>2. ASSUME NEW t \in Session PROVE (Request(t) /\ Fresh(t))'
    <3>1. t = s
      BY <2>1
    <3>2. QED
      BY <1>1, <3>1
  <2>3. QED
    BY <1>0, <2>2 DEF SerialInv
<1>2. ASSUME NEW s \in Session, NEW u \in User, Opens(s, u) PROVE SerialInv'
  BY <1>0, <1>1, <1>2, OpensFacts
<1>3. ASSUME NEW s \in Session, Reads(s) PROVE SerialInv'
  BY <1>0, <1>1, <1>3, ReadsFacts DEF SerialInv
<1>4. ASSUME NEW s \in Session, Writes(s) PROVE SerialInv'
  <2>1. h'[s] = Idle
    BY <1>0, <1>4, WritesReturn DEF Return, BaseInv, TypeOK
  <2>2. (Request(s) /\ Fresh(s))'
    BY <2>1 DEF Idle, Request, Fresh, At, MemberOps
  <2>3. QED
    BY <1>1, <2>2
<1>5. ASSUME NEW s \in Session, NEW u \in User, NEW ids \in SUBSET User, CreateGroup(s, u, ids)
      PROVE  SerialInv'
  <2>1. h' = h /\ \A t \in Session : h[t].pc = "idle"
    BY <1>0, <1>5 DEF CreateGroup, Policy!Create, BaseInv, Unborn
  <2>2. ASSUME NEW t \in Session PROVE (Request(t) /\ Fresh(t))'
    BY <2>1 DEF Request, Fresh, At, SerialInv
  <2>3. QED
    BY <1>0, <2>2 DEF SerialInv
<1>6. ASSUME NEW m \in User, MuteRunsOut(m)
      PROVE  SerialInv'
  <2>1. ASSUME NEW t \in Session PROVE (Request(t) /\ Fresh(t))'
    <3>1. Members' = Members /\ h' = h /\ status' = status /\ role' = role
          /\ before' = before /\ bans' = bans
      BY <1>6 DEF MuteRunsOut, Members, Policy!Members
    <3>2. mute[h[t].user] = "over" => mute'[h[t].user] = "over"
      BY <1>0, <1>6 DEF MuteRunsOut, BaseInv, TypeOK, Policy!TypeOK
    <3>3. \A S : Policy!Earliest(S)' = Policy!Earliest(S)
      BY <3>1 DEF Policy!Earliest
    <3>4. Request(t)'
      BY <3>1 DEF Request, SerialInv
    <3>5. Fresh(t)'
      BY <3>1, <3>2, <3>3 DEF Fresh, Authorised, TargetAccepted, At, SerialInv
    <3>6. QED
      BY <3>4, <3>5
  <2>2. QED
    BY <1>0, <2>1 DEF SerialInv
<1>7. CASE UNCHANGED vars
  <2>1. ASSUME NEW t \in Session PROVE (Request(t) /\ Fresh(t))'
    BY <1>7 DEF vars, Request, Fresh, Authorised, TargetAccepted, At, SerialInv, Members,
                Policy!Members, Policy!Earliest
  <2>2. QED
    BY <1>0, <2>1 DEF SerialInv
<1>8. QED
  BY NextCases, <1>2, <1>3, <1>4, <1>5, <1>6, <1>7

-----------------------------------------------------------------------------
LEMMA PolicyCardinality == \A S : Policy!Cardinality(S) = Cardinality(S)
BY DEF Policy!Cardinality, Cardinality, Policy!IsFiniteSet, IsFiniteSet

LEMMA MemberRows ==
    ASSUME TypeOK
    PROVE  \A u \in User : u \in Members <=> role[u] # Policy!NoRow
BY DEF Members, Policy!Members

(* A handler that does not overlap another writes what one atomic operation   *)
(* of the policy writes, or fails and writes nothing.                         *)
LEMMA WritesPolicy ==
    ASSUME SerialInv, NEW s \in Session, Writes(s)
    PROVE  Policy!Next \/ UNCHANGED Policy!vars
<1> USE DEF SerialInv, BaseInv, TypeOK
<1> DEFINE u == h[s].user
<1>1. u \in User /\ h[s].pc # "idle" /\ h[s].ids \in SUBSET User /\ Request(s) /\ Fresh(s)
  BY WritesReturn DEF Request, Handler
<1>2. Policy!Members = Members /\ (h[s].op \in MemberOps => \E m \in User : h[s].ids = {m})
  BY <1>1 DEF Members, Request
<1>3. ASSUME h[s].pc = "write", h[s].op # "leave"
      PROVE  status = "live" /\ role[u] \in Allowed(h[s].op) /\ h[s].actorRole = role[u]
  BY <1>1, <1>3 DEF Fresh, Authorised
<1>4. CASE WriteAdd(s)
  <2>1. /\ h[s].ids # {} /\ h[s].ids \cap Members = {} /\ h[s].ids \cap bans = {}
        /\ Cardinality(Members) + Cardinality(h[s].ids) <= MaxMembers
        /\ At(s, "add", "write")
    BY <1>1, <1>4 DEF WriteAdd, Fresh
  <2>2. Policy!Manager(u)
    BY <1>3, <2>1 DEF At, Allowed, Policy!Manager
  <2>3. Policy!Add(u, h[s].ids)
    BY <1>2, <1>4, <2>1, <2>2, PolicyCardinality DEF WriteAdd, Policy!Add
  <2>4. QED
    BY <1>1, <2>3 DEF Policy!Next
<1>5. ASSUME h[s].pc = "write", h[s].op \in {"remove", "ban", "mute", "unmute"}
      PROVE  \E m \in User :
                /\ h[s].ids = {m} /\ Policy!Manager(u) /\ m \in Members
                /\ h[s].op # "unmute" => m # u /\ Policy!MayActOn(role[u], m)
  <2>1. TargetAccepted(s) /\ Policy!Manager(u) /\ role[u] \in {"OWNER", "ADMIN"}
    BY <1>1, <1>3, <1>5 DEF Fresh, MemberOps, Allowed, Policy!Manager
  <2>2. PICK m \in User : h[s].ids = {m} /\ (h[s].op \notin {"unmute", "unban"} => m # u)
    BY <1>1, <1>5 DEF Request, MemberOps
  <2>3. m \in Members /\ (h[s].op # "unmute" => Policy!MayActOn(role[u], m))
    BY <1>3, <1>5, <2>1, <2>2 DEF TargetAccepted, Policy!MayActOn
  <2>4. QED
    BY <1>5, <2>1, <2>2, <2>3
<1>6. CASE WriteRemove(s)
  <2>1. h[s].pc = "write" /\ h[s].op = "remove"
    BY <1>6 DEF WriteRemove, At
  <2>2. PICK m \in User : /\ h[s].ids = {m} /\ Policy!Manager(u) /\ m \in Members
                          /\ m # u /\ Policy!MayActOn(role[u], m)
    BY <1>5, <2>1
  <2>3. Policy!Remove(u, m)
    BY <1>2, <1>6, <2>2 DEF WriteRemove, Policy!Remove
  <2>4. QED
    BY <1>1, <2>3 DEF Policy!Next
<1>7. CASE WriteBan(s)
  <2>1. h[s].pc = "write" /\ h[s].op = "ban"
    BY <1>7 DEF WriteBan, At
  <2>2. PICK m \in User : /\ h[s].ids = {m} /\ Policy!Manager(u) /\ m \in Members
                          /\ m # u /\ Policy!MayActOn(role[u], m)
    BY <1>5, <2>1
  <2>3. CASE m \in bans
    BY <1>7, <2>2, <2>3 DEF WriteBan, Policy!vars
  <2>4. CASE m \notin bans
    <3>1. Policy!Ban(u, m)
      BY <1>2, <1>7, <2>2, <2>4 DEF WriteBan, Policy!Ban
    <3>2. QED
      BY <1>1, <3>1 DEF Policy!Next
  <2>5. QED
    BY <2>3, <2>4
<1>8. CASE WriteUnban(s)
  <2>1. h[s].pc = "write" /\ h[s].op = "unban"
    BY <1>8 DEF WriteUnban, At
  <2>2. PICK m \in User : h[s].ids = {m}
    BY <1>2, <2>1 DEF MemberOps
  <2>3. m \in bans /\ Policy!Manager(u)
    BY <1>1, <1>3, <2>1, <2>2 DEF Fresh, MemberOps, TargetAccepted, Allowed, Policy!Manager
  <2>4. Policy!Unban(u, m)
    BY <1>8, <2>2, <2>3 DEF WriteUnban, Policy!Unban
  <2>5. QED
    BY <1>1, <2>4 DEF Policy!Next
<1>9. CASE WriteRole(s)
  <2>1. h[s].pc = "write" /\ h[s].op = "role"
    BY <1>9 DEF WriteRole, At
  <2>2. PICK m \in User : h[s].ids = {m} /\ m # u
    BY <1>1, <2>1 DEF Request, MemberOps
  <2>3. m \in Members /\ Policy!SoleOwner(u)
    BY <1>1, <1>3, <2>1, <2>2
       DEF Fresh, MemberOps, TargetAccepted, Allowed, Policy!SoleOwner
  <2>4. PICK r \in {"ADMIN", "MEMBER"} : role' = [role EXCEPT ![m] = r]
    BY <1>9, <2>2, <2>3 DEF WriteRole
  <2>5. Policy!SetRole(u, m, r)
    BY <1>2, <1>9, <2>2, <2>3, <2>4 DEF WriteRole, Policy!SetRole
  <2>6. QED
    BY <1>1, <2>5 DEF Policy!Next
<1>10. CASE WriteMute(s)
  <2>1. h[s].pc = "write" /\ h[s].op \in {"mute", "unmute"}
    BY <1>10 DEF WriteMute
  <2>2. PICK m \in User : /\ h[s].ids = {m} /\ Policy!Manager(u) /\ m \in Members
                          /\ h[s].op # "unmute" => m # u /\ Policy!MayActOn(role[u], m)
    BY <1>5, <2>1
  <2>3. CASE h[s].op = "mute"
    <3>1. Policy!SetMute(u, m)
      BY <1>2, <1>10, <2>2, <2>3 DEF WriteMute, Policy!SetMute
    <3>2. QED
      BY <1>1, <3>1 DEF Policy!Next
  <2>4. CASE h[s].op = "unmute"
    <3>1. Policy!Unmute(u, m)
      BY <1>2, <1>10, <2>2, <2>4 DEF WriteMute, Policy!Unmute
    <3>2. QED
      BY <1>1, <3>1 DEF Policy!Next
  <2>5. QED
    BY <2>1, <2>3, <2>4
<1>11. CASE WriteDelete(s)
  <2>1. Policy!SoleOwner(u)
    BY <1>3, <1>11 DEF WriteDelete, At, Allowed, Policy!SoleOwner
  <2>2. Policy!Delete(u)
    BY <1>11, <2>1 DEF WriteDelete, Policy!Delete
  <2>3. QED
    BY <1>1, <2>2 DEF Policy!Next
<1>12. CASE WriteLeave(s)
  <2>1. status = "live" /\ role[u] \in {"ADMIN", "MEMBER"}
    BY <1>1, <1>12 DEF WriteLeave, Fresh
  <2>2. u \in Members
    BY <1>1, <2>1 DEF Members, Policy!Members, Policy!NoRow
  <2>3. Policy!LeaveAsOther(u)
    BY <1>12, <2>1, <2>2 DEF WriteLeave, Policy!LeaveAsOther
  <2>4. QED
    BY <1>1, <2>3 DEF Policy!Next
<1>13. CASE WriteTransfer(s)
  <2>1. Policy!SoleOwner(u) /\ h[s].next \in Policy!Earliest(Members \ {u})
    BY <1>1, <1>13 DEF WriteTransfer, Fresh, Policy!SoleOwner
  <2>2. {u, h[s].next} \subseteq Members
    BY <1>1, <2>1 DEF Policy!Earliest, Policy!SoleOwner, Members, Policy!Members, Policy!NoRow
  <2>3. Policy!LeaveAsOwner(u, h[s].next)
    BY <1>2, <1>13, <2>1, <2>2 DEF WriteTransfer, Policy!LeaveAsOwner, NoRow
  <2>4. h[s].next \in User
    BY <2>2 DEF Members, Policy!Members
  <2>5. QED
    BY <1>1, <2>3, <2>4 DEF Policy!Next
<1>14. CASE WriteLast(s)
  <2>1. Policy!SoleOwner(u) /\ Members = {u}
    BY <1>1, <1>14 DEF WriteLast, Fresh, Policy!SoleOwner
  <2>2. Policy!LeaveLast(u)
    BY <1>2, <1>14, <2>1 DEF WriteLast, Policy!LeaveLast
  <2>3. QED
    BY <1>1, <2>2 DEF Policy!Next
<1>15. CASE ClearMute(s)
  <2>1. Policy!ClearMute(u)
    BY <1>1, <1>15 DEF ClearMute, Fresh, Policy!ClearMute
  <2>2. QED
    BY <1>1, <2>1 DEF Policy!Next
<1>16. QED
  BY <1>4, <1>6, <1>7, <1>8, <1>9, <1>10, <1>11, <1>12, <1>13, <1>14, <1>15 DEF Writes

LEMMA StepPolicy == SerialInv /\ [Next]_vars => [Policy!Next]_Policy!vars
<1> SUFFICES ASSUME SerialInv, [Next]_vars
             PROVE  Policy!Next \/ UNCHANGED Policy!vars
  OBVIOUS
<1>1. CASE UNCHANGED rows
  BY <1>1 DEF rows, Policy!vars
<1>2. ASSUME NEW s \in Session, NEW u \in User, NEW ids \in SUBSET User, CreateGroup(s, u, ids)
      PROVE  Policy!Next
  BY <1>2 DEF CreateGroup, Policy!Next
<1>3. ASSUME NEW m \in User, MuteRunsOut(m)
      PROVE  Policy!Next
  BY <1>3 DEF MuteRunsOut, Policy!MuteRunsOut, Policy!Next
<1>4. CASE UNCHANGED vars
  BY <1>4 DEF vars, Policy!vars
<1>5. QED
  BY <1>1, <1>2, <1>3, <1>4, NextCases, ReadsKeepRows, WritesPolicy

(* Handlers one at a time implement GroupPolicy: every write is one that the  *)
(* permission matrix allows in the state it is applied to.                    *)
THEOREM SerialRefinesPolicy ==
    ASSUME OneHandler
    PROVE  Spec => RefinesPolicy
<1>1. Init => Policy!Init
  BY DEF Init
<1>2. SerialInv /\ [Next]_vars => SerialInv'
  BY SerialStep
<1>3. QED
  BY <1>1, <1>2, SerialInit, StepPolicy, PTL DEF Spec, RefinesPolicy, Policy!Spec

-----------------------------------------------------------------------------
(* The atomic operations, on the rows that the handlers share with them.      *)

(* Before the group is created nobody belongs to it and nobody is banned. *)
PolicyUnborn == status = "none" => Policy!Members = {} /\ bans = {}

PolicyInv == Policy!TypeOK /\ PolicyUnborn /\ Policy!Safety

LEMMA MembersFinite ==
    /\ IsFiniteSet(Policy!Members)
    /\ \A S \in SUBSET Policy!Members : Cardinality(S) <= Cardinality(Policy!Members)
BY UserAssumption, FS_Subset DEF Policy!Members

(* How each kind of step changes the set of members. *)
LEMMA DropShrinks ==
    ASSUME Policy!TypeOK, NEW m \in User, Policy!DropRow(m)
    PROVE  Policy!Members' = Policy!Members \ {m}
BY DEF Policy!DropRow, Policy!TypeOK, Policy!Members, Policy!NoRow, Policy!Role

LEMMA ShrinkWithinCapacity ==
    ASSUME Policy!WithinCapacity, Policy!Members' \subseteq Policy!Members
    PROVE  Policy!WithinCapacity'
<1>1. /\ Cardinality(Policy!Members') <= Cardinality(Policy!Members)
      /\ Cardinality(Policy!Members) \in Nat /\ Cardinality(Policy!Members') \in Nat
  BY UserAssumption, MembersFinite, FS_Subset, FS_CardinalityType DEF Policy!Members
<1>2. QED
  BY <1>1, MaxMembersAssumption, PolicyCardinality DEF Policy!WithinCapacity

LEMMA PolicyInit == ASSUME Policy!Init PROVE PolicyInv
<1>1. Policy!Members = {}
  BY DEF Policy!Init, Policy!Members, Policy!NoRow
<1>2. Policy!TypeOK /\ PolicyUnborn /\ Policy!ExactlyOneOwner /\ Policy!NoBannedMember
  BY <1>1
     DEF Policy!Init, Policy!TypeOK, PolicyUnborn, Policy!ExactlyOneOwner,
         Policy!NoBannedMember, Policy!Role, Policy!NoRow
<1>3. Policy!WithinCapacity
  BY <1>1, FS_EmptySet, MaxMembersAssumption, PolicyCardinality DEF Policy!WithinCapacity
<1>4. QED
  BY <1>2, <1>3 DEF PolicyInv, Policy!Safety

LEMMA PolicyCreate ==
    ASSUME PolicyInv, NEW u \in User, NEW ids \in SUBSET User, Policy!Create(u, ids)
    PROVE  PolicyInv'
<1>1. Policy!Members' = ids \cup {u} /\ status' = "live"
  BY DEF Policy!Create, Policy!Members, Policy!NoRow
<1>2. Policy!TypeOK'
  BY <1>1
     DEF PolicyInv, Policy!TypeOK, Policy!Create, Policy!Members, Policy!Role, Policy!NoRow,
         PolicyUnborn
<1>3. Policy!Owners' = {u}
  BY DEF Policy!Create, Policy!Owners, Policy!NoRow
<1>4. Policy!NoBannedMember' /\ Policy!WithinCapacity'
  BY <1>1, PolicyCardinality
     DEF PolicyInv, PolicyUnborn, Policy!NoBannedMember, Policy!WithinCapacity, Policy!Create
<1>5. QED
  BY <1>1, <1>2, <1>3, <1>4 DEF PolicyInv, PolicyUnborn, Policy!Safety, Policy!ExactlyOneOwner

LEMMA PolicyAdd ==
    ASSUME PolicyInv, NEW u \in User, NEW new \in SUBSET User, Policy!Add(u, new)
    PROVE  PolicyInv'
<1> USE DEF PolicyInv, Policy!Safety
<1>1. Policy!Members' = Policy!Members \cup new /\ status' = status /\ bans' = bans /\ status = "live"
  BY DEF Policy!Add, Policy!Members, Policy!NoRow, Policy!TypeOK, Policy!Manager
<1>2. Policy!TypeOK'
  BY <1>1 DEF Policy!TypeOK, Policy!Add, Policy!Members, Policy!Role, Policy!NoRow
<1>3. Policy!Owners' = Policy!Owners
  BY DEF Policy!Add, Policy!Owners, Policy!Members, Policy!NoRow, Policy!TypeOK
<1>4. Cardinality(Policy!Members \cup new) = Cardinality(Policy!Members) + Cardinality(new)
  <2>1. IsFiniteSet(new) /\ IsFiniteSet(Policy!Members) /\ Policy!Members \cap new = {}
    BY UserAssumption, MembersFinite, FS_Subset DEF Policy!Add
  <2>2. Cardinality(Policy!Members \cap new) = 0
    BY <2>1, FS_EmptySet
  <2>3. Cardinality(Policy!Members) \in Nat /\ Cardinality(new) \in Nat
    BY <2>1, FS_CardinalityType
  <2>4. Cardinality(Policy!Members \cup new)
          = Cardinality(Policy!Members) + Cardinality(new) - Cardinality(Policy!Members \cap new)
    BY <2>1, FS_Union
  <2>5. QED
    BY <2>2, <2>3, <2>4
<1>5. QED
  BY <1>1, <1>2, <1>3, <1>4, PolicyCardinality
     DEF PolicyUnborn, Policy!ExactlyOneOwner, Policy!NoBannedMember, Policy!WithinCapacity,
         Policy!Add

(* Dropping the row of somebody who is not the OWNER of a live group. *)
LEMMA PolicyDrop ==
    ASSUME PolicyInv, NEW m \in User, Policy!DropRow(m),
           status' = status, bans' \in {bans, bans \cup {m}},
           status = "live", m \notin Policy!Owners
    PROVE  PolicyInv'
<1> USE DEF PolicyInv, Policy!Safety
<1>1. Policy!Members' = Policy!Members \ {m}
  BY DropShrinks
<1>2. Policy!TypeOK'
  BY <1>1 DEF Policy!TypeOK, Policy!DropRow, Policy!Members, Policy!Role, Policy!NoRow
<1>3. Policy!Owners' = Policy!Owners
  BY DEF Policy!DropRow, Policy!Owners, Policy!TypeOK, Policy!NoRow
<1>4. Policy!NoBannedMember' /\ Policy!WithinCapacity'
  BY <1>1, ShrinkWithinCapacity DEF Policy!NoBannedMember
<1>5. QED
  BY <1>1, <1>2, <1>3, <1>4 DEF PolicyUnborn, Policy!ExactlyOneOwner

LEMMA PolicyLeaveAsOwner ==
    ASSUME PolicyInv, NEW u \in User, NEW n \in User, Policy!LeaveAsOwner(u, n)
    PROVE  PolicyInv'
<1> USE DEF PolicyInv, Policy!Safety
<1>1. n # u /\ n \in Policy!Members /\ u \in Policy!Members /\ status = "live"
  BY DEF Policy!LeaveAsOwner, Policy!Earliest, Policy!SoleOwner, Policy!Members, Policy!NoRow
<1>2. Policy!Members' = Policy!Members \ {u}
  BY <1>1 DEF Policy!LeaveAsOwner, Policy!TypeOK, Policy!Members, Policy!NoRow
<1>3. Policy!TypeOK'
  BY <1>2 DEF Policy!TypeOK, Policy!LeaveAsOwner, Policy!Role, Policy!NoRow
<1>4. Policy!Owners = {u}
  BY <1>1 DEF Policy!ExactlyOneOwner, Policy!LeaveAsOwner, Policy!SoleOwner, Policy!Owners
<1>5. Policy!Owners' = {n}
  BY <1>1, <1>4 DEF Policy!LeaveAsOwner, Policy!Owners, Policy!TypeOK, Policy!NoRow
<1>6. Policy!NoBannedMember' /\ Policy!WithinCapacity'
  BY <1>2, ShrinkWithinCapacity DEF Policy!NoBannedMember, Policy!LeaveAsOwner
<1>7. QED
  BY <1>1, <1>2, <1>3, <1>5, <1>6 DEF PolicyUnborn, Policy!ExactlyOneOwner, Policy!LeaveAsOwner

LEMMA PolicyLeaveLast ==
    ASSUME PolicyInv, NEW u \in User, Policy!LeaveLast(u)
    PROVE  PolicyInv'
<1> USE DEF PolicyInv, Policy!Safety
<1>1. Policy!Members' = Policy!Members \ {u} /\ status' = "deleted"
  BY DropShrinks DEF Policy!LeaveLast
<1>2. Policy!TypeOK'
  BY <1>1
     DEF Policy!TypeOK, Policy!LeaveLast, Policy!DropRow, Policy!Members, Policy!Role,
         Policy!NoRow
<1>3. QED
  BY <1>1, <1>2, ShrinkWithinCapacity
     DEF PolicyUnborn, Policy!ExactlyOneOwner, Policy!NoBannedMember, Policy!LeaveLast

(* Steps that leave the set of members and of owners alone. *)
LEMMA PolicyOther ==
    ASSUME PolicyInv, NEW u \in User, NEW m \in User,
           \/ Policy!Unban(u, m) \/ Policy!SetMute(u, m) \/ Policy!Unmute(u, m)
           \/ \E r \in {"ADMIN", "MEMBER"} : Policy!SetRole(u, m, r)
           \/ Policy!Delete(u) \/ Policy!MuteRunsOut(u) \/ Policy!ClearMute(u)
    PROVE  PolicyInv'
<1> USE DEF PolicyInv, Policy!Safety
<1>1. CASE Policy!Unban(u, m) \/ Policy!SetMute(u, m) \/ Policy!Unmute(u, m)
           \/ Policy!Delete(u) \/ Policy!MuteRunsOut(u) \/ Policy!ClearMute(u)
  <2>1. Policy!Members' = Policy!Members /\ Policy!Owners' = Policy!Owners /\ status' \in {status, "deleted"}
        /\ bans' \subseteq bans /\ (status' = "none" => status = "none")
    BY <1>1
       DEF Policy!Unban, Policy!SetMute, Policy!Unmute, Policy!Delete, Policy!MuteRunsOut,
           Policy!ClearMute, Policy!Members, Policy!Owners
  <2>2. Policy!TypeOK'
    BY <1>1, <2>1
       DEF Policy!TypeOK, Policy!Unban, Policy!SetMute, Policy!Unmute, Policy!Delete,
           Policy!MuteRunsOut, Policy!ClearMute,
                      Policy!Members, Policy!NoRow
  <2>3. QED
    BY <2>1, <2>2
       DEF PolicyUnborn, Policy!ExactlyOneOwner, Policy!NoBannedMember, Policy!WithinCapacity
<1>2. ASSUME NEW r \in {"ADMIN", "MEMBER"}, Policy!SetRole(u, m, r)
      PROVE  PolicyInv'
  <2>1. Policy!Members' = Policy!Members
    BY <1>2 DEF Policy!SetRole, Policy!Members, Policy!NoRow, Policy!TypeOK
  <2>2. Policy!Owners = {u} /\ Policy!Owners' = {u}
    BY <1>2
       DEF Policy!SetRole, Policy!SoleOwner, Policy!ExactlyOneOwner, Policy!Owners,
           Policy!TypeOK
  <2>3. Policy!TypeOK'
    BY <1>2, <2>1 DEF Policy!TypeOK, Policy!SetRole, Policy!Role, Policy!NoRow, Policy!Members
  <2>4. QED
    BY <1>2, <2>1, <2>2, <2>3
          DEF PolicyUnborn, Policy!ExactlyOneOwner, Policy!NoBannedMember,
              Policy!WithinCapacity, Policy!SetRole
<1>3. QED
  BY <1>1, <1>2

LEMMA PolicyStep == ASSUME PolicyInv, [Policy!Next]_Policy!vars PROVE PolicyInv'
<1>1. ASSUME NEW u \in User, NEW ids \in SUBSET User, Policy!Create(u, ids) \/ Policy!Add(u, ids)
      PROVE  PolicyInv'
  BY <1>1, PolicyCreate, PolicyAdd
<1>2. ASSUME NEW u \in User, NEW m \in User, Policy!Remove(u, m) \/ Policy!Ban(u, m)
      PROVE  PolicyInv'
  <2>1. status = "live" /\ m \notin Policy!Owners
    BY <1>2
       DEF Policy!Remove, Policy!Ban, Policy!Manager, Policy!MayActOn, Policy!Owners, PolicyInv,
           Policy!Safety, Policy!ExactlyOneOwner
  <2>2. QED
    BY <1>2, <2>1, PolicyDrop DEF Policy!Remove, Policy!Ban
<1>3. ASSUME NEW u \in User, Policy!LeaveAsOther(u)
      PROVE  PolicyInv'
  BY <1>3, PolicyDrop DEF Policy!LeaveAsOther, Policy!Owners
<1>4. CASE UNCHANGED Policy!vars
  BY <1>4
     DEF Policy!vars, PolicyInv, Policy!Safety, Policy!TypeOK, PolicyUnborn,
         Policy!ExactlyOneOwner, Policy!NoBannedMember,
              Policy!WithinCapacity, Policy!Members, Policy!Owners
<1>5. QED
  BY <1>1, <1>2, <1>3, <1>4, PolicyLeaveAsOwner, PolicyLeaveLast, PolicyOther DEF Policy!Next

(* The atomic group operations are type correct and keep exactly one OWNER,  *)
(* no banned member and no more than MaxMembers members.                     *)
THEOREM PolicySafe ==
    Policy!Spec => [](Policy!TypeOK /\ Policy!Safety)
<1>1. Policy!Init => PolicyInv
  BY PolicyInit
<1>2. PolicyInv /\ [Policy!Next]_Policy!vars => PolicyInv'
  BY PolicyStep
<1>3. PolicyInv => Policy!TypeOK /\ Policy!Safety
  BY DEF PolicyInv
<1>4. QED
  BY <1>1, <1>2, <1>3, PTL DEF Policy!Spec

(* Handlers one at a time: the group always has exactly one owner while it is *)
(* live, no banned member, and never more members than maxMembers.            *)
THEOREM SerialSafe ==
    ASSUME OneHandler
    PROVE  Spec => []GroupSafety
<1>1. Policy!Spec => [](Policy!TypeOK /\ Policy!Safety)
  BY PolicySafe
<1>2. Spec => Policy!Spec
  BY SerialRefinesPolicy DEF RefinesPolicy
<1>3. Policy!Safety => GroupSafety
  BY DEF Policy!Safety, GroupSafety, ExactlyOneOwner, NoBannedMember, WithinCapacity
<1>4. QED
  BY <1>1, <1>2, <1>3, PTL
=============================================================================
