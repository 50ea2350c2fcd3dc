-------------------------------- MODULE Presence --------------------------------
(***************************************************************************)
(* Who is online: PresenceService (Redis and User.status) and the handlers  *)
(* of ChatGateway that call it (apps/server/src/gateway).  Every key and row *)
(* belongs to one user, so the module follows one of them.  A Conn is one of *)
(* the user's connections, with one step per round trip.                     *)
(***************************************************************************)
EXTENDS Naturals, FiniteSets

CONSTANTS Conn, MaxConnects, MaxUpdates, MaxFaults   \* bounds

ASSUME PresenceBoundsAssumption == {MaxConnects, MaxUpdates, MaxFaults} \subseteq Nat

VARIABLES online,      \* the user is in online_users
          socketIds,   \* connections whose id is in user:sockets
          ghosts,      \* ids in user:sockets of connections that are long gone
          key,         \* user:status, "none" when it is not there
          saved,       \* User.status
          friendsTold, \* the last presence:changed the friends were sent
          conn,        \* conn[c]: its handlers
          connects, updates, faults

redis == <<online, socketIds, ghosts, key>>
counts == <<connects, updates, faults>>
presenceVars == <<redis, saved, friendsTold, conn, counts>>

(* enter, leave, update: where handleConnection, handleDisconnect and          *)
(* handlePresenceUpdate are.  was: what isOnline said.  want: data.status.     *)
NoConnection == [open |-> FALSE, enter |-> "none", was |-> FALSE, leave |-> "none",
                 update |-> "none", want |-> "ONLINE"]

PresenceInit ==
    /\ online = FALSE /\ socketIds = {} /\ ghosts = 0 /\ key = "none"
    /\ saved = "OFFLINE" /\ friendsTold = "OFFLINE"
    /\ conn = [c \in Conn |-> NoConnection]
    /\ connects = 0 /\ updates = 0 /\ faults = 0

GoEnter(c, pc) == conn' = [conn EXCEPT ![c].enter = pc, ![c].was = IF pc = "none" THEN FALSE ELSE @]
GoLeave(c, pc) == conn' = [conn EXCEPT ![c].leave = pc]
GoUpdate(c, pc) ==
    conn' = [conn EXCEPT ![c].update = pc, ![c].want = IF pc = "none" THEN "ONLINE" ELSE @]

-----------------------------------------------------------------------------
(* handleConnection.  The id of an earlier connection of this slot that is      *)
(* still in the set is a ghost.                                                 *)
HandleConnection(c) ==
    /\ conn[c] = NoConnection /\ connects < MaxConnects
    /\ conn' = [conn EXCEPT ![c] = [NoConnection EXCEPT !.open = TRUE, !.enter = "was"]]
    /\ socketIds' = socketIds \ {c}
    /\ ghosts' = IF c \in socketIds THEN ghosts + 1 ELSE ghosts
    /\ connects' = connects + 1
    /\ UNCHANGED <<online, key, saved, friendsTold, updates, faults>>

WasOnline(c) ==
    /\ conn[c].enter = "was"
    /\ conn' = [conn EXCEPT ![c].enter = "redis", ![c].was = online]
    /\ UNCHANGED <<redis, saved, friendsTold, counts>>

(* setOnline: the pipeline, whatever status the user had chosen, then the row. *)
SetOnline(c) ==
    /\ conn[c].enter = "redis"
    /\ online' = TRUE /\ socketIds' = socketIds \cup {c} /\ key' = "ONLINE"
    /\ GoEnter(c, "row")
    /\ UNCHANGED <<ghosts, saved, friendsTold, counts>>

SaveOnline(c) ==
    /\ conn[c].enter = "row"
    /\ saved' = "ONLINE"
    /\ GoEnter(c, IF conn[c].was THEN "none" ELSE "friends")
    /\ UNCHANGED <<redis, friendsTold, counts>>

-----------------------------------------------------------------------------
(* handleDisconnect, while handleConnection may still be under way. *)
HandleDisconnection(c) ==
    /\ conn[c].open
    /\ conn' = [conn EXCEPT ![c].open = FALSE, ![c].leave = "srem"]
    /\ UNCHANGED <<redis, saved, friendsTold, counts>>

RemoveSocket(c) ==
    /\ conn[c].leave = "srem"
    /\ socketIds' = socketIds \ {c}
    /\ GoLeave(c, "scard")
    /\ UNCHANGED <<online, ghosts, key, saved, friendsTold, counts>>

(* Mutant: the remaining sockets do not count. *)
CountNothing(c) ==
    /\ conn[c].leave = "scard"
    /\ GoLeave(c, "redis")
    /\ UNCHANGED <<redis, saved, friendsTold, counts>>

CountSockets(c) ==
    /\ conn[c].leave = "scard"
    /\ GoLeave(c, IF socketIds = {} /\ ghosts = 0 THEN "redis" ELSE "still")
    /\ UNCHANGED <<redis, saved, friendsTold, counts>>

(* setOffline of the last: the pipeline deletes whatever is there by now. *)
SetOfflineUser(c) ==
    /\ conn[c].leave = "redis"
    /\ online' = FALSE /\ socketIds' = {} /\ ghosts' = 0 /\ key' = "none"
    /\ GoLeave(c, "row")
    /\ UNCHANGED <<saved, friendsTold, counts>>

SaveOffline(c) ==
    /\ conn[c].leave = "row"
    /\ saved' = "OFFLINE"
    /\ GoLeave(c, "still")
    /\ UNCHANGED <<redis, friendsTold, counts>>

StillOnline(c) ==
    /\ conn[c].leave = "still"
    /\ GoLeave(c, IF online THEN "none" ELSE "friends")
    /\ UNCHANGED <<redis, saved, friendsTold, counts>>

-----------------------------------------------------------------------------
(* presence:update with one of the three statuses; the key gets a new term. *)
HandlePresenceUpdate(c) ==
    /\ conn[c].open /\ conn[c].update = "none" /\ updates < MaxUpdates
    /\ \E status \in {"ONLINE", "IDLE", "DND"} :
          conn' = [conn EXCEPT ![c].update = "redis", ![c].want = status]
    /\ updates' = updates + 1
    /\ UNCHANGED <<redis, saved, friendsTold, connects, faults>>

UpdateStatus(c) ==
    /\ conn[c].update = "redis"
    /\ key' = conn[c].want
    /\ GoUpdate(c, "row")
    /\ UNCHANGED <<online, socketIds, ghosts, saved, friendsTold, counts>>

SaveStatus(c) ==
    /\ conn[c].update = "row"
    /\ saved' = conn[c].want
    /\ GoUpdate(c, "friends")
    /\ UNCHANGED <<redis, friendsTold, counts>>

(* Mutant: every broadcast says ONLINE or OFFLINE, by the set of those online. *)
BroadcastOnline(c) ==
    /\ \/ conn[c].enter = "friends" /\ GoEnter(c, "none")
       \/ conn[c].leave = "friends" /\ GoLeave(c, "none")
       \/ conn[c].update = "friends" /\ GoUpdate(c, "none")
    /\ friendsTold' = IF online THEN "ONLINE" ELSE "OFFLINE"
    /\ UNCHANGED <<redis, saved, counts>>

(* getFriendIds and presence:changed to the room of each. *)
BroadcastPresenceChange(c) ==
    /\ \/ conn[c].enter = "friends" /\ friendsTold' = "ONLINE" /\ GoEnter(c, "none")
       \/ conn[c].leave = "friends" /\ friendsTold' = "OFFLINE" /\ GoLeave(c, "none")
       \/ conn[c].update = "friends" /\ friendsTold' = conn[c].want /\ GoUpdate(c, "none")
    /\ UNCHANGED <<redis, saved, counts>>

(* What GET /users/online and getStatus answer. *)
GetStatus == IF key = "none" THEN "OFFLINE" ELSE key

-----------------------------------------------------------------------------
Fault == faults < MaxFaults /\ faults' = faults + 1

(* 300 s after the last write of the key: refreshTtl has no caller. *)
StatusExpires ==
    /\ Fault /\ key # "none"
    /\ key' = "none"
    /\ UNCHANGED <<online, socketIds, ghosts, saved, friendsTold, conn, connects, updates>>

(* Redis or the database rejects: the handler ends where it is. *)
RoundTripFails(c) ==
    /\ Fault
    /\ \/ conn[c].enter # "none" /\ GoEnter(c, "none")
       \/ conn[c].leave # "none" /\ GoLeave(c, "none")
       \/ conn[c].update # "none" /\ GoUpdate(c, "none")
    /\ UNCHANGED <<redis, saved, friendsTold, connects, updates>>

(* The server ends: no handleDisconnect; Redis keeps the ids. *)
ChatServerCrash ==
    /\ Fault
    /\ conn' = [c \in Conn |-> NoConnection]
    /\ ghosts' = ghosts + Cardinality(socketIds) /\ socketIds' = {}
    /\ UNCHANGED <<online, key, saved, friendsTold, connects, updates>>

Round(c) ==
    \/ WasOnline(c) \/ SetOnline(c) \/ SaveOnline(c)
    \/ RemoveSocket(c) \/ CountSockets(c) \/ SetOfflineUser(c) \/ SaveOffline(c) \/ StillOnline(c)
    \/ UpdateStatus(c) \/ SaveStatus(c) \/ BroadcastPresenceChange(c)

PresenceNext ==
    \/ \E c \in Conn :
          \/ HandleConnection(c) \/ HandleDisconnection(c) \/ HandlePresenceUpdate(c)
          \/ Round(c) \/ RoundTripFails(c)
    \/ StatusExpires \/ ChatServerCrash

PresenceSpec == PresenceInit /\ [][PresenceNext]_presenceVars
=============================================================================
