----------------------------- MODULE GatewayManager -----------------------------
(***************************************************************************)
(* GatewayManagerService (apps/server/src/openclaw): one OpenClaw process  *)
(* per user, each on a port of a pool.  JavaScript runs one callback at a  *)
(* time, so a step here is the code between two awaits: the start of a     *)
(* handler, a poll, a timeout, or an event of a child process.             *)
(*                                                                         *)
(* An instance is one UserGateway object with its child process.  The      *)
(* event handlers keep the object and its port in their closure, so they   *)
(* act on both long after the Map has forgotten the object.                *)
(***************************************************************************)
EXTENDS Naturals, FiniteSets

CONSTANTS User,
          Instance,    \* bounds the number of starts
          NoInstance,
          MaxPorts,    \* OPENCLAW_MAX_PORTS
          Disturbances \* what may happen besides start and stop, see below

(* spawnFails: a child cannot be started.  exits: a child ends by itself.   *)
(* slowExit: a child outlives SIGTERM by 5 s.  overlap: a user starts or    *)
(* stops his gateway while his last call is still running.                  *)
AllDisturbances == {"spawnFails", "exits", "slowExit", "overlap"}

ASSUME NoInstanceAssumption == NoInstance \notin Instance
ASSUME MaxPortsAssumption == MaxPorts \in Nat \ {0}
ASSUME DisturbancesAssumption == Disturbances \subseteq AllDisturbances

VARIABLES gateways,   \* Map: user -> instance
          usedPorts,  \* Set of ports, numbered from 1
          port,       \* port[i] of the instance, 0 before its start
          status,     \* status[i]: UserGateway.status, "unborn" before the start
          child,      \* child[i]: the OS process of the instance
          closed,     \* closed[i]: its close event was handled, process is null
          starting,   \* <<u, i>>: a start of u waits for i to be ready
          stopping,   \* <<u, i>>: a stop of u waits for i to close
          down        \* onModuleDestroy has run

vars == <<gateways, usedPorts, port, status, child, closed, starting, stopping, down>>

Port == 1..MaxPorts
Running == {"live", "term", "kill"}   \* running; sent SIGTERM; sent SIGKILL
Ended == {"dead", "failed"}           \* ended; never came to life

Started(i) == status[i] # "unborn"
HasProcess(i) == Started(i) /\ ~closed[i]
Idle(u) == \A i \in Instance : <<u, i>> \notin starting \cup stopping

Init ==
    /\ gateways = [u \in User |-> NoInstance]
    /\ usedPorts = {}
    /\ port = [i \in Instance |-> 0]
    /\ status = [i \in Instance |-> "unborn"]
    /\ child = [i \in Instance |-> "unborn"]
    /\ closed = [i \in Instance |-> FALSE]
    /\ starting = {}
    /\ stopping = {}
    /\ down = FALSE

-----------------------------------------------------------------------------
MayCall(u) == ~down /\ ("overlap" \in Disturbances \/ Idle(u))

(* Mutant: the number of ports in use is taken for the next free one. *)
NextPortByCount == {p \in Port : p = Cardinality(usedPorts) + 1}

(* allocatePort: the lowest port that is not in the set. *)
FreePorts == {p \in Port \ usedPorts : \A q \in Port \ usedPorts : p <= q}

(* Mutant: every start makes a process, whether one runs or not. *)
StartAnother(u, i) ==
    /\ MayCall(u)
    /\ ~Started(i)
    /\ \E p \in FreePorts :
          /\ usedPorts' = usedPorts \cup {p}
          /\ port' = [port EXCEPT ![i] = p]
    /\ gateways' = [gateways EXCEPT ![u] = i]
    /\ status' = [status EXCEPT ![i] = "starting"]
    /\ child' = [child EXCEPT ![i] = "live"]
    /\ starting' = starting \cup {<<u, i>>}
    /\ UNCHANGED <<closed, stopping, down>>

(* A second start of a user whose gateway runs returns that gateway.  The new *)
(* object replaces an older one in the Map, whatever became of that one.      *)
StartUserGateway(u, i) ==
    /\ MayCall(u)
    /\ ~Started(i)
    /\ gateways[u] # NoInstance => status[gateways[u]] # "running"
    /\ \E p \in FreePorts :
          /\ usedPorts' = usedPorts \cup {p}
          /\ port' = [port EXCEPT ![i] = p]
    /\ gateways' = [gateways EXCEPT ![u] = i]
    /\ status' = [status EXCEPT ![i] = "starting"]
    /\ \E c \in {"live", "error"} :
          /\ c = "error" => "spawnFails" \in Disturbances
          /\ child' = [child EXCEPT ![i] = c]
    /\ starting' = starting \cup {<<u, i>>}
    /\ UNCHANGED <<closed, stopping, down>>

(* The child never came to life: its error event. *)
SpawnError(i) ==
    /\ child[i] = "error"
    /\ child' = [child EXCEPT ![i] = "failed"]
    /\ status' = [status EXCEPT ![i] = "error"]
    /\ usedPorts' = usedPorts \ {port[i]}
    /\ UNCHANGED <<gateways, port, closed, starting, stopping, down>>

(* The child prints that it listens; output is read until its streams close. *)
Ready(i) ==
    /\ HasProcess(i) /\ child[i] \in Running \cup {"dead"}
    /\ status[i] = "starting"
    /\ status' = [status EXCEPT ![i] = "running"]
    /\ UNCHANGED <<gateways, usedPorts, port, child, closed, starting, stopping, down>>

(* waitForGatewayReady polls: running returns, error throws to the catch of   *)
(* startUserGateway, which releases the port (once more).                     *)
PollStart(u, i) ==
    /\ <<u, i>> \in starting
    /\ status[i] \in {"running", "error"}
    /\ starting' = starting \ {<<u, i>>}
    /\ usedPorts' = IF status[i] = "error" THEN usedPorts \ {port[i]} ELSE usedPorts
    /\ UNCHANGED <<gateways, port, status, child, closed, stopping, down>>

(* After ten seconds without either, the gateway is assumed to run. *)
StartTimeout(u, i) ==
    /\ <<u, i>> \in starting
    /\ starting' = starting \ {<<u, i>>}
    /\ status' = [status EXCEPT ![i] = "running"]
    /\ UNCHANGED <<gateways, usedPorts, port, child, closed, stopping, down>>

-----------------------------------------------------------------------------
(* An object without process is dropped at once, its port released (again). *)
StopWithoutProcess(u) ==
    /\ MayCall(u)
    /\ gateways[u] # NoInstance
    /\ ~HasProcess(gateways[u])
    /\ usedPorts' = usedPorts \ {port[gateways[u]]}
    /\ gateways' = [gateways EXCEPT ![u] = NoInstance]
    /\ UNCHANGED <<port, status, child, closed, starting, stopping, down>>

StopUserGateway(u) ==
    LET i == gateways[u]
    IN /\ MayCall(u)
       /\ i # NoInstance
       /\ HasProcess(i)
       /\ child' = [child EXCEPT ![i] = IF @ = "live" THEN "term" ELSE @]
       /\ stopping' = stopping \cup {<<u, i>>}
       /\ UNCHANGED <<gateways, usedPorts, port, status, closed, starting, down>>

(* What stopUserGateway does once its wait is over: the record under the user *)
(* id goes, even when a later start has put a new one there.                  *)
Forget(S) == gateways' = [u \in User |-> IF u \in S THEN NoInstance ELSE gateways[u]]

(* Mutant: after five seconds SIGTERM is sent again and the wait goes on. *)
SignalAgain(u, i) ==
    /\ <<u, i>> \in stopping
    /\ "slowExit" \in Disturbances
    /\ UNCHANGED vars

(* Five seconds after SIGTERM the process is killed; its close comes later. *)
StopTimeout(u, i) ==
    /\ <<u, i>> \in stopping
    /\ "slowExit" \in Disturbances
    /\ child' = [child EXCEPT ![i] = IF @ = "term" THEN "kill" ELSE @]
    /\ stopping' = stopping \ {<<u, i>>}
    /\ usedPorts' = usedPorts \ {port[i]}
    /\ Forget({u})
    /\ UNCHANGED <<port, status, closed, starting, down>>

(* A signalled process ends; any process may end by itself. *)
ProcessEnds(i) ==
    /\ child[i] \in Running
    /\ child[i] = "live" => "exits" \in Disturbances
    /\ child' = [child EXCEPT ![i] = "dead"]
    /\ UNCHANGED <<gateways, usedPorts, port, status, closed, starting, stopping, down>>

(* Mutant: the close handler leaves the port to stopUserGateway. *)
CloseKeepsPort(i) ==
    LET stoppers == {u \in User : <<u, i>> \in stopping}
    IN /\ HasProcess(i) /\ child[i] \in Ended
       /\ status' = [status EXCEPT ![i] = "stopped"]
       /\ closed' = [closed EXCEPT ![i] = TRUE]
       /\ usedPorts' = IF stoppers = {} THEN usedPorts ELSE usedPorts \ {port[i]}
       /\ stopping' = {w \in stopping : w[2] # i}
       /\ Forget(stoppers)
       /\ UNCHANGED <<port, child, starting, down>>

(* The close event, and in the same turn the stops that waited for it. *)
Close(i) ==
    LET stoppers == {u \in User : <<u, i>> \in stopping}
    IN /\ HasProcess(i) /\ child[i] \in Ended
       /\ status' = [status EXCEPT ![i] = "stopped"]
       /\ closed' = [closed EXCEPT ![i] = TRUE]
       /\ usedPorts' = usedPorts \ {port[i]}
       /\ stopping' = {w \in stopping : w[2] # i}
       /\ Forget(stoppers)
       /\ UNCHANGED <<port, child, starting, down>>

(* onModuleDestroy signals the processes in the Map and forgets everything. *)
ModuleDestroy ==
    /\ ~down
    /\ child' = [i \in Instance |->
                    IF child[i] = "live" /\ \E u \in User : gateways[u] = i THEN "term" ELSE child[i]]
    /\ gateways' = [u \in User |-> NoInstance]
    /\ usedPorts' = {}
    /\ down' = TRUE
    /\ UNCHANGED <<port, status, closed, starting, stopping>>

-----------------------------------------------------------------------------
Turn(i) ==
    \/ Ready(i) \/ SpawnError(i) \/ ProcessEnds(i) \/ Close(i)
    \/ \E u \in User : PollStart(u, i) \/ StartTimeout(u, i) \/ StopTimeout(u, i)

Next ==
    \/ \E u \in User :
          \/ \E i \in Instance : StartUserGateway(u, i)
          \/ StopWithoutProcess(u) \/ StopUserGateway(u)
    \/ \E i \in Instance : Turn(i)
    \/ ModuleDestroy

Spec == Init /\ [][Next]_vars

(* Timers fire, a killed process ends, and its close event is delivered.      *)
(* Nothing makes a process that got only SIGTERM end.                         *)
FairSpec ==
    /\ Spec
    /\ \A i \in Instance :
          /\ WF_vars(Close(i)) /\ WF_vars(SpawnError(i))
          /\ WF_vars(child[i] = "kill" /\ ProcessEnds(i))
          /\ \A u \in User : WF_vars(PollStart(u, i) \/ StartTimeout(u, i)) /\ WF_vars(StopTimeout(u, i))

-----------------------------------------------------------------------------
TypeOK ==
    /\ gateways \in [User -> Instance \cup {NoInstance}]
    /\ usedPorts \subseteq Port
    /\ port \in [Instance -> Port \cup {0}]
    /\ status \in [Instance -> {"unborn", "starting", "running", "stopped", "error"}]
    /\ child \in [Instance -> Running \cup Ended \cup {"unborn", "error"}]
    /\ closed \in [Instance -> BOOLEAN]
    /\ starting \subseteq User \X Instance /\ stopping \subseteq User \X Instance
    /\ down \in BOOLEAN

(* However starts, stops, timeouts and process events interleave, a port is  *)
(* never lost: one that is in use belongs to an instance yet to be closed.   *)
NoPortLost == \A p \in usedPorts : \E i \in Instance : HasProcess(i) /\ port[i] = p

(* "No port conflicts": two gateways that run never share a port.            *)
PortsExclusive ==
    \A i, j \in Instance : child[i] \in Running /\ child[j] \in Running /\ port[i] = port[j] => i = j

(* A user who starts his gateway again gets the one he has: he never has two *)
(* processes, and every process that runs can still be found and stopped.    *)
Managed ==
    \A i \in Instance : child[i] = "live" /\ ~down => \E u \in User : gateways[u] = i

(* Every start and every stop returns, even from a process that hangs.       *)
CallsReturn ==
    \A u \in User, i \in Instance :
        /\ <<u, i>> \in starting ~> <<u, i>> \notin starting
        /\ <<u, i>> \in stopping ~> <<u, i>> \notin stopping
=============================================================================
