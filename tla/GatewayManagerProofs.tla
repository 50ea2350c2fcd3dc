------------------------- MODULE GatewayManagerProofs -------------------------
(***************************************************************************)
(* What holds of GatewayManagerService for any number of users, starts and *)
(* ports, whatever the child processes do and however calls overlap: types *)
(* and that the pool never loses a port.  Then what holds while only some  *)
(* of the disturbances have happened, proved of the specification with the *)
(* history of them (HSpec), of which the run's MCSpec is a restriction.    *)
(***************************************************************************)
EXTENDS MCGatewayManager, TLAPS

(* An instance not yet started was not closed: its start makes it the owner   *)
(* of the port it takes.                                                      *)
UnbornIsOpen == \A i \in Instance : status[i] = "unborn" => ~closed[i]

IInv == TypeOK /\ UnbornIsOpen /\ NoPortLost

LEMMA InitEstablishes == Init => IInv
  BY NoInstanceAssumption, MaxPortsAssumption
  DEF Init, IInv, TypeOK, UnbornIsOpen, NoPortLost, Port, Running, Ended

(* A step that takes no port and closes no instance keeps every port in hand. *)
LEMMA KeepsPorts ==
    ASSUME IInv, usedPorts' \subseteq usedPorts, UNCHANGED <<port, closed>>,
           \A i \in Instance : status'[i] = "unborn" => status[i] = "unborn"
    PROVE UnbornIsOpen' /\ NoPortLost'
  BY DEF IInv, UnbornIsOpen, NoPortLost, HasProcess, Started

LEMMA StartPreserves ==
    ASSUME IInv, NEW u \in User, NEW i \in Instance, StartUserGateway(u, i)
    PROVE IInv'
  <1>1. PICK p \in FreePorts : usedPorts' = usedPorts \cup {p} /\ port' = [port EXCEPT ![i] = p]
    BY DEF StartUserGateway
  <1>2. p \in Port \ usedPorts
    BY <1>1 DEF FreePorts
  <1>3. /\ status[i] = "unborn"
        /\ gateways' = [gateways EXCEPT ![u] = i]
        /\ status' = [status EXCEPT ![i] = "starting"]
        /\ \E c \in {"live", "error"} : child' = [child EXCEPT ![i] = c]
        /\ starting' = starting \cup {<<u, i>>}
        /\ UNCHANGED <<closed, stopping, down>>
    BY DEF StartUserGateway, Started
  <1>4. TypeOK'
    BY <1>1, <1>2, <1>3 DEF IInv, TypeOK, Running
  <1>5. UnbornIsOpen'
    BY <1>3 DEF IInv, TypeOK, UnbornIsOpen
  <1>6. ASSUME NEW q \in usedPorts' PROVE \E j \in Instance : HasProcess(j)' /\ port'[j] = q
    <2>1. CASE q = p
      <3>1. HasProcess(i)' /\ port'[i] = q
        BY <1>1, <1>3, <2>1 DEF IInv, TypeOK, UnbornIsOpen, HasProcess, Started
      <3> QED
        BY <3>1
    <2>2. CASE q \in usedPorts
      <3>1. PICK j \in Instance : HasProcess(j) /\ port[j] = q
        BY <2>2 DEF IInv, NoPortLost
      <3>2. j # i
        BY <1>3, <3>1 DEF HasProcess, Started
      <3>3. HasProcess(j)' /\ port'[j] = q
        BY <1>1, <1>3, <3>1, <3>2 DEF IInv, TypeOK, HasProcess, Started
      <3> QED
        BY <3>3
    <2> QED
      BY <1>1, <2>1, <2>2
  <1> QED
    BY <1>4, <1>5, <1>6 DEF IInv, NoPortLost

LEMMA StopPreserves ==
    ASSUME IInv, NEW u \in User, StopWithoutProcess(u) \/ StopUserGateway(u)
    PROVE IInv'
  <1>1. CASE StopWithoutProcess(u)
    <2>1. TypeOK'
      BY <1>1 DEF StopWithoutProcess, IInv, TypeOK
    <2> QED
      BY <1>1, <2>1, KeepsPorts DEF StopWithoutProcess, IInv
  <1>2. CASE StopUserGateway(u)
    <2>1. gateways[u] \in Instance
      BY <1>2 DEF StopUserGateway, IInv, TypeOK
    <2>2. TypeOK'
      BY <1>2, <2>1 DEF StopUserGateway, IInv, TypeOK, Running, Ended
    <2> QED
      BY <1>2, <2>2, KeepsPorts DEF StopUserGateway, IInv
  <1> QED
    BY <1>1, <1>2

(* The close event gives the port of its instance back: whatever is still in  *)
(* use belongs to another one.                                                *)
LEMMA ClosePreserves == ASSUME IInv, NEW i \in Instance, Close(i) PROVE IInv'
  <1>1. /\ status' = [status EXCEPT ![i] = "stopped"]
        /\ closed' = [closed EXCEPT ![i] = TRUE]
        /\ usedPorts' = usedPorts \ {port[i]}
        /\ stopping' \subseteq stopping
        /\ gateways' \in [User -> Instance \cup {NoInstance}]
        /\ UNCHANGED <<port, child, starting, down>>
    BY DEF Close, Forget, IInv, TypeOK
  <1>2. TypeOK'
    BY <1>1 DEF IInv, TypeOK
  <1>3. UnbornIsOpen'
    BY <1>1 DEF IInv, TypeOK, UnbornIsOpen
  <1>4. ASSUME NEW q \in usedPorts' PROVE \E j \in Instance : HasProcess(j)' /\ port'[j] = q
    <2>1. PICK j \in Instance : HasProcess(j) /\ port[j] = q
      BY <1>1 DEF IInv, NoPortLost
    <2>2. j # i
      BY <1>1, <2>1
    <2>3. HasProcess(j)' /\ port'[j] = q
      BY <1>1, <2>1, <2>2 DEF IInv, TypeOK, HasProcess, Started
    <2> QED
      BY <2>3
  <1> QED
    BY <1>2, <1>3, <1>4 DEF IInv, NoPortLost

LEMMA TurnPreserves == ASSUME IInv, NEW i \in Instance, Turn(i) PROVE IInv'
  <1>1. CASE Ready(i)
    <2>1. TypeOK'
      BY <1>1 DEF Ready, IInv, TypeOK
    <2> QED
      BY <1>1, <2>1, KeepsPorts DEF Ready, IInv, TypeOK
  <1>2. CASE SpawnError(i)
    <2>1. TypeOK'
      BY <1>2 DEF SpawnError, IInv, TypeOK, Ended
    <2>2. /\ usedPorts' \subseteq usedPorts /\ UNCHANGED <<port, closed>>
          /\ \A j \in Instance : status'[j] = "unborn" => status[j] = "unborn"
      BY <1>2 DEF SpawnError, IInv, TypeOK
    <2> QED
      BY <2>1, <2>2, KeepsPorts DEF IInv
  <1>3. CASE ProcessEnds(i)
    <2>1. TypeOK'
      BY <1>3 DEF ProcessEnds, IInv, TypeOK, Ended
    <2> QED
      BY <1>3, <2>1, KeepsPorts DEF ProcessEnds, IInv
  <1>4. CASE Close(i)
    BY <1>4, ClosePreserves
  <1>5. ASSUME NEW u \in User, PollStart(u, i) PROVE IInv'
    <2>1. TypeOK' /\ usedPorts' \subseteq usedPorts
      BY <1>5 DEF PollStart, IInv, TypeOK
    <2> QED
      BY <1>5, <2>1, KeepsPorts DEF PollStart, IInv
  <1>6. ASSUME NEW u \in User, StartTimeout(u, i) PROVE IInv'
    <2>1. TypeOK'
      BY <1>6 DEF StartTimeout, IInv, TypeOK
    <2>2. \A j \in Instance : status'[j] = "unborn" => status[j] = "unborn"
      BY <1>6 DEF StartTimeout, IInv, TypeOK
    <2> QED
      BY <1>6, <2>1, <2>2, KeepsPorts DEF StartTimeout, IInv
  <1>7. ASSUME NEW u \in User, StopTimeout(u, i) PROVE IInv'
    <2>1. TypeOK'
      BY <1>7 DEF StopTimeout, Forget, IInv, TypeOK, Running
    <2> QED
      BY <1>7, <2>1, KeepsPorts DEF StopTimeout, IInv
  <1> QED
    BY <1>1, <1>2, <1>3, <1>4, <1>5, <1>6, <1>7 DEF Turn

LEMMA DestroyPreserves == ASSUME IInv, ModuleDestroy PROVE IInv'
  <1>1. TypeOK'
    BY DEF ModuleDestroy, IInv, TypeOK, Running
  <1> QED
    BY <1>1, KeepsPorts DEF ModuleDestroy, IInv

LEMMA StepPreserves == IInv /\ [Next]_vars => IInv'
  <1> SUFFICES ASSUME IInv, [Next]_vars PROVE IInv'
    OBVIOUS
  <1>1. CASE UNCHANGED vars
    BY <1>1 DEF vars, IInv, TypeOK, UnbornIsOpen, NoPortLost, HasProcess, Started
  <1>2. CASE Next
    BY <1>2, StartPreserves, StopPreserves, TurnPreserves, DestroyPreserves DEF Next
  <1> QED
    BY <1>1, <1>2

LEMMA Invariance == Spec => []IInv
  BY InitEstablishes, StepPreserves, PTL DEF Spec

(* Every record, port and process state is typed in every reachable state.    *)
THEOREM TypeCorrect == Spec => []TypeOK
  <1>1. IInv => TypeOK
    BY DEF IInv
  <1> QED
    BY <1>1, Invariance, PTL

(* startUserGateway and the events of its child: a port in use belongs to an  *)
(* instance whose close event is still to come, and comes back with it.       *)
THEOREM PortsNeverLost == Spec => []NoPortLost
  <1>1. IInv => NoPortLost
    BY DEF IInv
  <1> QED
    BY <1>1, Invariance, PTL

-----------------------------------------------------------------------------
(* The life of an instance: no child before its start and none after its      *)
(* close, and nobody waits for or holds an instance that was never started.   *)
Lifecycle ==
    /\ \A i \in Instance :
          /\ child[i] = "unborn" <=> status[i] = "unborn"
          /\ closed[i] => child[i] \in Ended
          /\ child[i] = "error" => "spawnFails" \in Disturbances
    /\ \A u \in User, i \in Instance :
          gateways[u] = i \/ <<u, i>> \in starting \cup stopping => Started(i)

BaseInv == TypeOK /\ Lifecycle

(* A step that is disturbed says so, and what has happened stays in mind.     *)
LEMMA Remembered ==
    ASSUME happened' = happened \cup {d \in Disturbances : Happens(d)}
    PROVE /\ happened \subseteq happened'
          /\ \A i \in Instance :
                /\ "spawnFails" \in Disturbances /\ SpawnError(i) => "spawnFails" \in happened'
                /\ child[i] = "live" /\ ProcessEnds(i) => "exits" \in happened'
          /\ \A u \in User :
                /\ \A i \in Instance : StopTimeout(u, i) => "slowExit" \in happened'
                /\ MayCall(u) /\ Call(u) /\ "overlap" \notin happened' => Idle(u)
  <1>1. happened \subseteq happened'
    OBVIOUS
  <1>2. ASSUME NEW i \in Instance, "spawnFails" \in Disturbances, SpawnError(i)
        PROVE "spawnFails" \in happened'
    <2>1. Happens("spawnFails")
      BY <1>2 DEF Happens
    <2> QED
      BY <1>2, <2>1
  <1>3. ASSUME NEW i \in Instance, child[i] = "live", ProcessEnds(i) PROVE "exits" \in happened'
    <2>1. Happens("exits") /\ "exits" \in Disturbances
      BY <1>3 DEF Happens, ProcessEnds
    <2> QED
      BY <2>1
  <1>4. ASSUME NEW u \in User, NEW i \in Instance, StopTimeout(u, i) PROVE "slowExit" \in happened'
    <2>1. Happens("slowExit") /\ "slowExit" \in Disturbances
      BY <1>4 DEF Happens, StopTimeout
    <2> QED
      BY <2>1
  <1>5. ASSUME NEW u \in User, MayCall(u), Call(u), "overlap" \notin happened' PROVE Idle(u)
    <2>1. ASSUME ~Idle(u) PROVE FALSE
      <3>1. Happens("overlap")
        BY <1>5, <2>1 DEF Happens
      <3>2. "overlap" \in Disturbances
        BY <1>5, <2>1 DEF MayCall
      <3> QED
        BY <1>5, <3>1, <3>2
    <2> QED
      BY <2>1
  <1> QED
    BY <1>1, <1>2, <1>3, <1>4, <1>5

LEMMA BaseInit == Init => BaseInv
  <1>1. Init => TypeOK
    BY NoInstanceAssumption, MaxPortsAssumption DEF Init, TypeOK, Running, Ended
  <1>2. Init => Lifecycle
    BY NoInstanceAssumption DEF Init, Lifecycle, Started
  <1> QED
    BY <1>1, <1>2 DEF BaseInv

(* The instance a user starts is new: nobody holds it or waits for it yet.    *)
LEMMA StartLives ==
    ASSUME BaseInv, NEW u \in User, NEW i \in Instance, StartUserGateway(u, i) PROVE Lifecycle'
  <1>1. PICK c \in {"live", "error"} :
          /\ c = "error" => "spawnFails" \in Disturbances
          /\ child' = [child EXCEPT ![i] = c]
    BY DEF StartUserGateway
  <1>2. /\ status[i] = "unborn"
        /\ gateways' = [gateways EXCEPT ![u] = i]
        /\ status' = [status EXCEPT ![i] = "starting"]
        /\ starting' = starting \cup {<<u, i>>}
        /\ UNCHANGED <<closed, stopping>>
    BY DEF StartUserGateway, Started
  <1>3. ASSUME NEW j \in Instance
        PROVE /\ child'[j] = "unborn" <=> status'[j] = "unborn"
              /\ closed'[j] => child'[j] \in Ended
              /\ child'[j] = "error" => "spawnFails" \in Disturbances
    BY <1>1, <1>2 DEF BaseInv, TypeOK, Lifecycle, Ended
  <1>4. ASSUME NEW v \in User, NEW j \in Instance, gateways'[v] = j \/ <<v, j>> \in starting' \cup stopping'
        PROVE Started(j)'
    BY <1>2, <1>4 DEF BaseInv, TypeOK, Lifecycle, Started
  <1> QED
    BY <1>3, <1>4 DEF Lifecycle

LEMMA CallLives ==
    ASSUME BaseInv, NEW u \in User, StopWithoutProcess(u) \/ StopUserGateway(u) PROVE Lifecycle'
  <1>1. CASE StopWithoutProcess(u)
    BY <1>1, NoInstanceAssumption DEF StopWithoutProcess, BaseInv, TypeOK, Lifecycle, Started
  <1>2. CASE StopUserGateway(u)
    <2>1. gateways[u] \in Instance
      BY <1>2 DEF StopUserGateway, BaseInv, TypeOK
    <2>2. /\ child' = [child EXCEPT ![gateways[u]] = IF @ = "live" THEN "term" ELSE @]
          /\ stopping' = stopping \cup {<<u, gateways[u]>>}
          /\ UNCHANGED <<gateways, status, closed, starting>>
      BY <1>2 DEF StopUserGateway
    <2> QED
      BY <2>1, <2>2 DEF BaseInv, TypeOK, Lifecycle, Started, Ended
  <1> QED
    BY <1>1, <1>2

LEMMA TurnLives == ASSUME BaseInv, NEW i \in Instance, Turn(i) PROVE Lifecycle'
  <1>1. CASE Ready(i)
    BY <1>1 DEF Ready, BaseInv, TypeOK, Lifecycle, HasProcess, Started
  <1>2. CASE SpawnError(i)
    BY <1>2 DEF SpawnError, BaseInv, TypeOK, Lifecycle, Started, Ended
  <1>3. CASE ProcessEnds(i)
    BY <1>3 DEF ProcessEnds, BaseInv, TypeOK, Lifecycle, Started, Running, Ended
  <1>4. CASE Close(i)
    BY <1>4, NoInstanceAssumption DEF Close, Forget, BaseInv, TypeOK, Lifecycle, HasProcess, Started, Ended
  <1>5. ASSUME NEW u \in User, PollStart(u, i) PROVE Lifecycle'
    BY <1>5 DEF PollStart, BaseInv, TypeOK, Lifecycle, Started
  <1>6. ASSUME NEW u \in User, StartTimeout(u, i) PROVE Lifecycle'
    BY <1>6 DEF StartTimeout, BaseInv, TypeOK, Lifecycle, Started
  <1>7. ASSUME NEW u \in User, StopTimeout(u, i) PROVE Lifecycle'
    BY <1>7, NoInstanceAssumption DEF StopTimeout, Forget, BaseInv, TypeOK, Lifecycle, Started, Running, Ended
  <1> QED
    BY <1>1, <1>2, <1>3, <1>4, <1>5, <1>6, <1>7 DEF Turn

LEMMA BasePreserved == BaseInv /\ IInv /\ [Next]_vars => BaseInv'
  <1> SUFFICES ASSUME BaseInv, IInv, [Next]_vars PROVE BaseInv'
    OBVIOUS
  <1>1. TypeOK'
    BY StepPreserves DEF IInv
  <1>2. CASE UNCHANGED vars
    BY <1>1, <1>2 DEF vars, BaseInv, Lifecycle, Started
  <1>3. CASE ModuleDestroy
    <2>1. Lifecycle'
      BY <1>3, NoInstanceAssumption DEF ModuleDestroy, BaseInv, TypeOK, Lifecycle, Started, Ended
    <2> QED
      BY <1>1, <2>1 DEF BaseInv
  <1>4. CASE Next /\ ~ModuleDestroy
    BY <1>1, <1>4, StartLives, CallLives, TurnLives DEF Next, BaseInv
  <1> QED
    BY <1>2, <1>3, <1>4

-----------------------------------------------------------------------------
(* While every child starts, runs until it is stopped and ends in time, an    *)
(* object in the Map has its process, and the port of a process is its own    *)
(* until its close event.  So no stop finds an object without process, and    *)
(* nothing releases a port that an instance still holds.                      *)
Quiet ==
    /\ \A i \in Instance : child[i] \notin {"kill", "failed"} /\ status[i] # "error"
    /\ \A i \in Instance : ~down /\ HasProcess(i) => port[i] \in usedPorts
    /\ \A i, j \in Instance : HasProcess(i) /\ HasProcess(j) /\ port[i] = port[j] => i = j
    /\ \A u \in User, i \in Instance :
          gateways[u] = i => HasProcess(i) /\ (child[i] \in {"term", "dead"} => <<u, i>> \in stopping)
    /\ \A u, v \in User : gateways[u] = gateways[v] /\ gateways[u] \in Instance => u = v

PeaceInv == happened \subseteq {"overlap"} => Quiet

LEMMA QuietMeansExclusive == BaseInv /\ Quiet => PortsExclusive
  BY DEF BaseInv, TypeOK, Lifecycle, Quiet, PortsExclusive, HasProcess, Started, Running, Ended

LEMMA QuietInit == Init => Quiet
  BY NoInstanceAssumption DEF Init, Quiet, HasProcess, Started

LEMMA QuietStart ==
    ASSUME BaseInv, Quiet, NEW u \in User, NEW i \in Instance, StartUserGateway(u, i) PROVE Quiet'
  <1>1. PICK p \in FreePorts : usedPorts' = usedPorts \cup {p} /\ port' = [port EXCEPT ![i] = p]
    BY DEF StartUserGateway
  <1>2. p \in Port \ usedPorts
    BY <1>1 DEF FreePorts
  <1>3. PICK c \in {"live", "error"} : child' = [child EXCEPT ![i] = c]
    BY DEF StartUserGateway
  <1>4. /\ status[i] = "unborn" /\ ~down
        /\ gateways' = [gateways EXCEPT ![u] = i]
        /\ status' = [status EXCEPT ![i] = "starting"]
        /\ UNCHANGED <<closed, stopping, down>>
    BY DEF StartUserGateway, MayCall, Started
  <1>5. HasProcess(i)' /\ \A j \in Instance \ {i} : HasProcess(j)' <=> HasProcess(j)
    BY <1>4 DEF BaseInv, TypeOK, Lifecycle, HasProcess, Started, Ended
  <1>6. \A j \in Instance : child'[j] \notin {"kill", "failed"} /\ status'[j] # "error"
    BY <1>3, <1>4 DEF BaseInv, TypeOK, Quiet
  <1>7. \A j \in Instance : HasProcess(j)' => port'[j] \in usedPorts'
    BY <1>1, <1>4, <1>5 DEF BaseInv, TypeOK, Quiet
  <1>8. \A j, k \in Instance : HasProcess(j)' /\ HasProcess(k)' /\ port'[j] = port'[k] => j = k
    BY <1>1, <1>2, <1>4, <1>5 DEF BaseInv, TypeOK, Quiet
  <1>9. \A v \in User : gateways[v] # i
    BY <1>4 DEF BaseInv, Lifecycle, Started
  <1>10. ASSUME NEW v \in User, NEW j \in Instance, gateways'[v] = j
         PROVE HasProcess(j)' /\ (child'[j] \in {"term", "dead"} => <<v, j>> \in stopping')
    BY <1>3, <1>4, <1>5, <1>9, <1>10 DEF BaseInv, TypeOK, Quiet
  <1>11. \A v, w \in User : gateways'[v] = gateways'[w] /\ gateways'[v] \in Instance => v = w
    BY <1>4, <1>9 DEF BaseInv, TypeOK, Quiet
  <1> QED
    BY <1>6, <1>7, <1>8, <1>10, <1>11 DEF Quiet

LEMMA QuietStop ==
    ASSUME BaseInv, Quiet, NEW u \in User, StopWithoutProcess(u) \/ StopUserGateway(u) PROVE Quiet'
  <1>1. gateways[u] \in Instance
    BY DEF StopWithoutProcess, StopUserGateway, BaseInv, TypeOK
  <1>2. StopUserGateway(u)
    BY <1>1 DEF StopWithoutProcess, Quiet
  <1>3. /\ child' = [child EXCEPT ![gateways[u]] = IF @ = "live" THEN "term" ELSE @]
        /\ stopping' = stopping \cup {<<u, gateways[u]>>}
        /\ UNCHANGED <<gateways, usedPorts, port, status, closed, starting, down>>
    BY <1>2 DEF StopUserGateway
  <1>4. \A i \in Instance : HasProcess(i)' <=> HasProcess(i)
    BY <1>3 DEF HasProcess, Started
  <1>5. \A i \in Instance : child'[i] \notin {"kill", "failed"} /\ status'[i] # "error"
    BY <1>1, <1>3 DEF BaseInv, TypeOK, Quiet
  <1>6. ASSUME NEW v \in User, NEW i \in Instance, gateways'[v] = i, child'[i] \in {"term", "dead"}
        PROVE <<v, i>> \in stopping'
    BY <1>1, <1>3, <1>6 DEF BaseInv, TypeOK, Quiet
  <1> QED
    BY <1>3, <1>4, <1>5, <1>6 DEF Quiet

LEMMA QuietClose == ASSUME BaseInv, Quiet, NEW i \in Instance, Close(i) PROVE Quiet'
  <1> DEFINE stoppers == {u \in User : <<u, i>> \in stopping}
  <1>1. /\ HasProcess(i) /\ child[i] \in Ended
        /\ status' = [status EXCEPT ![i] = "stopped"]
        /\ closed' = [closed EXCEPT ![i] = TRUE]
        /\ usedPorts' = usedPorts \ {port[i]}
        /\ stopping' = {w \in stopping : w[2] # i}
        /\ gateways' = [u \in User |-> IF u \in stoppers THEN NoInstance ELSE gateways[u]]
        /\ UNCHANGED <<port, child, starting, down>>
    BY DEF Close, Forget
  <1>2. \A j \in Instance : HasProcess(j)' <=> HasProcess(j) /\ j # i
    BY <1>1 DEF BaseInv, TypeOK, HasProcess, Started
  <1>3. \A u \in User : gateways'[u] \in Instance => gateways'[u] = gateways[u] /\ gateways[u] # i
    BY <1>1, NoInstanceAssumption DEF Quiet, Ended
  <1>4. \A j \in Instance : child'[j] \notin {"kill", "failed"} /\ status'[j] # "error"
    BY <1>1 DEF BaseInv, TypeOK, Quiet
  <1>5. \A j \in Instance : ~down' /\ HasProcess(j)' => port'[j] \in usedPorts'
    BY <1>1, <1>2 DEF Quiet
  <1>6. \A j, k \in Instance : HasProcess(j)' /\ HasProcess(k)' /\ port'[j] = port'[k] => j = k
    BY <1>1, <1>2 DEF Quiet
  <1>7. ASSUME NEW v \in User, NEW j \in Instance, gateways'[v] = j
        PROVE HasProcess(j)' /\ (child'[j] \in {"term", "dead"} => <<v, j>> \in stopping')
    BY <1>1, <1>2, <1>3, <1>7 DEF Quiet
  <1>8. \A v, w \in User : gateways'[v] = gateways'[w] /\ gateways'[v] \in Instance => v = w
    BY <1>3 DEF Quiet
  <1> QED
    BY <1>4, <1>5, <1>6, <1>7, <1>8 DEF Quiet

LEMMA QuietTurn ==
    ASSUME BaseInv, Quiet, NEW i \in Instance, Turn(i), ~Close(i),
           happened' = happened \cup {d \in Disturbances : Happens(d)},
           happened' \subseteq {"overlap"}
    PROVE Quiet'
  <1>1. CASE Ready(i)
    BY <1>1 DEF Ready, BaseInv, TypeOK, Quiet, HasProcess, Started
  <1>2. CASE SpawnError(i)
    BY <1>2, Remembered DEF SpawnError, BaseInv, Lifecycle
  <1>3. CASE ProcessEnds(i)
    <2>1. child[i] = "term"
      BY <1>3, Remembered DEF ProcessEnds, Running, Quiet
    <2>2. child' = [child EXCEPT ![i] = "dead"]
          /\ UNCHANGED <<gateways, usedPorts, port, status, closed, starting, stopping, down>>
      BY <1>3 DEF ProcessEnds
    <2> QED
      BY <2>1, <2>2 DEF BaseInv, TypeOK, Quiet, HasProcess, Started
  <1>4. ASSUME NEW u \in User, PollStart(u, i) PROVE Quiet'
    BY <1>4 DEF PollStart, BaseInv, TypeOK, Quiet, HasProcess, Started
  <1>5. ASSUME NEW u \in User, StartTimeout(u, i) PROVE Quiet'
    BY <1>5 DEF StartTimeout, BaseInv, TypeOK, Lifecycle, Quiet, HasProcess, Started
  <1>6. ASSUME NEW u \in User, StopTimeout(u, i) PROVE Quiet'
    BY <1>6, Remembered
  <1> QED
    BY <1>1, <1>2, <1>3, <1>4, <1>5, <1>6 DEF Turn

LEMMA PeacePreserved == BaseInv /\ PeaceInv /\ [HNext]_<<vars, happened>> => PeaceInv'
  <1> SUFFICES ASSUME BaseInv, PeaceInv, [HNext]_<<vars, happened>>, (happened \subseteq {"overlap"})'
               PROVE Quiet'
    BY DEF PeaceInv
  <1>1. CASE UNCHANGED <<vars, happened>>
    BY <1>1 DEF vars, PeaceInv, Quiet, HasProcess, Started
  <1>2. CASE HNext
    <2>1. Next /\ happened' = happened \cup {d \in Disturbances : Happens(d)}
      BY <1>2 DEF HNext
    <2>2. Quiet
      BY <2>1 DEF PeaceInv
    <2>3. CASE ModuleDestroy
      BY <2>2, <2>3, NoInstanceAssumption DEF ModuleDestroy, BaseInv, TypeOK, Quiet, HasProcess, Started
    <2>4. CASE Next /\ ~ModuleDestroy
      BY <2>1, <2>2, <2>4, QuietStart, QuietStop, QuietClose, QuietTurn DEF Next
    <2> QED
      BY <2>1, <2>3, <2>4
  <1> QED
    BY <1>1, <1>2

-----------------------------------------------------------------------------
(* While no user calls before his last call returned, an object that is still *)
(* "starting" has its start waiting and a wait for a stop is for the object   *)
(* in the Map, so a start that replaces an object replaces a dead one.        *)
Serial ==
    /\ Managed
    /\ \A i \in Instance :
          /\ status[i] = "error" => child[i] = "failed"
          /\ status[i] = "stopped" => child[i] \in Ended
    /\ \A u \in User, i \in Instance :
          /\ gateways[u] = i /\ status[i] = "starting" => <<u, i>> \in starting
          /\ <<u, i>> \in stopping => child[i] # "live" /\ (~down => gateways[u] = i)

TurnInv == "overlap" \notin happened => Serial

LEMMA SerialInit == Init => Serial
  BY NoInstanceAssumption DEF Init, Serial, Managed

LEMMA SerialStart ==
    ASSUME BaseInv, Serial, NEW u \in User, NEW i \in Instance, StartUserGateway(u, i), Idle(u)
    PROVE Serial'
  <1>1. PICK c \in {"live", "error"} : child' = [child EXCEPT ![i] = c]
    BY DEF StartUserGateway
  <1>2. /\ status[i] = "unborn" /\ ~down
        /\ gateways[u] # NoInstance => status[gateways[u]] # "running"
        /\ gateways' = [gateways EXCEPT ![u] = i]
        /\ status' = [status EXCEPT ![i] = "starting"]
        /\ starting' = starting \cup {<<u, i>>}
        /\ UNCHANGED <<closed, stopping, down>>
    BY DEF StartUserGateway, MayCall, Started
  <1>3. ASSUME NEW j \in Instance, gateways[u] = j PROVE child[j] # "live"
    <2>1. status[j] # "running"
      BY <1>2, <1>3, NoInstanceAssumption
    <2>2. status[j] # "starting"
      BY <1>3 DEF Serial, Idle
    <2>3. status[j] \in {"stopped", "error"}
      BY <1>3, <2>1, <2>2 DEF BaseInv, TypeOK, Lifecycle, Started
    <2> QED
      BY <2>3 DEF Serial, Ended
  <1>4. Managed'
    BY <1>1, <1>2, <1>3 DEF BaseInv, TypeOK, Serial, Managed
  <1>5. ASSUME NEW j \in Instance
        PROVE (status'[j] = "error" => child'[j] = "failed") /\ (status'[j] = "stopped" => child'[j] \in Ended)
    BY <1>1, <1>2 DEF BaseInv, TypeOK, Serial
  <1>6. ASSUME NEW v \in User, NEW j \in Instance, gateways'[v] = j, status'[j] = "starting"
        PROVE <<v, j>> \in starting'
    BY <1>2, <1>6 DEF BaseInv, TypeOK, Lifecycle, Serial, Started
  <1>7. ASSUME NEW v \in User, NEW j \in Instance, <<v, j>> \in stopping'
        PROVE child'[j] # "live" /\ gateways'[v] = j
    <2>1. j # i /\ v # u
      BY <1>2, <1>7 DEF BaseInv, Lifecycle, Started, Idle
    <2> QED
      BY <1>1, <1>2, <1>7, <2>1 DEF BaseInv, TypeOK, Serial
  <1> QED
    BY <1>4, <1>5, <1>6, <1>7 DEF Serial

LEMMA SerialStop ==
    ASSUME BaseInv, Serial, NEW u \in User, StopWithoutProcess(u) \/ StopUserGateway(u), Idle(u)
    PROVE Serial'
  <1>1. gateways[u] \in Instance
    BY DEF StopWithoutProcess, StopUserGateway, BaseInv, TypeOK
  <1>2. CASE StopWithoutProcess(u)
    <2>1. /\ ~HasProcess(gateways[u])
          /\ gateways' = [gateways EXCEPT ![u] = NoInstance]
          /\ UNCHANGED <<status, child, closed, starting, stopping, down>>
      BY <1>2 DEF StopWithoutProcess
    <2>2. child[gateways[u]] # "live"
      BY <1>1, <2>1 DEF BaseInv, Lifecycle, HasProcess, Started, Ended
    <2>3. Managed'
      BY <2>1, <2>2 DEF BaseInv, TypeOK, Serial, Managed
    <2>4. ASSUME NEW v \in User, NEW j \in Instance
          PROVE /\ gateways'[v] = j /\ status'[j] = "starting" => <<v, j>> \in starting'
                /\ <<v, j>> \in stopping' => child'[j] # "live" /\ (~down' => gateways'[v] = j)
      BY <2>1, NoInstanceAssumption DEF BaseInv, TypeOK, Serial, Idle
    <2> QED
      BY <2>1, <2>3, <2>4 DEF Serial
  <1>3. CASE StopUserGateway(u)
    <2>1. /\ child' = [child EXCEPT ![gateways[u]] = IF @ = "live" THEN "term" ELSE @]
          /\ stopping' = stopping \cup {<<u, gateways[u]>>}
          /\ UNCHANGED <<gateways, status, closed, starting, down>>
      BY <1>3 DEF StopUserGateway
    <2>2. Managed'
      BY <1>1, <2>1 DEF BaseInv, TypeOK, Serial, Managed
    <2>3. ASSUME NEW j \in Instance
          PROVE (status'[j] = "error" => child'[j] = "failed") /\ (status'[j] = "stopped" => child'[j] \in Ended)
      BY <1>1, <2>1 DEF BaseInv, TypeOK, Serial, Ended
    <2>4. ASSUME NEW v \in User, NEW j \in Instance
          PROVE /\ gateways'[v] = j /\ status'[j] = "starting" => <<v, j>> \in starting'
                /\ <<v, j>> \in stopping' => child'[j] # "live" /\ (~down' => gateways'[v] = j)
      BY <1>1, <2>1 DEF BaseInv, TypeOK, Serial
    <2> QED
      BY <2>2, <2>3, <2>4 DEF Serial
  <1> QED
    BY <1>2, <1>3

(* What a stop forgets when its wait is over is the object it waited for, and *)
(* that has no live process any more.                                         *)
LEMMA SerialForget ==
    ASSUME BaseInv, Serial, NEW i \in Instance, NEW S \in SUBSET {u \in User : <<u, i>> \in stopping},
           Forget(S), child' \in [Instance -> {"live", "term", "kill", "dead", "failed", "unborn", "error"}],
           \A j \in Instance : (child'[j] = "live" <=> child[j] = "live") /\ (child[j] \in Ended => child'[j] = child[j]),
           \A j \in Instance : status'[j] # status[j] => status'[j] = "stopped" /\ child[j] \in Ended,
           stopping' \subseteq {w \in stopping : ~(w[1] \in S /\ w[2] = i)},
           UNCHANGED <<starting, down>>
    PROVE Serial'
  <1>1. gateways' = [u \in User |-> IF u \in S THEN NoInstance ELSE gateways[u]]
    BY DEF Forget
  <1>2. \A u \in S : u \in User /\ child[i] # "live" /\ (~down => gateways[u] = i)
    BY DEF Serial
  <1>3. Managed'
    BY <1>1, <1>2 DEF Serial, Managed
  <1>4. ASSUME NEW j \in Instance
        PROVE (status'[j] = "error" => child'[j] = "failed") /\ (status'[j] = "stopped" => child'[j] \in Ended)
    BY DEF Serial, Ended
  <1>5. ASSUME NEW v \in User, NEW j \in Instance
        PROVE gateways'[v] = j /\ status'[j] = "starting" => <<v, j>> \in starting'
    BY <1>1, NoInstanceAssumption DEF Serial
  <1>6. ASSUME NEW v \in User, NEW j \in Instance, <<v, j>> \in stopping'
        PROVE child'[j] # "live" /\ (~down' => gateways'[v] = j)
    <2>1. <<v, j>> \in stopping /\ ~(v \in S /\ j = i)
      BY <1>6
    <2> QED
      BY <1>1, <1>2, <2>1 DEF Serial
  <1> QED
    BY <1>3, <1>4, <1>5, <1>6 DEF Serial

LEMMA SerialTurn == ASSUME BaseInv, Serial, NEW i \in Instance, Turn(i) PROVE Serial'
  <1>1. CASE Ready(i)
    BY <1>1 DEF Ready, BaseInv, TypeOK, Serial, Managed
  <1>2. CASE SpawnError(i)
    BY <1>2 DEF SpawnError, BaseInv, TypeOK, Serial, Managed, Ended
  <1>3. CASE ProcessEnds(i)
    BY <1>3 DEF ProcessEnds, BaseInv, TypeOK, Serial, Managed, Running, Ended
  <1>4. CASE Close(i)
    <2> DEFINE S == {u \in User : <<u, i>> \in stopping}
    <2>1. /\ child[i] \in Ended /\ Forget(S)
          /\ status' = [status EXCEPT ![i] = "stopped"]
          /\ stopping' = {w \in stopping : w[2] # i}
          /\ UNCHANGED <<child, starting, down>>
      BY <1>4 DEF Close
    <2>2. child' \in [Instance -> {"live", "term", "kill", "dead", "failed", "unborn", "error"}]
      BY <2>1 DEF BaseInv, TypeOK, Running, Ended
    <2>3. \A j \in Instance : status'[j] # status[j] => status'[j] = "stopped" /\ child[j] \in Ended
      BY <2>1 DEF BaseInv, TypeOK
    <2>4. stopping' \subseteq {w \in stopping : ~(w[1] \in S /\ w[2] = i)}
      BY <2>1
    <2> QED
      BY <2>1, <2>2, <2>3, <2>4, SerialForget
  <1>5. ASSUME NEW u \in User, PollStart(u, i) PROVE Serial'
    BY <1>5 DEF PollStart, BaseInv, TypeOK, Serial, Managed
  <1>6. ASSUME NEW u \in User, StartTimeout(u, i) PROVE Serial'
    BY <1>6 DEF StartTimeout, BaseInv, TypeOK, Serial, Managed
  <1>7. ASSUME NEW u \in User, StopTimeout(u, i) PROVE Serial'
    <2>1. /\ <<u, i>> \in stopping /\ Forget({u})
          /\ child' = [child EXCEPT ![i] = IF @ = "term" THEN "kill" ELSE @]
          /\ stopping' = stopping \ {<<u, i>>}
          /\ UNCHANGED <<status, starting, down>>
      BY <1>7 DEF StopTimeout
    <2>2. child' \in [Instance -> {"live", "term", "kill", "dead", "failed", "unborn", "error"}]
      BY <2>1 DEF BaseInv, TypeOK, Running, Ended
    <2>3. \A j \in Instance : (child'[j] = "live" <=> child[j] = "live") /\ (child[j] \in Ended => child'[j] = child[j])
      BY <2>1 DEF BaseInv, TypeOK, Ended
    <2>4. stopping' \subseteq {w \in stopping : ~(w[1] \in {u} /\ w[2] = i)}
      BY <2>1 DEF BaseInv, TypeOK
    <2> QED
      BY <2>1, <2>2, <2>3, <2>4, SerialForget
  <1> QED
    BY <1>1, <1>2, <1>3, <1>4, <1>5, <1>6, <1>7 DEF Turn

LEMMA TurnPreserved == BaseInv /\ TurnInv /\ [HNext]_<<vars, happened>> => TurnInv'
  <1> SUFFICES ASSUME BaseInv, TurnInv, [HNext]_<<vars, happened>>, "overlap" \notin happened'
               PROVE Serial'
    BY DEF TurnInv
  <1>1. CASE UNCHANGED <<vars, happened>>
    BY <1>1 DEF vars, TurnInv, Serial, Managed
  <1>2. CASE HNext
    <2>1. Next /\ happened' = happened \cup {d \in Disturbances : Happens(d)}
      BY <1>2 DEF HNext
    <2>2. Serial
      BY <2>1 DEF TurnInv
    <2>3. ASSUME NEW u \in User, MayCall(u), Call(u) PROVE Idle(u)
      BY <2>1, <2>3, Remembered
    <2>4. CASE ModuleDestroy
      BY <2>2, <2>4, NoInstanceAssumption DEF ModuleDestroy, BaseInv, TypeOK, Serial, Managed, Ended
    <2>5. ASSUME NEW u \in User, NEW i \in Instance, StartUserGateway(u, i) PROVE Serial'
      <3>1. Idle(u)
        BY <2>3, <2>5 DEF Call, StartUserGateway
      <3> QED
        BY <2>2, <2>5, <3>1, SerialStart
    <2>6. ASSUME NEW u \in User, StopWithoutProcess(u) \/ StopUserGateway(u) PROVE Serial'
      <3>1. Idle(u)
        BY <2>3, <2>6 DEF Call, StopWithoutProcess, StopUserGateway
      <3> QED
        BY <2>2, <2>6, <3>1, SerialStop
    <2> QED
      BY <2>1, <2>2, <2>4, <2>5, <2>6, SerialTurn DEF Next
  <1> QED
    BY <1>1, <1>2

-----------------------------------------------------------------------------
LEMMA HistoryInvariance == HSpec => [](IInv /\ BaseInv /\ PeaceInv /\ TurnInv)
  <1>1. Init /\ happened = {} => IInv /\ BaseInv /\ PeaceInv /\ TurnInv
    BY InitEstablishes, BaseInit, QuietInit, SerialInit DEF PeaceInv, TurnInv
  <1>2. [HNext]_<<vars, happened>> => [Next]_vars
    BY DEF HNext
  <1>3. IInv /\ BaseInv /\ PeaceInv /\ TurnInv /\ [HNext]_<<vars, happened>>
        => (IInv /\ BaseInv /\ PeaceInv /\ TurnInv)'
    BY <1>2, StepPreserves, BasePreserved, PeacePreserved, TurnPreserved
  <1> QED
    BY <1>1, <1>3, PTL DEF HSpec

(* What the run checks is HSpec with fewer starts and a scene chosen.         *)
LEMMA RunsRefineHistory == MCSpec => HSpec
  <1>1. MCInit => Init /\ happened = {}
    BY DEF MCInit
  <1>2. [MCNext]_mcVars => [HNext]_<<vars, happened>>
    BY DEF MCNext, mcVars
  <1> QED
    BY <1>1, <1>2, PTL DEF MCSpec, HSpec

(* allocatePort and the two places that release a port: no two gateways that  *)
(* run share a port as long as every child starts, runs until it is stopped   *)
(* and ends within five seconds, however the calls of a user overlap.         *)
THEOREM PortsStayExclusive == HSpec => []PortsExclusiveInPeace
  <1>1. BaseInv /\ PeaceInv => PortsExclusiveInPeace
    BY QuietMeansExclusive DEF PeaceInv, PortsExclusiveInPeace
  <1> QED
    BY <1>1, HistoryInvariance, PTL

(* startUserGateway and stopUserGateway: as long as no user calls while his   *)
(* last call still runs, every live process is the one the Map holds for a    *)
(* user, whatever children fail, exit or outlive their SIGTERM.               *)
THEOREM ProcessesStayManaged == HSpec => []ManagedInTurn
  <1>1. TurnInv => ManagedInTurn
    BY DEF TurnInv, Serial, ManagedInTurn
  <1> QED
    BY <1>1, HistoryInvariance, PTL

(* The same two of the specification the run checks.                          *)
THEOREM RunsKeepBoth == MCSpec => [](PortsExclusiveInPeace /\ ManagedInTurn)
  BY RunsRefineHistory, PortsStayExclusive, ProcessesStayManaged, PTL
=============================================================================
