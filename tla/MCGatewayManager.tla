---------------------------- MODULE MCGatewayManager ----------------------------
(***************************************************************************)
(* Instances of GatewayManager.  A history variable remembers which of the *)
(* Disturbances happened, so that a promise which only some of them break  *)
(* is checked while all the others happen.                                 *)
(***************************************************************************)
EXTENDS GatewayManager

VARIABLES happened,
          scene     \* "storm": two starts and whatever; "peace": more starts and only overlaps

mcVars == <<vars, happened, scene>>

Call(u) == StopWithoutProcess(u) \/ StopUserGateway(u) \/ \E i \in Instance : StartUserGateway(u, i)

Happens(d) ==
    CASE d = "spawnFails" -> \E i \in Instance : SpawnError(i)
      [] d = "exits"      -> \E i \in Instance : child[i] = "live" /\ ProcessEnds(i)
      [] d = "slowExit"   -> \E u \in User, i \in Instance : StopTimeout(u, i)
      [] d = "overlap"    -> \E u \in User : ~Idle(u) /\ Call(u)

(* GatewayManager with that history, restrained by nothing.                        *)
HNext == Next /\ happened' = happened \cup {d \in Disturbances : Happens(d)}
HSpec == Init /\ happened = {} /\ [][HNext]_<<vars, happened>>

(* Instances are alike: the next to start is one of those left, no matter which. *)
Fresh == CHOOSE i \in Instance : ~Started(i)

MCInit == Init /\ happened = {} /\ scene \in {"storm", "peace"}
MCNext ==
    /\ HNext
    /\ UNCHANGED scene
    /\ \A i \in Instance : Started(i)' /\ ~Started(i) => i = Fresh
    /\ scene = "peace" => happened' \subseteq {"overlap"}
    /\ scene = "storm" => \E i \in Instance : ~Started(i)'
MCSpec == MCInit /\ [][MCNext]_mcVars

(* The fairness of GatewayManager.  The scene of peace has neither StopTimeout nor *)
(* SpawnError: only the storm tests whether calls return.                          *)
MCFairSpec ==
    /\ MCSpec
    /\ \A i \in Instance :
          /\ WF_vars(Close(i)) /\ WF_vars(SpawnError(i))
          /\ WF_vars(child[i] = "kill" /\ ProcessEnds(i))
          /\ \A u \in User : WF_vars(PollStart(u, i) \/ StartTimeout(u, i)) /\ WF_vars(StopTimeout(u, i))

-----------------------------------------------------------------------------
(* "No port conflicts", as long as every child starts, runs until it is       *)
(* stopped and ends within five seconds, even when calls of a user overlap.   *)
PortsExclusiveInPeace == happened \subseteq {"overlap"} => PortsExclusive

(* As long as no user calls while his last call is still running, whatever    *)
(* his processes do: he never has two, and whatever runs can be found.        *)
ManagedInTurn == "overlap" \notin happened => Managed
=============================================================================
