-------------------------------- MODULE MCDraft --------------------------------
(***************************************************************************)
(* Instances of Draft.  A history variable marks the drafts of which two   *)
(* handlers stood between the read of status PENDING and the update: those *)
(* two write the row one after the other, whatever the first has made of   *)
(* it (draft.service.ts:117, 140, 166, 191 update by id alone).            *)
(***************************************************************************)
EXTENDS Draft

VARIABLE crossed   \* the drafts on which two verdicts met

mcvars == <<vars, crossed>>

Deciding(d) == {s \in Slot : h[s].draft = d /\ h[s].pc \in {"write", "expireWrite"}}

MCInit == Init /\ crossed = {}

MCNext ==
    /\ Next
    /\ crossed' = crossed \cup {d \in Draft : \E s, t \in Deciding(d)' : s # t}

MCSpec == MCInit /\ [][MCNext]_mcvars

MCFairSpec == MCSpec /\ Fairness

(* What a caller was given to execute is what the row holds as approved, once *)
(* and for all texts that users type, as long as no two verdicts met on the   *)
(* draft, whatever other calls, timers, faults and restarts come in between.  *)
HandedIsStored ==
    \A d \in Draft \ crossed :
        handed[d] # {} => status[d] = "APPROVED" /\ handed[d] = {content[d]}

(* The class comment: as long as no two verdicts have met, what the handlers, *)
(* the timers, failed calls and restarts do to the row and hand out is what   *)
(* the machine of the comment does, one step of it or none at a time.         *)
FollowsMachine ==
    Machine!Init /\ [][crossed' = {} => [Machine!Next]_(Machine!vars)]_mcvars
=============================================================================
