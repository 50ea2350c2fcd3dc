----------------------------- MODULE DraftMachine -----------------------------
(***************************************************************************)
(* The state machine the comment of DraftService draws: PENDING, then one  *)
(* of APPROVED, REJECTED and EXPIRED for good; the content of an approved  *)
(* draft is handed out at most once, and it is the one approved.           *)
(***************************************************************************)
CONSTANTS Draft,   \* draft ids
          Text     \* what a user can type over a draft, never "draft"

VARIABLES status,    \* status[d]: AiDraft.status, or "none"
          content,   \* content[d]: editedContent, or "draft" while there is none
          handed     \* handed[d]: the contents returned to the caller

vars == <<status, content, handed>>

Verdict == {"APPROVED", "REJECTED", "EXPIRED"}
Content == {"draft"} \cup Text

Init ==
    /\ status = [d \in Draft |-> "none"]
    /\ content = [d \in Draft |-> "draft"]
    /\ handed = [d \in Draft |-> {}]

Create(d) ==
    /\ status[d] = "none"
    /\ status' = [status EXCEPT ![d] = "PENDING"]
    /\ UNCHANGED <<content, handed>>

Decide(d, v, c) ==
    /\ status[d] = "PENDING"
    /\ c \in Text => v = "APPROVED"
    /\ status' = [status EXCEPT ![d] = v]
    /\ content' = [content EXCEPT ![d] = c]
    /\ UNCHANGED handed

HandOut(d) ==
    /\ status[d] = "APPROVED"
    /\ handed[d] = {}
    /\ handed' = [handed EXCEPT ![d] = {content[d]}]
    /\ UNCHANGED <<status, content>>

Next == \E d \in Draft :
    \/ Create(d)
    \/ \E v \in Verdict, c \in Content : Decide(d, v, c)
    \/ HandOut(d)

Spec == Init /\ [][Next]_vars
=============================================================================
