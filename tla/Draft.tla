--------------------------------- MODULE Draft ---------------------------------
(***************************************************************************)
(* DraftService (apps/server/src/ai/services/draft.service.ts): a bot      *)
(* drafts a message or command, the user approves, edits or rejects it     *)
(* within five minutes, or a timer of the server process expires it.       *)
(*                                                                         *)
(* Slots run the handlers and the timer callbacks; each await is a point   *)
(* where another slot may run.  What was read is kept in h[s] and acted    *)
(* upon later.  A fault is a rejected database or Redis call, or a crash   *)
(* of the server, which also loses its timers.                             *)
(***************************************************************************)
EXTENDS Naturals, FiniteSets

CONSTANTS Draft,       \* draft ids
          Text,        \* what a user can type over a draft
          NoDraft,     \* not a draft id
          Slot,        \* handlers that run at the same time
          MaxFaults    \* bound on rejected calls and crashes

ASSUME NoDraftAssumption == NoDraft \notin Draft
ASSUME EditAssumption == "draft" \notin Text
ASSUME MaxFaultsAssumption == MaxFaults \in Nat

VARIABLES status, content,   \* the AiDraft row, as in DraftMachine
          handed,            \* what approve and editAndApprove returned
          due,               \* due[d]: expiresAt has passed
          key,               \* key[d]: the Redis key of d was not deleted
          timer,             \* timer[d]: the setTimeout of d is pending
          card,              \* card[d]: what the user's clients were told
          h,                 \* h[s]: the handler on slot s
          faults             \* faults so far

rows == <<status, content>>
vars == <<status, content, handed, due, key, timer, card, h, faults>>

(* The row and the answers are the abstract state; the rest is hidden. *)
Machine == INSTANCE DraftMachine
           WITH status <- status, content <- content, handed <- handed

Verdicts == {"approve", "reject", "edit"}

Idle == [op |-> "none", pc |-> "idle", draft |-> NoDraft, text |-> "draft"]

Handler == [op : Verdicts \cup {"none", "create", "timer"},
            pc : {"idle", "setex", "write", "del", "expireRead", "expireWrite"},
            draft : Draft \cup {NoDraft},
            text : Machine!Content]   \* what the call is about to hand out

Init ==
    /\ Machine!Init
    /\ due = [d \in Draft |-> FALSE]
    /\ key = [d \in Draft |-> FALSE]
    /\ timer = [d \in Draft |-> FALSE]
    /\ card = [d \in Draft |-> "none"]
    /\ h = [s \in Slot |-> Idle]
    /\ faults = 0

-----------------------------------------------------------------------------
Goto(s, pc) == h' = [h EXCEPT ![s].pc = pc]
Return(s) == h' = [h EXCEPT ![s] = Idle]
Open(s, op, d, pc, text) ==
    h' = [h EXCEPT ![s] = [op |-> op, pc |-> pc, draft |-> d, text |-> text]]

(* createDraft inserts the row; expiresAt was fixed just before. *)
CreateDraft(s, d) ==
    /\ h[s].pc = "idle"
    /\ status[d] = "none"
    /\ status' = [status EXCEPT ![d] = "PENDING"]
    /\ Open(s, "create", d, "setex", "draft")
    /\ UNCHANGED <<content, handed, due, key, timer, card, faults>>

(* Mutant: scheduleExpiration is not called. *)
AnnounceWithoutTimer(s) ==
    LET d == h[s].draft
    IN /\ h[s].pc = "setex"
       /\ key' = [key EXCEPT ![d] = TRUE]
       /\ card' = [card EXCEPT ![d] = "shown"]
       /\ Return(s)
       /\ UNCHANGED <<rows, handed, due, timer, faults>>

(* setex, then without another await: push the card, start the timer. *)
Announce(s) ==
    LET d == h[s].draft
    IN /\ h[s].pc = "setex"
       /\ key' = [key EXCEPT ![d] = TRUE]
       /\ card' = [card EXCEPT ![d] = "shown"]
       /\ timer' = [timer EXCEPT ![d] = TRUE]
       /\ Return(s)
       /\ UNCHANGED <<rows, handed, due, faults>>

(* The argument of editAndApproveDraft is a text; the others keep the draft. *)
Typed(op, text) == op = "edit" <=> text \in Text

(* Mutant: the read does not ask for status PENDING. *)
ReadAnyDraft(s, d, op, text) ==
    /\ h[s].pc = "idle"
    /\ card[d] # "none"
    /\ Typed(op, text)
    /\ Open(s, op, d, IF due[d] THEN "expireRead" ELSE "write", text)
    /\ UNCHANGED <<rows, handed, due, key, timer, card, faults>>

(* Mutant: expiresAt is not looked at. *)
ReadPastDue(s, d, op, text) ==
    /\ h[s].pc = "idle"
    /\ card[d] # "none"
    /\ status[d] = "PENDING"
    /\ Typed(op, text)
    /\ Open(s, op, d, "write", text)
    /\ UNCHANGED <<rows, handed, due, key, timer, card, faults>>

(* Mutant: the comparison with expiresAt is the wrong way round. *)
ReadEarlyAsDue(s, d, op, text) ==
    /\ h[s].pc = "idle"
    /\ card[d] # "none"
    /\ status[d] = "PENDING"
    /\ Typed(op, text)
    /\ Open(s, op, d, IF due[d] THEN "write" ELSE "expireRead", text)
    /\ UNCHANGED <<rows, handed, due, key, timer, card, faults>>

(* getValidDraft: a draft that is due is expired first and then refused. *)
GetValidDraft(s, d, op, text) ==
    /\ h[s].pc = "idle"
    /\ card[d] # "none"
    /\ status[d] = "PENDING"
    /\ Typed(op, text)
    /\ Open(s, op, d, IF due[d] THEN "expireRead" ELSE "write", text)
    /\ UNCHANGED <<rows, handed, due, key, timer, card, faults>>

Verdict(op) == IF op = "reject" THEN "REJECTED" ELSE "APPROVED"

(* Mutant: the edited text is returned but not stored. *)
UpdateStatusOnly(s) ==
    LET d == h[s].draft
    IN /\ h[s].pc = "write"
       /\ status' = [status EXCEPT ![d] = Verdict(h[s].op)]
       /\ Goto(s, "del")
       /\ UNCHANGED <<content, handed, due, key, timer, card, faults>>

(* The update names the id only: whatever the status has become, it is set. *)
UpdateStatus(s) ==
    LET d == h[s].draft
    IN /\ h[s].pc = "write"
       /\ status' = [status EXCEPT ![d] = Verdict(h[s].op)]
       /\ content' = IF h[s].op = "edit" THEN [content EXCEPT ![d] = h[s].text] ELSE content
       /\ Goto(s, "del")
       /\ UNCHANGED <<handed, due, key, timer, card, faults>>

(* Mutant: the edited text is not returned. *)
HandOutOriginalsOnly(s) ==
    LET d == h[s].draft
    IN /\ h[s].pc = "del"
       /\ key' = [key EXCEPT ![d] = FALSE]
       /\ handed' = IF h[s].op = "approve" THEN [handed EXCEPT ![d] = @ \cup {"draft"}]
                                           ELSE handed
       /\ Return(s)
       /\ UNCHANGED <<rows, due, timer, card, faults>>

(* approve returns the stored draft, editAndApprove what the user typed. *)
DeleteKey(s) ==
    LET d == h[s].draft
    IN /\ h[s].pc = "del"
       /\ key' = [key EXCEPT ![d] = FALSE]
       /\ handed' = IF h[s].op = "reject" THEN handed
                                          ELSE [handed EXCEPT ![d] = @ \cup {h[s].text}]
       /\ Return(s)
       /\ UNCHANGED <<rows, due, timer, card, faults>>

-----------------------------------------------------------------------------
(* Five minutes after createDraft computed expiresAt. *)
FallDue(d) ==
    /\ status[d] # "none" /\ ~due[d]
    /\ due' = [due EXCEPT ![d] = TRUE]
    /\ UNCHANGED <<rows, handed, key, timer, card, h, faults>>

FireTimer(s, d) ==
    /\ h[s].pc = "idle" /\ timer[d] /\ due[d]
    /\ timer' = [timer EXCEPT ![d] = FALSE]
    /\ Open(s, "timer", d, "expireRead", "draft")
    /\ UNCHANGED <<rows, handed, due, key, card, faults>>

(* expireDraft, called by the timer and by getValidDraft. *)
ExpireReads(s) ==
    /\ h[s].pc = "expireRead"
    /\ IF status[h[s].draft] = "PENDING" THEN Goto(s, "expireWrite") ELSE Return(s)
    /\ UNCHANGED <<rows, handed, due, key, timer, card, faults>>

ExpireWrites(s) ==
    LET d == h[s].draft
    IN /\ h[s].pc = "expireWrite"
       /\ status' = [status EXCEPT ![d] = "EXPIRED"]
       /\ card' = [card EXCEPT ![d] = "expired"]
       /\ Return(s)
       /\ UNCHANGED <<content, handed, due, key, timer, faults>>

-----------------------------------------------------------------------------
(* A database or Redis call rejects: the caller gets an error, the timer logs it. *)
Fail(s) ==
    /\ h[s].pc # "idle" /\ faults < MaxFaults
    /\ faults' = faults + 1
    /\ Return(s)
    /\ UNCHANGED <<rows, handed, due, key, timer, card>>

Crash ==
    /\ faults < MaxFaults
    /\ faults' = faults + 1
    /\ h' = [s \in Slot |-> Idle]
    /\ timer' = [d \in Draft |-> FALSE]
    /\ UNCHANGED <<rows, handed, due, key, card>>

Continue(s) ==
    Announce(s) \/ UpdateStatus(s) \/ DeleteKey(s) \/ ExpireReads(s) \/ ExpireWrites(s)

Next ==
    \/ \E s \in Slot, d \in Draft :
          \/ CreateDraft(s, d) \/ FireTimer(s, d)
          \/ \E op \in Verdicts, text \in Machine!Content : GetValidDraft(s, d, op, text)
    \/ \E s \in Slot : Continue(s) \/ Fail(s)
    \/ \E d \in Draft : FallDue(d)
    \/ Crash

Spec == Init /\ [][Next]_vars

(* Time passes, a due timer gets its turn, and a handler that runs goes on. *)
Fairness ==
    /\ \A d \in Draft : WF_vars(FallDue(d)) /\ SF_vars(\E s \in Slot : FireTimer(s, d))
    /\ \A s \in Slot : WF_vars(Continue(s))

FairSpec == Spec /\ Fairness

-----------------------------------------------------------------------------
TypeOK ==
    /\ status \in [Draft -> Machine!Verdict \cup {"none", "PENDING"}]
    /\ content \in [Draft -> Machine!Content]
    /\ handed \in [Draft -> SUBSET Machine!Content]
    /\ due \in [Draft -> BOOLEAN] /\ key \in [Draft -> BOOLEAN] /\ timer \in [Draft -> BOOLEAN]
    /\ card \in [Draft -> {"none", "shown", "expired"}]
    /\ h \in [Slot -> Handler]
    /\ faults \in 0..MaxFaults

(* A draft is closed when it is decided or due and no call that found it      *)
(* pending is still on its way.                                               *)
Closed(d) ==
    /\ status[d] \in Machine!Verdict \/ due[d]
    /\ \A s \in Slot : h[s].draft = d => h[s].pc \notin {"write", "del"}

(* However approvals, edits, rejections, timers, failed calls and crashes     *)
(* overlap: once the last call that found the draft pending has ended, nothing *)
(* is handed out any more, the stored text stays, no call gets past           *)
(* getValidDraft, and a late expireDraft is all that can still change the row. *)
ClosedStaysClosed ==
    [][\A d \in Draft : Closed(d) =>
          /\ Closed(d)'
          /\ handed'[d] = handed[d] /\ content'[d] = content[d]
          /\ status'[d] \in {status[d], "EXPIRED"}]_vars

(* The class comment: from PENDING to one of the three verdicts, and no       *)
(* further.  updates by id alone break it when two calls have read PENDING.   *)
VerdictIsFinal ==
    [][\A d \in Draft : status[d] \in Machine!Verdict => status'[d] = status[d]]_vars

(* However calls and timers overlap, a client is told "expired" only about a  *)
(* draft that fell due and is decided (perhaps approved by an overlapping call). *)
ExpiredCardIsDue ==
    \A d \in Draft : card[d] = "expired" => due[d] /\ status[d] \in Machine!Verdict

(* "5 minutes TTL": as long as no call fails and the server stays up, every   *)
(* draft is decided sooner or later.  A setex that fails leaves a row without *)
(* a timer, and a restart forgets the timers: then nobody decides it.         *)
EveryDraftSettles ==
    \A d \in Draft : status[d] = "PENDING" ~> status[d] \in Machine!Verdict \/ faults > 0

(* An approval that was stored then reaches the caller, who executes it.      *)
ApprovedIsHandedOut ==
    \A d \in Draft : status[d] = "APPROVED" ~> handed[d] # {} \/ faults > 0
=============================================================================
