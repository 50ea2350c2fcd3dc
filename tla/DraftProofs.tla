------------------------------ MODULE DraftProofs ------------------------------
(***************************************************************************)
(* What holds of DraftService for any number of drafts, handlers and       *)
(* faults that overlap; the last part shows that the service implements    *)
(* DraftMachine until two verdicts meet.                                   *)
(***************************************************************************)
EXTENDS MCDraft, TLAPS

(* A handler that runs works on a row that exists, expires only what is due,  *)
(* and has a text of its own exactly when it edits.                           *)
HandlerOK(s) ==
    h[s].pc # "idle" =>
        /\ h[s].draft \in Draft
        /\ status[h[s].draft] # "none"
        /\ h[s].pc \in {"write", "del"} => h[s].op \in Verdicts
        /\ h[s].pc \in {"expireRead", "expireWrite"} => due[h[s].draft]
        /\ h[s].pc \in {"write", "del"} => Typed(h[s].op, h[s].text)

HandlersOK == \A s \in Slot : HandlerOK(s)

(* Only a row that exists has a card or a timer, or falls due. *)
ShownExists == \A d \in Draft : card[d] # "none" \/ timer[d] \/ due[d] => status[d] # "none"

IInv == TypeOK /\ HandlersOK /\ ShownExists /\ ExpiredCardIsDue

USE DEF Machine!Verdict, Machine!Content

LEMMA InitEstablishes == Init => IInv
  BY NoDraftAssumption, MaxFaultsAssumption
  DEF Init, Machine!Init, IInv, TypeOK, HandlersOK, HandlerOK, ShownExists, ExpiredCardIsDue, Idle, Handler

(* What a step does to the handlers that stay, as long as rows are not unmade. *)
LEMMA OthersStayOK ==
    ASSUME IInv, NEW s \in Slot, NEW t \in Slot, h'[t] = h[t],
           \A d \in Draft : status[d] # "none" => status'[d] # "none",
           \A d \in Draft : due[d] => due'[d]
    PROVE HandlerOK(t)'
  BY DEF IInv, HandlersOK, HandlerOK

LEMMA ReadPreserves ==
    ASSUME IInv, NEW s \in Slot, NEW new \in Handler, h' = [h EXCEPT ![s] = new],
           UNCHANGED <<status, content, handed, due, card>>,
           key' \in [Draft -> BOOLEAN], timer' \in [Draft -> BOOLEAN], faults' \in 0..MaxFaults,
           \A d \in Draft : timer'[d] => timer[d],
           HandlerOK(s)'
    PROVE IInv'
  <1>1. TypeOK'
    BY DEF IInv, TypeOK
  <1>2. HandlersOK'
    <2> SUFFICES ASSUME NEW t \in Slot, t # s PROVE HandlerOK(t)'
      BY DEF HandlersOK
    <2>1. h'[t] = h[t]
      BY DEF IInv, TypeOK
    <2> QED
      BY <2>1, OthersStayOK
  <1>3. ShownExists' /\ ExpiredCardIsDue'
    BY DEF IInv, ShownExists, ExpiredCardIsDue
  <1> QED
    BY <1>1, <1>2, <1>3 DEF IInv

LEMMA CreatePreserves ==
    ASSUME IInv, NEW s \in Slot, NEW d \in Draft, CreateDraft(s, d)
    PROVE IInv'
  <1> DEFINE new == [op |-> "create", pc |-> "setex", draft |-> d, text |-> "draft"]
  <1>1. /\ status[d] = "none" /\ status' = [status EXCEPT ![d] = "PENDING"]
        /\ h' = [h EXCEPT ![s] = new]
        /\ UNCHANGED <<content, handed, due, key, timer, card, faults>>
    BY DEF CreateDraft, Open
  <1>2. TypeOK'
    BY <1>1 DEF IInv, TypeOK, Handler
  <1>3. HandlersOK'
    <2> SUFFICES ASSUME NEW t \in Slot PROVE HandlerOK(t)'
      BY DEF HandlersOK
    <2>1. CASE t = s
      BY <1>1, <2>1 DEF IInv, TypeOK, HandlerOK
    <2>2. CASE t # s
      <3>1. h'[t] = h[t] /\ \A e \in Draft : status[e] # "none" => status'[e] # "none"
        BY <1>1, <2>2 DEF IInv, TypeOK
      <3> QED
        BY <1>1, <3>1, OthersStayOK
    <2> QED
      BY <2>1, <2>2
  <1>4. ShownExists' /\ ExpiredCardIsDue'
    BY <1>1 DEF IInv, TypeOK, ShownExists, ExpiredCardIsDue
  <1> QED
    BY <1>2, <1>3, <1>4 DEF IInv

(* What is left of a step that ends a handler and touches the row of its draft. *)
LEMMA WritePreserves ==
    ASSUME IInv, NEW s \in Slot, NEW new \in Handler, h' = [h EXCEPT ![s] = new],
           HandlerOK(s)', TypeOK',
           \A d \in Draft : status[d] # "none" => status'[d] # "none",
           UNCHANGED due
    PROVE HandlersOK'
  <1> SUFFICES ASSUME NEW t \in Slot, t # s PROVE HandlerOK(t)'
    BY DEF HandlersOK
  <1>1. h'[t] = h[t]
    BY DEF IInv, TypeOK
  <1> QED
    BY <1>1, OthersStayOK

LEMMA IdleIsHandler == Idle \in Handler /\ \A s \in Slot : (h[s] = Idle => HandlerOK(s))
  BY DEF Idle, Handler, HandlerOK

LEMMA AnnouncePreserves == ASSUME IInv, NEW s \in Slot, Announce(s) PROVE IInv'
  <1> DEFINE d == h[s].draft
  <1>1. d \in Draft /\ status[d] # "none"
    BY DEF Announce, IInv, HandlersOK, HandlerOK
  <1>2. /\ key' = [key EXCEPT ![d] = TRUE] /\ card' = [card EXCEPT ![d] = "shown"]
        /\ timer' = [timer EXCEPT ![d] = TRUE] /\ h' = [h EXCEPT ![s] = Idle]
        /\ UNCHANGED <<status, content, handed, due, faults>>
    BY DEF Announce, Return, rows
  <1>3. TypeOK'
    BY <1>1, <1>2, IdleIsHandler DEF IInv, TypeOK
  <1>4. HandlerOK(s)'
    BY <1>2 DEF IInv, TypeOK, HandlerOK, Idle
  <1>5. HandlersOK'
    BY <1>2, <1>3, <1>4, IdleIsHandler, WritePreserves
  <1>6. ShownExists' /\ ExpiredCardIsDue'
    BY <1>1, <1>2 DEF IInv, TypeOK, ShownExists, ExpiredCardIsDue
  <1> QED
    BY <1>3, <1>5, <1>6 DEF IInv

LEMMA GetPreserves ==
    ASSUME IInv, NEW s \in Slot, NEW d \in Draft, NEW op \in Verdicts,
           NEW text \in Machine!Content, GetValidDraft(s, d, op, text)
    PROVE IInv'
  <1> DEFINE pc == IF due[d] THEN "expireRead" ELSE "write"
  <1> DEFINE new == [op |-> op, pc |-> pc, draft |-> d, text |-> text]
  <1>1. /\ status[d] = "PENDING" /\ Typed(op, text) /\ h' = [h EXCEPT ![s] = new]
        /\ UNCHANGED <<status, content, handed, due, key, timer, card, faults>>
    BY DEF GetValidDraft, Open, rows
  <1>2. new \in Handler
    BY DEF Handler
  <1>3. HandlerOK(s)'
    BY <1>1 DEF IInv, TypeOK, HandlerOK
  <1> QED
    BY <1>1, <1>2, <1>3, ReadPreserves DEF IInv, TypeOK

LEMMA FirePreserves ==
    ASSUME IInv, NEW s \in Slot, NEW d \in Draft, FireTimer(s, d)
    PROVE IInv'
  <1> DEFINE new == [op |-> "timer", pc |-> "expireRead", draft |-> d, text |-> "draft"]
  <1>1. /\ due[d] /\ timer[d] /\ timer' = [timer EXCEPT ![d] = FALSE] /\ h' = [h EXCEPT ![s] = new]
        /\ UNCHANGED <<status, content, handed, due, key, card, faults>>
    BY DEF FireTimer, Open, rows
  <1>2. new \in Handler
    BY DEF Handler
  <1>3. HandlerOK(s)'
    BY <1>1 DEF IInv, TypeOK, HandlerOK, ShownExists
  <1>4. timer' \in [Draft -> BOOLEAN] /\ \A e \in Draft : timer'[e] => timer[e]
    BY <1>1 DEF IInv, TypeOK
  <1> QED
    BY <1>1, <1>2, <1>3, <1>4, ReadPreserves DEF IInv, TypeOK

LEMMA UpdatePreserves == ASSUME IInv, NEW s \in Slot, UpdateStatus(s) PROVE IInv'
  <1> DEFINE d == h[s].draft
  <1> DEFINE new == [h[s] EXCEPT !.pc = "del"]
  <1>1. /\ d \in Draft /\ status[d] # "none" /\ h[s].op \in Verdicts /\ h[s] \in Handler
        /\ Typed(h[s].op, h[s].text) /\ h[s].text \in Machine!Content
    BY DEF Handler, UpdateStatus, IInv, TypeOK, HandlersOK, HandlerOK
  <1>2. Verdict(h[s].op) \in Machine!Verdict
    BY DEF Verdict
  <1>3. /\ status' = [status EXCEPT ![d] = Verdict(h[s].op)]
        /\ content' = IF h[s].op = "edit" THEN [content EXCEPT ![d] = h[s].text] ELSE content
        /\ h' = [h EXCEPT ![s] = new]
        /\ UNCHANGED <<handed, due, key, timer, card, faults>>
    BY DEF UpdateStatus, Goto
  <1>4. /\ new \in Handler /\ new.pc = "del" /\ new.op = h[s].op /\ new.draft = d
        /\ new.text = h[s].text
    BY <1>1 DEF Handler
  <1> HIDE DEF new
  <1>5. TypeOK'
    BY <1>1, <1>2, <1>3, <1>4 DEF IInv, TypeOK
  <1>6. HandlerOK(s)'
    BY <1>1, <1>2, <1>3, <1>4 DEF IInv, TypeOK, HandlerOK
  <1>7. \A e \in Draft : status[e] # "none" => status'[e] # "none"
    BY <1>1, <1>2, <1>3 DEF IInv, TypeOK
  <1>8. HandlersOK'
    BY <1>3, <1>4, <1>5, <1>6, <1>7, WritePreserves
  <1>9. ShownExists' /\ ExpiredCardIsDue'
    BY <1>1, <1>2, <1>3 DEF IInv, TypeOK, ShownExists, ExpiredCardIsDue
  <1> QED
    BY <1>5, <1>8, <1>9 DEF IInv

LEMMA DeletePreserves == ASSUME IInv, NEW s \in Slot, DeleteKey(s) PROVE IInv'
  <1> DEFINE d == h[s].draft
  <1>1. d \in Draft /\ h[s].text \in Machine!Content
    BY DEF Handler, DeleteKey, IInv, TypeOK, HandlersOK, HandlerOK
  <1>2. /\ key' = [key EXCEPT ![d] = FALSE] /\ h' = [h EXCEPT ![s] = Idle]
        /\ \/ handed' = [handed EXCEPT ![d] = @ \cup {h[s].text}]
           \/ handed' = handed
        /\ UNCHANGED <<status, content, due, timer, card, faults>>
    BY DEF DeleteKey, Return, rows
  <1>3. TypeOK'
    BY <1>1, <1>2, IdleIsHandler DEF IInv, TypeOK
  <1>4. HandlerOK(s)'
    BY <1>2 DEF IInv, TypeOK, HandlerOK, Idle
  <1>5. HandlersOK'
    BY <1>2, <1>3, <1>4, IdleIsHandler, WritePreserves
  <1>6. ShownExists' /\ ExpiredCardIsDue'
    BY <1>2 DEF IInv, ShownExists, ExpiredCardIsDue
  <1> QED
    BY <1>3, <1>5, <1>6 DEF IInv

LEMMA ExpirePreserves == ASSUME IInv, NEW s \in Slot, ExpireReads(s) \/ ExpireWrites(s) PROVE IInv'
  <1> DEFINE d == h[s].draft
  <1>1. d \in Draft /\ status[d] # "none" /\ due[d] /\ h[s] \in Handler
    BY DEF ExpireReads, ExpireWrites, IInv, TypeOK, HandlersOK, HandlerOK
  <1>2. CASE ExpireReads(s)
    <2> DEFINE new == IF status[d] = "PENDING" THEN [h[s] EXCEPT !.pc = "expireWrite"] ELSE Idle
    <2>1. /\ h' = [h EXCEPT ![s] = new]
          /\ UNCHANGED <<status, content, handed, due, key, timer, card, faults>>
      BY <1>2 DEF ExpireReads, Goto, Return, rows
    <2>2. new \in Handler /\ ((new.pc = "expireWrite" /\ new.draft = d) \/ new = Idle)
      BY <1>1, IdleIsHandler DEF Handler
    <2> HIDE DEF new
    <2>3. HandlerOK(s)'
      BY <1>1, <2>1, <2>2 DEF IInv, TypeOK, HandlerOK, Idle
    <2> QED
      BY <2>1, <2>2, <2>3, ReadPreserves DEF IInv, TypeOK
  <1>3. CASE ExpireWrites(s)
    <2>1. /\ status' = [status EXCEPT ![d] = "EXPIRED"] /\ card' = [card EXCEPT ![d] = "expired"]
          /\ h' = [h EXCEPT ![s] = Idle]
          /\ UNCHANGED <<content, handed, due, key, timer, faults>>
      BY <1>3 DEF ExpireWrites, Return
    <2>2. TypeOK'
      BY <1>1, <2>1, IdleIsHandler DEF IInv, TypeOK
    <2>3. HandlerOK(s)'
      BY <2>1 DEF IInv, TypeOK, HandlerOK, Idle
    <2>4. \A e \in Draft : status[e] # "none" => status'[e] # "none"
      BY <1>1, <2>1 DEF IInv, TypeOK
    <2>5. HandlersOK'
      BY <2>1, <2>2, <2>3, <2>4, IdleIsHandler, WritePreserves
    <2>6. ShownExists' /\ ExpiredCardIsDue'
      BY <1>1, <2>1 DEF IInv, TypeOK, ShownExists, ExpiredCardIsDue
    <2> QED
      BY <2>2, <2>5, <2>6 DEF IInv
  <1> QED
    BY <1>2, <1>3

LEMMA FailPreserves == ASSUME IInv, NEW s \in Slot, Fail(s) PROVE IInv'
  <1>1. /\ h' = [h EXCEPT ![s] = Idle] /\ faults < MaxFaults /\ faults' = faults + 1
        /\ UNCHANGED <<status, content, handed, due, key, timer, card>>
    BY DEF Fail, Return, rows
  <1>2. HandlerOK(s)' /\ faults' \in 0..MaxFaults
    BY <1>1, MaxFaultsAssumption DEF IInv, TypeOK, HandlerOK, Idle
  <1> QED
    BY <1>1, <1>2, IdleIsHandler, ReadPreserves DEF IInv, TypeOK

LEMMA CrashPreserves == ASSUME IInv, Crash PROVE IInv'
  <1>1. TypeOK'
    BY MaxFaultsAssumption, IdleIsHandler DEF Crash, rows, IInv, TypeOK
  <1> QED
    BY <1>1 DEF Crash, rows, IInv, HandlersOK, HandlerOK, Idle, ShownExists, ExpiredCardIsDue

LEMMA FallDuePreserves == ASSUME IInv, NEW d \in Draft, FallDue(d) PROVE IInv'
  <1>1. TypeOK' /\ \A e \in Draft : due[e] => due'[e]
    BY DEF FallDue, rows, IInv, TypeOK
  <1> QED
    BY <1>1 DEF FallDue, rows, IInv, HandlersOK, HandlerOK, ShownExists, ExpiredCardIsDue

LEMMA StepPreserves == IInv /\ [Next]_vars => IInv'
  <1> SUFFICES ASSUME IInv, [Next]_vars PROVE IInv'
    OBVIOUS
  <1>1. CASE UNCHANGED vars
    BY <1>1 DEF vars, rows, IInv, TypeOK, HandlersOK, HandlerOK, ShownExists, ExpiredCardIsDue
  <1>2. CASE Next
    BY <1>2, CreatePreserves, AnnouncePreserves, GetPreserves, FirePreserves, UpdatePreserves,
       DeletePreserves, ExpirePreserves, FailPreserves, CrashPreserves, FallDuePreserves
    DEF Next, Continue
  <1> QED
    BY <1>1, <1>2

LEMMA Invariance == Spec => []IInv
  BY InitEstablishes, StepPreserves, PTL DEF Spec

(* Rows, cards, timers and handlers are typed in every reachable state.       *)
THEOREM TypeCorrect == Spec => []TypeOK
  <1>1. IInv => TypeOK
    BY DEF IInv
  <1> QED
    BY <1>1, Invariance, PTL

(* expireDraft tells a client "expired" only of a draft that is due and       *)
(* decided, whatever approvals and rejections overlap with it.                *)
THEOREM ExpiredMeansDue == Spec => []ExpiredCardIsDue
  <1>1. IInv => ExpiredCardIsDue
    BY DEF IInv
  <1> QED
    BY <1>1, Invariance, PTL

-----------------------------------------------------------------------------
(* A step that opens, moves or ends the handler of slot s changes no other. *)
LEMMA ClosedHandlers ==
    ASSUME IInv, NEW s \in Slot, NEW new \in Handler, h' = [h EXCEPT ![s] = new],
           NEW d \in Draft, Closed(d), new.draft = d => new.pc \notin {"write", "del"}
    PROVE \A t \in Slot : h'[t].draft = d => h'[t].pc \notin {"write", "del"}
  BY DEF IInv, TypeOK, Closed

(* A closed draft stays closed: a call that is still on its way to the row or *)
(* to its caller is on its way for another draft.                             *)
LEMMA ClosedStep ==
    ASSUME IInv, Next, NEW d \in Draft, Closed(d)
    PROVE /\ Closed(d)'
          /\ handed'[d] = handed[d] /\ content'[d] = content[d]
          /\ status'[d] \in {status[d], "EXPIRED"}
  <1> DEFINE Goal == /\ Closed(d)'
                     /\ handed'[d] = handed[d] /\ content'[d] = content[d]
                     /\ status'[d] \in {status[d], "EXPIRED"}
  <1>1. ASSUME NEW s \in Slot, UpdateStatus(s) \/ DeleteKey(s) PROVE Goal
    <2> DEFINE e == h[s].draft
    <2> DEFINE new == IF h[s].pc = "write" THEN [h[s] EXCEPT !.pc = "del"] ELSE Idle
    <2>1. e \in Draft /\ e # d /\ h[s] \in Handler
      BY <1>1 DEF UpdateStatus, DeleteKey, Closed, IInv, TypeOK, HandlersOK, HandlerOK
    <2>2. h' = [h EXCEPT ![s] = new] /\ new \in Handler /\ (new.draft = e \/ new.pc = "idle")
      BY <1>1, <2>1, IdleIsHandler DEF UpdateStatus, DeleteKey, Goto, Return, Handler, Idle
    <2> HIDE DEF new
    <2>3. \A t \in Slot : h'[t].draft = d => h'[t].pc \notin {"write", "del"}
      BY <2>1, <2>2, ClosedHandlers
    <2>4. status'[d] = status[d] /\ due'[d] = due[d] /\ handed'[d] = handed[d] /\ content'[d] = content[d]
      BY <1>1, <2>1 DEF UpdateStatus, DeleteKey, IInv, TypeOK, rows
    <2> QED
      BY <2>3, <2>4 DEF Closed
  <1>2. ASSUME NEW s \in Slot, ExpireWrites(s) PROVE Goal
    <2>1. h[s].draft \in Draft
      BY <1>2 DEF ExpireWrites, IInv, HandlersOK, HandlerOK
    <2>2. \A t \in Slot : h'[t].draft = d => h'[t].pc \notin {"write", "del"}
      BY <1>2, IdleIsHandler, ClosedHandlers DEF ExpireWrites, Return, Idle
    <2> QED
      BY <1>2, <2>1, <2>2 DEF ExpireWrites, Closed, IInv, TypeOK
  <1>3. ASSUME NEW s \in Slot, NEW e \in Draft, NEW op \in Verdicts, NEW text \in Machine!Content,
               GetValidDraft(s, e, op, text)
        PROVE Goal
    <2> DEFINE pc == IF due[e] THEN "expireRead" ELSE "write"
    <2> DEFINE new == [op |-> op, pc |-> pc, draft |-> e, text |-> text]
    <2>1. new \in Handler /\ h' = [h EXCEPT ![s] = new] /\ status[e] = "PENDING"
      BY <1>3 DEF GetValidDraft, Open, Handler
    <2>2. new.draft = d => new.pc = "expireRead"
      BY <2>1 DEF Closed
    <2> HIDE DEF new
    <2>3. \A t \in Slot : h'[t].draft = d => h'[t].pc \notin {"write", "del"}
      BY <2>1, <2>2, ClosedHandlers
    <2> QED
      BY <1>3, <2>3 DEF GetValidDraft, rows, Closed
  <1>4. ASSUME NEW s \in Slot, NEW e \in Draft, CreateDraft(s, e) \/ FireTimer(s, e) PROVE Goal
    <2> DEFINE new == h'[s]
    <2>1. new \in Handler /\ h' = [h EXCEPT ![s] = new] /\ new.pc \in {"setex", "expireRead"}
      BY <1>4 DEF CreateDraft, FireTimer, Open, Handler, IInv, TypeOK
    <2>2. \A t \in Slot : h'[t].draft = d => h'[t].pc \notin {"write", "del"}
      BY <2>1, ClosedHandlers
    <2>3. status'[d] = status[d]
      BY <1>4 DEF CreateDraft, FireTimer, rows, Closed, IInv, TypeOK, ShownExists
    <2>4. UNCHANGED <<handed, content, due>>
      BY <1>4 DEF CreateDraft, FireTimer, rows
    <2> QED
      BY <2>2, <2>3, <2>4 DEF Closed
  <1>5. ASSUME NEW s \in Slot, Announce(s) \/ ExpireReads(s) \/ Fail(s) PROVE Goal
    <2> DEFINE new == h'[s]
    <2>1. /\ new \in Handler /\ h' = [h EXCEPT ![s] = new] /\ new.pc \in {"idle", "expireWrite"}
      BY <1>5, IdleIsHandler DEF Announce, ExpireReads, Fail, Goto, Return, Handler, Idle, IInv, TypeOK
    <2>2. \A t \in Slot : h'[t].draft = d => h'[t].pc \notin {"write", "del"}
      BY <2>1, ClosedHandlers
    <2>3. UNCHANGED <<status, handed, content, due>>
      BY <1>5 DEF Announce, ExpireReads, Fail, rows
    <2> QED
      BY <2>2, <2>3 DEF Closed
  <1>6. CASE Crash \/ \E e \in Draft : FallDue(e)
    BY <1>6 DEF Crash, FallDue, rows, Closed, Idle, IInv, TypeOK
  <1> QED
    BY <1>1, <1>2, <1>3, <1>4, <1>5, <1>6 DEF Next, Continue

(* However calls of DraftService, timers, faults and restarts overlap: once   *)
(* no call that found the draft pending is on its way, a decided or due draft *)
(* is handed out no more and its text stays.                                  *)
THEOREM ClosedForGood == Spec => ClosedStaysClosed
  <1>1. IInv /\ [Next]_vars
        => [\A d \in Draft : Closed(d) =>
                /\ Closed(d)'
                /\ handed'[d] = handed[d] /\ content'[d] = content[d]
                /\ status'[d] \in {status[d], "EXPIRED"}]_vars
    BY ClosedStep
  <1> QED
    BY <1>1, Invariance, PTL DEF Spec, ClosedStaysClosed

-----------------------------------------------------------------------------
(* Drafts on which no two verdicts met.  The handler that is about to write   *)
(* such a draft, or has written it and not yet returned, is the only one, and *)
(* the row is what it takes it for.                                           *)
Acting(s) == h[s].pc \in {"write", "expireWrite", "del"}

RowIsRead(s) ==
    LET d == h[s].draft
    IN /\ h[s].pc \in {"write", "expireWrite"} => status[d] = "PENDING"
       /\ h[s].pc = "del" =>
             /\ status[d] = Verdict(h[s].op)
             /\ content[d] = h[s].text \/ h[s].op = "reject"
             /\ handed[d] = {}

DraftOK(d) ==
    /\ \A s, t \in Slot : Acting(s) /\ Acting(t) /\ h[s].draft = d /\ h[t].draft = d => s = t
    /\ \A s \in Slot : h[s].draft = d => RowIsRead(s)
    /\ status[d] \in {"none", "PENDING"} => content[d] = "draft" /\ handed[d] = {}
    /\ handed[d] # {} => status[d] = "APPROVED" /\ handed[d] = {content[d]}

UncrossedOK == \A d \in Draft \ crossed : DraftOK(d)

(* Two handlers of one draft do not come to write it unnoticed. *)
LEMMA MeetingIsSeen ==
    ASSUME MCNext, NEW d \in Draft \ crossed', NEW s \in Slot, NEW t \in Slot,
           h'[s].draft = d, h'[t].draft = d,
           h'[s].pc \in {"write", "expireWrite"}, h'[t].pc \in {"write", "expireWrite"}
    PROVE s = t /\ d \in Draft \ crossed
  BY DEF MCNext, Deciding

(* A step of the handler of another draft, or of none. *)
LEMMA ElsewhereKeeps ==
    ASSUME NEW d \in Draft, DraftOK(d),
           status'[d] = status[d], content'[d] = content[d], handed'[d] = handed[d],
           \A s \in Slot : h'[s] # h[s] /\ h'[s].draft = d
                              => h'[s].pc \notin {"write", "expireWrite", "del"}
    PROVE DraftOK(d)'
  BY DEF DraftOK, Acting, RowIsRead

(* The slot s goes on to write: it has just read that the draft is PENDING. *)
LEMMA ReadKeeps ==
    ASSUME IInv, MCNext, NEW d \in Draft \ crossed', DraftOK(d), NEW s \in Slot,
           status[d] = "PENDING", UNCHANGED <<status, content, handed>>,
           \A t \in Slot : t # s => h'[t] = h[t],
           h'[s].draft = d, h'[s].pc \in {"write", "expireWrite"}
    PROVE DraftOK(d)'
  <1>1. ASSUME NEW t \in Slot, Acting(t)', h'[t].draft = d PROVE t = s
    <2>1. CASE h'[t].pc = "del"
      BY <1>1, <2>1 DEF DraftOK, RowIsRead, Verdict
    <2>2. CASE h'[t].pc # "del"
      BY <1>1, <2>2, MeetingIsSeen DEF Acting
    <2> QED
      BY <2>1, <2>2
  <1>2. ASSUME NEW t \in Slot, h'[t].draft = d PROVE RowIsRead(t)'
    BY <1>2 DEF DraftOK, RowIsRead
  <1> QED
    BY <1>1, <1>2 DEF DraftOK

LEMMA UpdateKeeps ==
    ASSUME IInv, NEW d \in Draft, DraftOK(d), NEW s \in Slot, UpdateStatus(s), h[s].draft = d
    PROVE DraftOK(d)'
  <1>1. /\ status[d] = "PENDING" /\ content[d] = "draft" /\ handed[d] = {} /\ h[s] \in Handler
        /\ \A t \in Slot : Acting(t) /\ h[t].draft = d => t = s
    BY DEF UpdateStatus, DraftOK, RowIsRead, Acting, IInv, TypeOK
  <1>2. /\ h[s].op \in Verdicts
        /\ h[s].op # "edit" => h[s].text = "draft"
    BY <1>1 DEF UpdateStatus, IInv, HandlersOK, HandlerOK, Typed, Handler
  <1>3. /\ h'[s].pc = "del" /\ h'[s].op = h[s].op /\ h'[s].draft = d /\ h'[s].text = h[s].text
        /\ \A t \in Slot : t # s => h'[t] = h[t]
    BY <1>1 DEF UpdateStatus, Goto, IInv, TypeOK, Handler
  <1>4. status'[d] = Verdict(h[s].op) /\ content'[d] = h[s].text /\ handed'[d] = {}
    BY <1>1, <1>2 DEF UpdateStatus, IInv, TypeOK
  <1>5. \A t \in Slot : h'[t].draft = d /\ Acting(t)' => t = s
    BY <1>1, <1>3 DEF Acting
  <1>6. \A t \in Slot : h'[t].draft = d => RowIsRead(t)'
    BY <1>3, <1>4, <1>5 DEF RowIsRead, Acting
  <1> QED
    BY <1>4, <1>5, <1>6 DEF DraftOK, Verdict

LEMMA DeleteKeeps ==
    ASSUME IInv, NEW d \in Draft, DraftOK(d), NEW s \in Slot, DeleteKey(s), h[s].draft = d
    PROVE DraftOK(d)'
  <1>1. /\ status[d] = Verdict(h[s].op) /\ handed[d] = {}
        /\ content[d] = h[s].text \/ h[s].op = "reject"
        /\ \A t \in Slot : Acting(t) /\ h[t].draft = d => t = s
    BY DEF DeleteKey, DraftOK, RowIsRead, Acting
  <1>2. h'[s] = Idle /\ \A t \in Slot : t # s => h'[t] = h[t]
    BY DEF DeleteKey, Return, IInv, TypeOK
  <1>3. /\ status'[d] = status[d] /\ content'[d] = content[d]
        /\ h[s].op = "reject" => handed'[d] = {}
        /\ h[s].op # "reject" => handed'[d] = {content[d]}
    BY <1>1 DEF DeleteKey, rows, IInv, TypeOK
  <1>4. \A t \in Slot : h'[t].draft = d => ~Acting(t)'
    BY <1>1, <1>2, NoDraftAssumption DEF Acting, Idle
  <1> QED
    BY <1>1, <1>3, <1>4 DEF DraftOK, RowIsRead, Acting, Verdict

LEMMA ExpireKeeps ==
    ASSUME IInv, NEW d \in Draft, DraftOK(d), NEW s \in Slot, ExpireWrites(s), h[s].draft = d
    PROVE DraftOK(d)'
  <1>1. /\ content[d] = "draft" /\ handed[d] = {}
        /\ \A t \in Slot : Acting(t) /\ h[t].draft = d => t = s
    BY DEF ExpireWrites, DraftOK, RowIsRead, Acting
  <1>2. h'[s] = Idle /\ \A t \in Slot : t # s => h'[t] = h[t]
    BY DEF ExpireWrites, Return, IInv, TypeOK
  <1>3. status'[d] = "EXPIRED" /\ content'[d] = content[d] /\ handed'[d] = {}
    BY <1>1 DEF ExpireWrites, IInv, TypeOK
  <1>4. \A t \in Slot : h'[t].draft = d => ~Acting(t)'
    BY <1>1, <1>2 DEF Acting, Idle
  <1> QED
    BY <1>1, <1>3, <1>4 DEF DraftOK, RowIsRead, Acting

LEMMA UncrossedStep ==
    ASSUME IInv, UncrossedOK, MCNext PROVE UncrossedOK'
  <1> SUFFICES ASSUME NEW d \in Draft \ crossed' PROVE DraftOK(d)'
    BY DEF UncrossedOK
  <1>0. d \in Draft /\ DraftOK(d)
    BY DEF MCNext, UncrossedOK
  <1>1. ASSUME NEW s \in Slot, UpdateStatus(s) \/ DeleteKey(s) \/ ExpireWrites(s)
        PROVE DraftOK(d)'
    <2>1. CASE h[s].draft = d
      BY <1>0, <1>1, <2>1, UpdateKeeps, DeleteKeeps, ExpireKeeps
    <2>2. CASE h[s].draft # d
      <3>1. h[s].draft \in Draft /\ h[s] \in Handler
        BY <1>1 DEF UpdateStatus, DeleteKey, ExpireWrites, IInv, TypeOK, HandlersOK, HandlerOK
      <3>2. status'[d] = status[d] /\ content'[d] = content[d] /\ handed'[d] = handed[d]
        BY <1>0, <1>1, <2>2, <3>1 DEF UpdateStatus, DeleteKey, ExpireWrites, rows, IInv, TypeOK
      <3>3. /\ \A t \in Slot : t # s => h'[t] = h[t]
            /\ h'[s].draft = h[s].draft \/ h'[s] = Idle
        BY <1>1, <3>1
        DEF UpdateStatus, DeleteKey, ExpireWrites, Goto, Return, Handler, IInv, TypeOK
      <3> QED
        BY <1>0, <2>2, <3>2, <3>3, ElsewhereKeeps DEF Idle
    <2> QED
      BY <2>1, <2>2
  <1>2. ASSUME NEW s \in Slot, NEW e \in Draft, NEW op \in Verdicts, NEW text \in Machine!Content,
               GetValidDraft(s, e, op, text)
        PROVE DraftOK(d)'
    <2>1. /\ status[e] = "PENDING" /\ UNCHANGED <<status, content, handed>>
          /\ h'[s].draft = e /\ h'[s].pc \in {"write", "expireRead"}
          /\ \A t \in Slot : t # s => h'[t] = h[t]
      BY <1>2 DEF GetValidDraft, Open, rows, IInv, TypeOK
    <2>2. CASE e = d /\ h'[s].pc = "write"
      BY <1>0, <2>1, <2>2, ReadKeeps
    <2>3. CASE e # d \/ h'[s].pc = "expireRead"
      BY <1>0, <2>1, <2>3, ElsewhereKeeps
    <2> QED
      BY <2>1, <2>2, <2>3
  <1>3. ASSUME NEW s \in Slot, ExpireReads(s) PROVE DraftOK(d)'
    <2>1. /\ UNCHANGED <<status, content, handed>> /\ h[s] \in Handler
          /\ \A t \in Slot : t # s => h'[t] = h[t]
          /\ \/ h'[s] = Idle
             \/ /\ h'[s].pc = "expireWrite" /\ h'[s].draft = h[s].draft
                /\ status[h[s].draft] = "PENDING"
      BY <1>3 DEF ExpireReads, Goto, Return, rows, Handler, IInv, TypeOK
    <2>2. CASE h'[s] # Idle /\ h[s].draft = d
      BY <1>0, <2>1, <2>2, ReadKeeps
    <2>3. CASE h'[s] = Idle \/ h[s].draft # d
      BY <1>0, <2>1, <2>3, ElsewhereKeeps DEF Idle
    <2> QED
      BY <2>2, <2>3
  <1>4. ASSUME NEW s \in Slot, NEW e \in Draft, CreateDraft(s, e) PROVE DraftOK(d)'
    <2>1. /\ status[e] = "none" /\ status' = [status EXCEPT ![e] = "PENDING"]
          /\ UNCHANGED <<content, handed>>
          /\ h'[s].pc = "setex" /\ \A t \in Slot : t # s => h'[t] = h[t]
      BY <1>4 DEF CreateDraft, Open, IInv, TypeOK
    <2>2. CASE e = d
      <3>1. \A t \in Slot : h[t].draft = d => ~Acting(t)
        BY <1>0, <2>1, <2>2 DEF DraftOK, RowIsRead, Acting, Verdict
      <3>2. \A t \in Slot : h'[t].draft = d => ~Acting(t)'
        BY <2>1, <3>1 DEF Acting
      <3>3. status'[d] = "PENDING" /\ content'[d] = "draft" /\ handed'[d] = {}
        BY <1>0, <2>1, <2>2 DEF DraftOK, IInv, TypeOK
      <3> QED
        BY <3>2, <3>3 DEF DraftOK, RowIsRead, Acting
    <2>3. CASE e # d
      BY <1>0, <2>1, <2>3, ElsewhereKeeps DEF IInv, TypeOK
    <2> QED
      BY <2>2, <2>3
  <1>5. ASSUME NEW s \in Slot, Announce(s) \/ Fail(s) \/ \E e \in Draft : FireTimer(s, e)
        PROVE DraftOK(d)'
    <2>1. /\ UNCHANGED <<status, content, handed>> /\ h'[s].pc \in {"idle", "expireRead"}
          /\ \A t \in Slot : t # s => h'[t] = h[t]
      BY <1>5 DEF Announce, Fail, FireTimer, Return, Open, rows, Idle, IInv, TypeOK
    <2> QED
      BY <1>0, <2>1, ElsewhereKeeps
  <1>6. CASE Crash \/ \E e \in Draft : FallDue(e)
    <2>1. /\ UNCHANGED <<status, content, handed>>
          /\ \A t \in Slot : h'[t] = h[t] \/ h'[t] = Idle
      BY <1>6 DEF Crash, FallDue, rows
    <2> QED
      BY <1>0, <2>1, ElsewhereKeeps DEF Idle
  <1> QED
    BY <1>1, <1>2, <1>3, <1>4, <1>5, <1>6 DEF MCNext, Next, Continue

LEMMA UncrossedInvariance == MCSpec => [](IInv /\ UncrossedOK)
  <1>1. MCInit => IInv /\ UncrossedOK
    BY InitEstablishes DEF MCInit, Init, Machine!Init, UncrossedOK, DraftOK, Acting, RowIsRead, Idle
  <1>2. IInv /\ UncrossedOK /\ [MCNext]_mcvars => IInv' /\ UncrossedOK'
    <2>1. ASSUME UNCHANGED mcvars, IInv, UncrossedOK PROVE IInv' /\ UncrossedOK'
      <3>1. IInv'
        BY <2>1, StepPreserves DEF mcvars
      <3>2. UncrossedOK'
        BY <2>1 DEF mcvars, vars, rows, UncrossedOK, DraftOK, Acting, RowIsRead
      <3> QED
        BY <3>1, <3>2
    <2> QED
      BY <2>1, StepPreserves, UncrossedStep DEF MCNext
  <1> QED
    BY <1>1, <1>2, PTL DEF MCSpec

(* The caller of approveDraft or editAndApproveDraft is handed what the row   *)
(* holds, for every number of drafts, texts and handlers that overlap with    *)
(* it, as long as no two of them met between the read and the update.         *)
THEOREM HandedOutIsStored == MCSpec => []HandedIsStored
  <1>1. UncrossedOK => HandedIsStored
    BY DEF UncrossedOK, DraftOK, HandedIsStored
  <1> QED
    BY <1>1, UncrossedInvariance, PTL

-----------------------------------------------------------------------------
(* The step that decides a draft: the handler has it to itself. *)
LEMMA DecisionSteps ==
    ASSUME IInv, NEW s \in Slot, UpdateStatus(s) \/ ExpireWrites(s), DraftOK(h[s].draft)
    PROVE Machine!Next
  <1> DEFINE d == h[s].draft
  <1>1. d \in Draft /\ status[d] = "PENDING" /\ content[d] = "draft" /\ h[s] \in Handler
    BY DEF UpdateStatus, ExpireWrites, IInv, TypeOK, HandlersOK, HandlerOK, DraftOK, RowIsRead
  <1>2. CASE UpdateStatus(s)
    <2> DEFINE c == IF h[s].op = "edit" THEN h[s].text ELSE "draft"
    <2>1. c \in Machine!Content
      BY <1>1 DEF Handler
    <2>2. /\ status' = [status EXCEPT ![d] = Verdict(h[s].op)]
          /\ content' = [content EXCEPT ![d] = c] /\ handed' = handed
      BY <1>1, <1>2 DEF UpdateStatus, IInv, TypeOK
    <2>3. Verdict(h[s].op) \in Machine!Verdict /\ (c \in Text => Verdict(h[s].op) = "APPROVED")
      BY EditAssumption DEF Verdict
    <2>4. Machine!Decide(d, Verdict(h[s].op), c)
      BY <1>1, <2>2, <2>3 DEF Machine!Decide
    <2> QED
      BY <1>1, <2>1, <2>3, <2>4 DEF Machine!Next
  <1>3. CASE ExpireWrites(s)
    <2>1. Machine!Decide(d, "EXPIRED", "draft")
      BY <1>1, <1>3, EditAssumption DEF ExpireWrites, Machine!Decide, IInv, TypeOK
    <2> QED
      BY <1>1, <2>1 DEF Machine!Next
  <1> QED
    BY <1>2, <1>3

(* The step that returns an approved draft, or nothing. *)
LEMMA HandOutStep ==
    ASSUME IInv, NEW s \in Slot, DeleteKey(s), DraftOK(h[s].draft)
    PROVE Machine!Next \/ UNCHANGED Machine!vars
  <1> DEFINE d == h[s].draft
  <1>1. /\ d \in Draft /\ h[s].op \in Verdicts
        /\ status[d] = Verdict(h[s].op) /\ handed[d] = {}
        /\ content[d] = h[s].text \/ h[s].op = "reject"
    BY DEF DeleteKey, IInv, HandlersOK, HandlerOK, DraftOK, RowIsRead
  <1>2. UNCHANGED <<status, content>>
    BY DEF DeleteKey, rows
  <1>3. handed' = IF h[s].op = "reject" THEN handed ELSE [handed EXCEPT ![d] = {content[d]}]
    BY <1>1 DEF DeleteKey, Verdicts, IInv, TypeOK
  <1>4. CASE h[s].op = "reject"
    BY <1>2, <1>3, <1>4 DEF Machine!vars
  <1>5. CASE h[s].op # "reject"
    <2>1. Machine!HandOut(d)
      BY <1>1, <1>2, <1>3, <1>5 DEF Machine!HandOut, Verdict
    <2> QED
      BY <1>1, <2>1 DEF Machine!Next
  <1> QED
    BY <1>4, <1>5

LEMMA MachineStep ==
    ASSUME IInv, UncrossedOK, MCNext, crossed' = {}
    PROVE Machine!Next \/ UNCHANGED Machine!vars
  <1>0. \A d \in Draft : DraftOK(d)
    BY DEF UncrossedOK, MCNext
  <1>1. ASSUME NEW s \in Slot, UpdateStatus(s) \/ ExpireWrites(s) \/ DeleteKey(s)
        PROVE Machine!Next \/ UNCHANGED Machine!vars
    <2>1. h[s].draft \in Draft
      BY <1>1 DEF UpdateStatus, ExpireWrites, DeleteKey, IInv, HandlersOK, HandlerOK
    <2> QED
      BY <1>0, <1>1, <2>1, DecisionSteps, HandOutStep
  <1>2. ASSUME NEW s \in Slot, NEW d \in Draft, CreateDraft(s, d) PROVE Machine!Next
    <2>1. Machine!Create(d)
      BY <1>2 DEF CreateDraft, Machine!Create
    <2> QED
      BY <2>1 DEF Machine!Next
  <1>3. ASSUME NEW s \in Slot,
               \/ Announce(s) \/ ExpireReads(s) \/ Fail(s)
               \/ \E d \in Draft : FireTimer(s, d)
               \/ \E d \in Draft, op \in Verdicts, text \in Machine!Content :
                      GetValidDraft(s, d, op, text)
        PROVE UNCHANGED Machine!vars
    BY <1>3 DEF Announce, ExpireReads, Fail, FireTimer, GetValidDraft, rows, Machine!vars
  <1>4. CASE Crash \/ \E d \in Draft : FallDue(d)
    BY <1>4 DEF Crash, FallDue, rows, Machine!vars
  <1> QED
    BY <1>1, <1>2, <1>3, <1>4 DEF MCNext, Next, Continue

(* The class comment of DraftService: until two verdicts meet on a draft, and *)
(* whatever overlaps, fails or crashes between awaits, drafts go from PENDING *)
(* to one verdict for good and are handed out at most once, as approved.      *)
THEOREM ImplementsMachine == MCSpec => FollowsMachine
  <1>1. MCInit => Machine!Init
    BY DEF MCInit, Init
  <1>2. IInv /\ UncrossedOK /\ [MCNext]_mcvars
        => [crossed' = {} => [Machine!Next]_(Machine!vars)]_mcvars
    BY MachineStep
  <1> QED
    BY <1>1, <1>2, UncrossedInvariance, PTL DEF MCSpec, FollowsMachine
=============================================================================
