----------------------------- MODULE MCChatClient -----------------------------
(* Instances of ChatClient: one desktop reads what another user writes.  The   *)
(* client gives no guarantee after some orders of events; excused names the    *)
(* properties a behaviour has lost that way.                                   *)
EXTENDS ChatClient, TLC

CONSTANTS writer, reader,
          MaxTrouble   \* bound: edits, deletes, shared milliseconds; a fault or a move counts two

OneSocket == Me :> reader
WriterAndDesktop ==
    (writer :> {"create", "edit", "delete"}) @@ (reader :> {"create", "page", "list", "read", "join"})

AnySlot == Permutations(Slot)

VARIABLE excused
mcVars == <<allVars, excused>>

Fetches == {s \in Slot : h[s].op = "page" /\ h[s].sock = Me}
Asked == {s \in Fetches : h[s].pc = "answered"}
Writes == {s \in Slot : h[s].op \in {"create", "edit", "delete"}}
Pushing == {s \in Writes : h[s].pc = "push"}
Ids(q) == {q[i].id : i \in DOMAIN q}

(* Something is stored that this client will still be told of. *)
OnItsWay ==
    Pushing # {} \/ wire[Me] # <<>> \/ \E s \in Writes : At(s, "create", "answered")

(* What the code does not provide for: *)
PushMeetsPage == (Fetches # {} /\ OnItsWay)'     \* a page is fetched meanwhile
FetchTwice == Cardinality(Fetches') > 1          \* a second page before the first has come
PushFirst == list = <<>> /\ list' # <<>> /\ Asked' = Asked   \* the list begins with a push
FetchSkipped ==                                  \* loadingRef is set for another thread
    page # "thread" /\ page' = "thread" /\ loading = Elsewhere
Missed ==                                        \* a push while the socket is not in the room
    Pushing' # Pushing /\ Me \notin room /\ (list # <<>> \/ Fetches # {} \/ page = "thread")
Crossed == Cardinality(Writes') > 1              \* two updates are handled at once
LateListing ==                                   \* the listing answers in an open thread
    page = "thread" /\ badge' > badge
Unlinked ==                                      \* looked at without a connection
    active' /\ list' # <<>> /\ ~Connected /\ (~active \/ Len(list') # Len(list))
Receipts == {s \in Slot : h[s].op = "read" /\ h[s].sock = Me}
ReceiptsCross == Cardinality(Receipts') > 1      \* two receipts are handled at once
Dropped == Connected /\ ~Connected'
NotPushed == faults' # faults /\ \E s \in Writes : h'[s].pc \in {"idle", "failed"}

Excuses ==
    (IF FetchTwice THEN {"once"} ELSE {})
    \cup (IF PushFirst \/ FetchSkipped \/ faults' # faults THEN {"history", "read"} ELSE {})
    \cup (IF Crossed THEN {"current", "read"} ELSE {})
    \cup (IF LateListing \/ Unlinked \/ ReceiptsCross THEN {"read"} ELSE {})
    \cup (IF Missed \/ NotPushed \/ Dropped THEN {"history", "current", "read"} ELSE {})
    \cup (IF PushMeetsPage THEN {"once", "current", "read"} ELSE {})

MCInit == ClientInit /\ excused = {}

(* A handler pauses where the client can tell: before a push, between the two  *)
(* reads of a listing, at every query of a receipt, and until its answer is    *)
(* taken.  The other steps are taken at once, their races are checked with     *)
(* Messages.                                                                   *)
Pauses(s) == h[s].op = "read" \/ h[s].pc \in {"idle", "push", "count", "answered", "failed"}
Unseen == {s \in Slot : ~Pauses(s)}
DesktopNext ==
    /\ IF Pushed("notify") THEN ReceiveNotification
       ELSE IF Unseen # {} THEN \E s \in Unseen : (Continue(s) \/ Fail(s)) /\ UNCHANGED client
       ELSE ClientNext
    /\ excused' = excused \cup Excuses
DesktopSpec == MCInit /\ [][DesktopNext]_mcVars

(* For TLC: one listing is fetched at a time, nothing is followed in which     *)
(* only ShownOnce or only HistoryComplete is left, and once OpenMeansRead is   *)
(* lost receipts are finished first: nothing else tells of the cursor.         *)
Trouble ==
    Cardinality({i \in Id : msgs[i].text > 0}) + Cardinality(Id \ Live) + 2 * (moves + faults)
    + Cardinality({i \in Id \ {1} : msgs[i].at = msgs[i - 1].at})
MCNext ==
    /\ DesktopNext
    /\ ~({"history", "current", "read"} \subseteq excused)
    /\ ~({"once", "current", "read"} \subseteq excused)
    /\ Cardinality({s \in Slot : h'[s].op = "list"}) <= 1
    /\ Trouble' <= MaxTrouble
    /\ "read" \in excused /\ Receipts # {} /\ Unseen = {} /\ ~Pushed("notify") =>
          \E s \in Receipts : h'[s] # h[s]
MCSpec == MCInit /\ [][MCNext]_mcVars

-----------------------------------------------------------------------------
(* Nothing is on its way between this client and the server. *)
Quiet == (\A s \in Slot : h[s] = Idle) /\ wire[Me] = <<>> /\ up = <<>>

(* prependMessages compares no ids, addMessage does: a message is shown once,  *)
(* however its push, the answer to its author and the pages follow each other, *)
(* until a page is fetched while a push is on its way, or a second page.        *)
ShownOnce ==
    "once" \notin excused =>
        \A i, j \in DOMAIN list : list[i].id = list[j].id => i = j

(* Scrolled to the end of the history, an open thread shows every message     *)
(* that is not deleted; paging by createdAt may pass over a message of the     *)
(* millisecond of another one, and over nothing else.                          *)
HistoryComplete ==
    Quiet /\ page = "thread" /\ ~more /\ "history" \notin excused =>
        \A i \in Live : \/ i \in Ids(list)
                        \/ \E j \in Id \ {i} : msgs[j].at = msgs[i].at

(* No deleted message and no old text stays on the screen once nothing is on  *)
(* its way.                                                                    *)
ShownIsCurrent ==
    Quiet /\ "current" \notin excused =>
        \A i \in DOMAIN list : list[i].id \in Live /\ list[i].text = msgs[list[i].id].text

(* Once its history is there, an open thread has no unread message, neither   *)
(* on the screen nor in the database.                                          *)
OpenMeansRead ==
    Quiet /\ page = "thread" /\ ~more /\ Connected /\ "read" \notin excused =>
        /\ badge = 0
        /\ \A i \in UnreadAfter(me, seen[me]) : \E j \in Id \ {i} : msgs[j].at = msgs[i].at
=============================================================================
