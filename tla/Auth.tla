---------------------------------- MODULE Auth ----------------------------------
(***************************************************************************)
(* The sessions of phones: AuthService (apps/server/src/auth) with its     *)
(* rotating refresh tokens, and the phone's AuthNotifier, AuthRepository   *)
(* and AuthInterceptor (apps/mobile/lib), which is Dio's QueuedInterceptor: *)
(* it handles one error at a time.                                         *)
(*                                                                         *)
(* Refresh tokens are numbers in the order they were signed, login[t] is   *)
(* the number of the token that began t's session.  Access tokens are      *)
(* only "good" or "old" (15 minutes have passed).  A call is a slot of the *)
(* server with one step per query.                                         *)
(***************************************************************************)
EXTENDS Naturals, Sequences, FiniteSets

CONSTANTS Phone, NoPhone,
          Account,       \* Account[p]: the account p's user registers or logs in with
          Call,          \* calls the server handles at the same time
          MaxTokens, MaxRequests, MaxMishaps   \* bounds

ASSUME PhoneAssumption == NoPhone \notin Phone
ASSUME AuthBoundsAssumption == {MaxTokens, MaxRequests, MaxMishaps} \subseteq Nat

VARIABLES account,    \* User rows
          login,      \* the tokens signed
          stored,     \* RefreshToken rows
          lapsed,     \* tokens older than 30 days
          call,       \* call[k]: the handler on slot k
          phone,      \* phone[p]: secure storage, login form, requests and interceptor
          mishaps

authRows == <<account, login, stored, lapsed>>
authVars == <<authRows, call, phone, mishaps>>

Token == 1..Len(login)
NoCall == [op |-> "none", pc |-> "idle", by |-> NoPhone, waits |-> FALSE,
           tok |-> 0, new |-> 0]

(* access and refresh: the storage.  form: the login in progress, with its    *)
(* token.  asked: requests sent with an old token.  waiting: their errors.     *)
(* pc, tok: what the interceptor does with the first of them.                  *)
NewPhone == [access |-> "none", refresh |-> 0, form |-> "none", formTok |-> 0,
             asked |-> 0, waiting |-> 0, pc |-> "free", tok |-> 0]

AuthInit ==
    /\ account = {} /\ login = <<>> /\ stored = {} /\ lapsed = {}
    /\ call = [k \in Call |-> NoCall]
    /\ phone = [p \in Phone |-> NewPhone]
    /\ mishaps = 0

-----------------------------------------------------------------------------
InCall(k, op, pc) == call[k].op = op /\ call[k].pc = pc
(* A call from p, which waits for the answer until the connection breaks. *)
Ask(k, op, pc, p, t) ==
    /\ call[k] = NoCall
    /\ call' = [call EXCEPT ![k] = [op |-> op, pc |-> pc, by |-> p, waits |-> op # "logout",
                                    tok |-> t, new |-> 0]]
Proceed(k, pc) == call' = [call EXCEPT ![k].pc = pc]
Answer(k, pc) ==
    call' = [call EXCEPT ![k] = IF call[k].waits THEN [@ EXCEPT !.pc = pc] ELSE NoCall]
CutOff(c) == IF c.pc \in {"answered", "failed"} THEN NoCall ELSE [c EXCEPT !.waits = FALSE]

(* register: nobody has the name, the row is created, the session, the bots. *)
FindNobody(k) ==
    /\ InCall(k, "register", "find")
    /\ IF Account[call[k].by] \in account THEN Answer(k, "failed") ELSE Proceed(k, "create")
    /\ UNCHANGED <<authRows, phone, mishaps>>

(* email and username are unique: the second of two creates is rejected. *)
CreateUser(k) ==
    /\ InCall(k, "register", "create")
    /\ IF Account[call[k].by] \in account
       THEN Answer(k, "failed") /\ UNCHANGED account
       ELSE account' = account \cup {Account[call[k].by]} /\ Proceed(k, "sign")
    /\ UNCHANGED <<login, stored, lapsed, phone, mishaps>>

(* login: the user is found and the password is right. *)
FindUser(k) ==
    /\ InCall(k, "login", "find")
    /\ IF Account[call[k].by] \in account THEN Proceed(k, "sign") ELSE Answer(k, "failed")
    /\ UNCHANGED <<authRows, phone, mishaps>>

(* generateTokenPair: a refresh token of a new session, or of the one of tok. *)
GenerateTokenPair(k) ==
    /\ call[k].pc = "sign" /\ Len(login) < MaxTokens
    /\ login' = Append(login, IF call[k].op = "refresh" THEN login[call[k].tok]
                              ELSE Len(login) + 1)
    /\ call' = [call EXCEPT ![k].pc = "store", ![k].new = Len(login) + 1]
    /\ UNCHANGED <<account, stored, lapsed, phone, mishaps>>

(* storeRefreshToken; what register does for the bots afterwards cannot fail it. *)
StoreRefreshToken(k) ==
    /\ call[k].pc = "store"
    /\ stored' = stored \cup {call[k].new}
    /\ Answer(k, "answered")
    /\ UNCHANGED <<account, login, lapsed, phone, mishaps>>

(* refresh: the signature and the row are valid and neither is expired. *)
FindStored(k) ==
    /\ InCall(k, "refresh", "find")
    /\ IF call[k].tok \in stored \ lapsed THEN Proceed(k, "delete") ELSE Answer(k, "failed")
    /\ UNCHANGED <<authRows, phone, mishaps>>

(* Mutant: no rotation, the token may be used again. *)
KeepStored(k) ==
    /\ InCall(k, "refresh", "delete")
    /\ Proceed(k, "sign")
    /\ UNCHANGED <<authRows, phone, mishaps>>

(* Mutant: deleteMany, which does not mind when nothing is there. *)
DeleteAny(k) ==
    /\ InCall(k, "refresh", "delete")
    /\ stored' = stored \ {call[k].tok}
    /\ Proceed(k, "sign")
    /\ UNCHANGED <<account, login, lapsed, phone, mishaps>>

(* Token rotation: delete by id rejects when the row is gone. *)
DeleteStored(k) ==
    /\ InCall(k, "refresh", "delete")
    /\ stored' = stored \ {call[k].tok}
    /\ IF call[k].tok \in stored THEN Proceed(k, "sign") ELSE Answer(k, "failed")
    /\ UNCHANGED <<account, login, lapsed, phone, mishaps>>

(* logout: whatever the delete answers, it was a success. *)
Logout(k) ==
    /\ InCall(k, "logout", "delete")
    /\ stored' = stored \ {call[k].tok}
    /\ Answer(k, "answered")
    /\ UNCHANGED <<account, login, lapsed, phone, mishaps>>

-----------------------------------------------------------------------------
(* The login or registration page, and POST /auth/logout of any API client. *)
SubmitForm(p, k) ==
    /\ phone[p].form = "none" /\ phone[p].access = "none"
    /\ \E op \in {"login", "register"} : Ask(k, op, "find", p, 0)
    /\ phone' = [phone EXCEPT ![p].form = "sent"]
    /\ UNCHANGED <<authRows, mishaps>>

CallLogout(p, k) ==
    /\ phone[p].refresh # 0
    /\ Ask(k, "logout", "delete", p, phone[p].refresh)
    /\ mishaps < MaxMishaps /\ mishaps' = mishaps + 1
    /\ UNCHANGED <<authRows, phone>>

TakeForm(p, k) ==
    /\ call[k].by = p /\ call[k].waits /\ call[k].op \in {"login", "register"}
    /\ \/ /\ call[k].pc = "answered"
          /\ phone' = [phone EXCEPT ![p].form = "writeAccess", ![p].formTok = call[k].new]
       \/ /\ call[k].pc = "failed"
          /\ phone' = [phone EXCEPT ![p].form = "none"]
    /\ call' = [call EXCEPT ![k] = NoCall]
    /\ UNCHANGED <<authRows, mishaps>>

(* saveTokens of a login: two writes. *)
SaveForm(p) ==
    /\ \/ /\ phone[p].form = "writeAccess"
          /\ phone' = [phone EXCEPT ![p].access = "good", ![p].form = "writeRefresh"]
       \/ /\ phone[p].form = "writeRefresh"
          /\ phone' = [phone EXCEPT ![p].refresh = phone[p].formTok, ![p].form = "none",
                                    ![p].formTok = 0]
    /\ UNCHANGED <<authRows, call, mishaps>>

(* AuthNotifier.logout tells the server nothing; clearAll. *)
LogOut(p) ==
    /\ phone[p].access # "none" /\ phone[p].form = "none"
    /\ phone' = [phone EXCEPT ![p].access = "none", ![p].refresh = 0]
    /\ UNCHANGED <<authRows, call, mishaps>>

-----------------------------------------------------------------------------
Expire(p) ==
    /\ phone[p].access = "good"
    /\ phone' = [phone EXCEPT ![p].access = "old"]
    /\ UNCHANGED <<authRows, call, mishaps>>

(* A request with an old token, and the 401 it gets, perhaps much later. *)
Request(p) ==
    /\ phone[p].access = "old"
    /\ phone[p].asked + phone[p].waiting < MaxRequests
    /\ phone' = [phone EXCEPT ![p].asked = @ + 1]
    /\ UNCHANGED <<authRows, call, mishaps>>

Unauthorized(p) ==
    /\ phone[p].asked > 0
    /\ phone' = [phone EXCEPT ![p].asked = @ - 1, ![p].waiting = @ + 1]
    /\ UNCHANGED <<authRows, call, mishaps>>

(* The error goes back to who sent the request; the next one is handled. *)
Done(ph) == [ph EXCEPT !.pc = "free", !.tok = 0, !.waiting = @ - 1]
Cleared(ph) == [ph EXCEPT !.access = "none", !.refresh = 0]

(* onError: refreshAccessToken reads the token; without one, onAuthExpired. *)
RefreshAccessToken(p, k) ==
    /\ phone[p].pc = "free" /\ phone[p].waiting > 0
    /\ IF phone[p].refresh = 0
       THEN /\ phone' = [phone EXCEPT ![p] = Cleared(Done(@))]
            /\ UNCHANGED call
       ELSE /\ Ask(k, "refresh", "find", p, phone[p].refresh)
            /\ phone' = [phone EXCEPT ![p].pc = "refreshing"]
    /\ UNCHANGED <<authRows, mishaps>>

(* Any error of the refresh clears the storage and calls onAuthExpired. *)
TakeRefresh(p, k) ==
    /\ call[k].by = p /\ call[k].waits /\ call[k].op = "refresh"
    /\ \/ /\ call[k].pc = "answered"
          /\ phone' = [phone EXCEPT ![p].pc = "writeAccess", ![p].tok = call[k].new]
       \/ /\ call[k].pc = "failed"
          /\ phone' = [phone EXCEPT ![p] = Cleared(Done(@))]
    /\ call' = [call EXCEPT ![k] = NoCall]
    /\ UNCHANGED <<authRows, mishaps>>

SaveTokens(p) ==
    /\ \/ /\ phone[p].pc = "writeAccess"
          /\ phone' = [phone EXCEPT ![p].access = "good", ![p].pc = "writeRefresh"]
       \/ /\ phone[p].pc = "writeRefresh"
          /\ phone' = [phone EXCEPT ![p].refresh = phone[p].tok, ![p].pc = "retrying"]
    /\ UNCHANGED <<authRows, call, mishaps>>

(* Mutant: the answer is not handed on. *)
RetryKept(p) ==
    /\ phone[p].pc = "retrying"
    /\ phone' = [phone EXCEPT ![p].tok = 0]
    /\ UNCHANGED <<authRows, call, mishaps>>

(* The request is sent again with the new token and succeeds. *)
Retry(p) ==
    /\ phone[p].pc = "retrying"
    /\ phone' = [phone EXCEPT ![p] = Done(@)]
    /\ UNCHANGED <<authRows, call, mishaps>>

-----------------------------------------------------------------------------
Mishap == mishaps < MaxMishaps /\ mishaps' = mishaps + 1

(* It fails, with whatever status: its error queues behind the one that waits *)
(* for it, and the interceptor never returns.                                  *)
RetryFails(p) ==
    /\ Mishap /\ phone[p].pc = "retrying"
    /\ phone' = [phone EXCEPT ![p].pc = "stuck", ![p].tok = 0]
    /\ UNCHANGED <<authRows, call>>

(* A query rejects; a failed delete of logout is no error. *)
QueryFails(k) ==
    /\ Mishap /\ call[k].pc \in {"find", "create", "delete", "store"}
    /\ Answer(k, IF call[k].op = "logout" THEN "answered" ELSE "failed")
    /\ UNCHANGED <<authRows, phone>>

(* The connection breaks: the phone gets an error, the server goes on. *)
AnswerLost(p, k) ==
    /\ Mishap /\ call[k].by = p /\ call[k].waits
    /\ phone' = [phone EXCEPT ![p] = IF call[k].op = "refresh" THEN Cleared(Done(@))
                                     ELSE [@ EXCEPT !.form = "none"]]
    /\ call' = [call EXCEPT ![k] = CutOff(@)]
    /\ UNCHANGED authRows

(* The application ends; the storage stays. *)
PhoneKilled(p) ==
    /\ Mishap /\ phone[p] # NewPhone
    /\ phone' = [phone EXCEPT ![p] = [NewPhone EXCEPT !.access = phone[p].access,
                                                      !.refresh = phone[p].refresh]]
    /\ call' = [k \in Call |-> IF call[k].by = p THEN CutOff(call[k]) ELSE call[k]]
    /\ UNCHANGED authRows

(* The process of the server ends between two queries. *)
ServerCrash ==
    /\ Mishap
    /\ phone' = [p \in Phone |->
                   IF phone[p].pc = "refreshing" THEN Cleared(Done(phone[p]))
                   ELSE IF phone[p].form = "sent" THEN [phone[p] EXCEPT !.form = "none"]
                   ELSE phone[p]]
    /\ call' = [k \in Call |-> NoCall]
    /\ UNCHANGED authRows

MonthPasses ==
    /\ Mishap
    /\ lapsed' = Token
    /\ UNCHANGED <<account, login, stored, call, phone>>

Serve(k) ==
    \/ FindNobody(k) \/ CreateUser(k) \/ FindUser(k)
    \/ GenerateTokenPair(k) \/ StoreRefreshToken(k)
    \/ FindStored(k) \/ DeleteStored(k) \/ Logout(k)

AuthNext ==
    \/ \E k \in Call : Serve(k) \/ QueryFails(k)
    \/ \E p \in Phone, k \in Call :
          \/ SubmitForm(p, k) \/ CallLogout(p, k) \/ TakeForm(p, k)
          \/ RefreshAccessToken(p, k) \/ TakeRefresh(p, k) \/ AnswerLost(p, k)
    \/ \E p \in Phone :
          \/ SaveForm(p) \/ LogOut(p) \/ Expire(p) \/ Request(p) \/ Unauthorized(p)
          \/ SaveTokens(p) \/ Retry(p) \/ RetryFails(p) \/ PhoneKilled(p)
    \/ ServerCrash \/ MonthPasses

AuthSpec == AuthInit /\ [][AuthNext]_authVars
-----------------------------------------------------------------------------
Signing(k) == call[k].op = "refresh" /\ call[k].pc = "sign"
Held(t) == t \in stored \/ \E k \in Call : call[k].pc = "store" /\ call[k].new = t

(* Token rotation: a session never has two refresh tokens that work or are    *)
(* about to, however often its clients present one, retry, crash or lose the  *)
(* answer (refresh).                                                          *)
OneTokenPerSession ==
    \A t1, t2 \in Token : Held(t1) /\ Held(t2) /\ login[t1] = login[t2] => t1 = t2

(* A session with no token left, by logout or by a refresh that was cut off   *)
(* after its delete, is over: no call that was under way brings it back.      *)
Alive(s) ==
    \/ \E t \in Token : Held(t) /\ login[t] = s
    \/ \E k \in Call : Signing(k) /\ login[call[k].tok] = s

EndedStaysEnded ==
    [][\A t \in Token : ~Alive(login[t]) => ~Alive(login[t])']_authVars
=============================================================================
