----------------------------- MODULE SessionsProofs -----------------------------
(***************************************************************************)
(* Theorems about Auth, DeviceLink and Presence, for any number of phones,  *)
(* calls, sockets and connections.                                          *)
(*                                                                         *)
(* Auth: rotation leaves a session at most one token that works, and a      *)
(* session that has none is over.  Most steps only shrink what is stored or *)
(* end calls (Calm); the three that do more are the delete, the signing and *)
(* the store of a refresh.                                                  *)
(*                                                                         *)
(* Presence and DeviceLink: when no handler is under way, what is stored    *)
(* and what was told agree with the connections there are (MCSessions).     *)
(***************************************************************************)
EXTENDS MCSessions, Integers, TLAPS

CallRecord ==
    [op : {"none", "register", "login", "refresh", "logout"},
     pc : {"idle", "find", "create", "delete", "sign", "store", "answered", "failed"},
     by : Phone \cup {NoPhone}, waits : BOOLEAN, tok : Nat, new : Nat]

PhoneRecord ==
    [access : {"none", "good", "old"}, refresh : Nat,
     form : {"none", "sent", "writeAccess", "writeRefresh"}, formTok : Nat,
     asked : Int, waiting : Int,
     pc : {"free", "refreshing", "writeAccess", "writeRefresh", "retrying", "stuck"}, tok : Nat]

TypeOK ==
    /\ login \in Seq(Nat)
    /\ stored \subseteq Token
    /\ call \in [Call -> CallRecord]
    /\ phone \in [Phone -> PhoneRecord]

(* A session is numbered by its first token, so a new one is not an old one. *)
Numbered == \A t \in Token : login[t] <= t

(* A token on its way to the table is in no row yet; what is signed for a    *)
(* session is signed for a token there was.                                  *)
Flow ==
    \A k \in Call : /\ call[k].pc = "store" => call[k].new \in Token \ stored
                    /\ Signing(k) => call[k].tok \in Token

StoredApart ==
    \A k1, k2 \in Call :
        call[k1].pc = "store" /\ call[k2].pc = "store" /\ call[k1].new = call[k2].new => k1 = k2

(* A refresh that is about to sign has taken away the token of its session.  *)
SignsAlone ==
    \A k \in Call : Signing(k) =>
        /\ \A t \in Token : Held(t) => login[t] # login[call[k].tok]
        /\ \A k2 \in Call : Signing(k2) /\ login[call[k2].tok] = login[call[k].tok] => k2 = k

SessionInv == Numbered /\ Flow /\ StoredApart /\ OneTokenPerSession /\ SignsAlone
IInv == TypeOK /\ SessionInv

(* A session that is over before a step is over after it. *)
NoneReturns == \A t \in Token : Alive(login[t])' => Alive(login[t])

(* No call begins to sign for a session or to store; rows only go. *)
Calm ==
    /\ login' = login
    /\ stored' \subseteq stored
    /\ \A k \in Call : \/ call'[k].pc # "store" /\ ~Signing(k)'
                       \/ /\ call'[k].op = call[k].op /\ call'[k].pc = call[k].pc
                          /\ call'[k].tok = call[k].tok /\ call'[k].new = call[k].new

-----------------------------------------------------------------------------
(* Types.  First the calls, which the server's own steps change. *)
LEMMA NoCallTyped == NoCall \in CallRecord
  BY DEF NoCall, CallRecord

LEMMA NewPhoneTyped == NewPhone \in PhoneRecord
  BY DEF NewPhone, PhoneRecord

LEMMA AnswerTyped ==
    ASSUME TypeOK, NEW k \in Call, NEW pc \in {"answered", "failed"}, Answer(k, pc)
    PROVE  call' \in [Call -> CallRecord]
  BY NoCallTyped DEF TypeOK, Answer, CallRecord

LEMMA ProceedTyped ==
    ASSUME TypeOK, NEW k \in Call, NEW pc \in {"create", "delete", "sign"}, Proceed(k, pc)
    PROVE  call' \in [Call -> CallRecord]
  BY DEF TypeOK, Proceed, CallRecord

LEMMA AskTyped ==
    ASSUME TypeOK, NEW k \in Call, NEW p \in Phone, NEW t \in Nat,
           NEW op \in {"register", "login", "refresh", "logout"}, NEW pc \in {"find", "delete"},
           Ask(k, op, pc, p, t)
    PROVE  call' \in [Call -> CallRecord]
  BY DEF TypeOK, Ask, CallRecord

LEMMA CutOffTyped ==
    ASSUME NEW c \in CallRecord
    PROVE  CutOff(c) \in CallRecord
  BY NoCallTyped DEF CutOff, CallRecord

(* The phones. *)
LEMMA PhoneTyped ==
    ASSUME TypeOK, NEW p \in Phone, NEW ph \in PhoneRecord, phone' = [phone EXCEPT ![p] = ph]
    PROVE  phone' \in [Phone -> PhoneRecord]
  BY DEF TypeOK

LEMMA DoneTyped ==
    ASSUME NEW ph \in PhoneRecord
    PROVE  Done(ph) \in PhoneRecord
  <1>1. ph.waiting - 1 \in Int
    BY DEF PhoneRecord
  <1>2. [ph EXCEPT !.pc = "free", !.tok = 0, !.waiting = ph.waiting - 1] \in PhoneRecord
    BY <1>1, ZenonT(30) DEF PhoneRecord
  <1> QED
    BY <1>2 DEF Done

LEMMA ClearedTyped ==
    ASSUME NEW ph \in PhoneRecord
    PROVE  Cleared(ph) \in PhoneRecord
  <1>1. [ph EXCEPT !.access = "none", !.refresh = 0] \in PhoneRecord
    BY ZenonT(30) DEF PhoneRecord
  <1> QED
    BY <1>1 DEF Cleared

LEMMA TypeInit == AuthInit => TypeOK
  BY NoCallTyped, NewPhoneTyped DEF AuthInit, TypeOK, Token

LEMMA TypeServe ==
    ASSUME TypeOK, Flow, NEW k \in Call, Serve(k)
    PROVE  TypeOK'
  <1>1. CASE FindNobody(k)
    BY <1>1, AnswerTyped, ProceedTyped DEF FindNobody, TypeOK, authRows, Token
  <1>2. CASE CreateUser(k)
    BY <1>2, AnswerTyped, ProceedTyped DEF CreateUser, TypeOK, Token
  <1>3. CASE FindUser(k)
    BY <1>3, AnswerTyped, ProceedTyped DEF FindUser, TypeOK, authRows, Token
  <1>4. CASE GenerateTokenPair(k)
    <2> DEFINE s == IF call[k].op = "refresh" THEN login[call[k].tok] ELSE Len(login) + 1
    <2>1. s \in Nat /\ login' = Append(login, s)
      BY <1>4 DEF GenerateTokenPair, TypeOK, Flow, Signing, Token
    <2>2. login' \in Seq(Nat) /\ Len(login') = Len(login) + 1
      BY <2>1 DEF TypeOK
    <2> DEFINE c == [call[k] EXCEPT !.pc = "store", !.new = Len(login) + 1]
    <2>3. c \in CallRecord
      <3>1. call[k] \in CallRecord /\ Len(login) + 1 \in Nat
        BY DEF TypeOK
      <3> QED
        BY <3>1, Zenon DEF CallRecord
    <2>4. call' = [call EXCEPT ![k] = c]
      BY <1>4 DEF GenerateTokenPair, TypeOK
    <2>5. call' \in [Call -> CallRecord]
      BY <2>3, <2>4 DEF TypeOK
    <2> QED
      BY <1>4, <2>2, <2>5 DEF GenerateTokenPair, TypeOK, Token
  <1>5. CASE StoreRefreshToken(k)
    BY <1>5, AnswerTyped DEF StoreRefreshToken, Flow, TypeOK, Token
  <1>6. CASE FindStored(k)
    BY <1>6, AnswerTyped, ProceedTyped DEF FindStored, TypeOK, authRows, Token
  <1>7. CASE DeleteStored(k)
    BY <1>7, AnswerTyped, ProceedTyped DEF DeleteStored, TypeOK, Token
  <1>8. CASE Logout(k)
    BY <1>8, AnswerTyped DEF Logout, TypeOK, Token
  <1> QED
    BY <1>1, <1>2, <1>3, <1>4, <1>5, <1>6, <1>7, <1>8 DEF Serve

(* The rows are left alone by whatever a phone does. *)
LEMMA RowsTyped ==
    ASSUME TypeOK, UNCHANGED authRows, call' \in [Call -> CallRecord],
           phone' \in [Phone -> PhoneRecord]
    PROVE  TypeOK'
  BY DEF TypeOK, authRows, Token

LEMMA TypeForm ==
    ASSUME TypeOK, NEW p \in Phone, NEW k \in Call,
           SubmitForm(p, k) \/ CallLogout(p, k) \/ TakeForm(p, k)
    PROVE  TypeOK'
  <1>1. phone[p] \in PhoneRecord /\ phone[p].refresh \in Nat /\ call[k].new \in Nat
    BY DEF TypeOK, PhoneRecord, CallRecord
  <1>2. CASE SubmitForm(p, k)
    <2>1. call' \in [Call -> CallRecord]
      BY <1>2, AskTyped DEF SubmitForm
    <2>2. [phone[p] EXCEPT !.form = "sent"] \in PhoneRecord
      BY <1>1, ZenonT(30) DEF PhoneRecord
    <2>3. phone' = [phone EXCEPT ![p] = [phone[p] EXCEPT !.form = "sent"]]
      BY <1>2 DEF SubmitForm
    <2> QED
      BY <1>2, <2>1, <2>2, <2>3, PhoneTyped, RowsTyped DEF SubmitForm
  <1>3. CASE CallLogout(p, k)
    BY <1>1, <1>3, AskTyped, RowsTyped DEF CallLogout, TypeOK
  <1>4. CASE TakeForm(p, k)
    <2>1. call' \in [Call -> CallRecord]
      BY <1>4, NoCallTyped DEF TakeForm, TypeOK
    <2>2. [phone[p] EXCEPT !.form = "writeAccess", !.formTok = call[k].new] \in PhoneRecord
      BY <1>1, ZenonT(30) DEF PhoneRecord
    <2>3. [phone[p] EXCEPT !.form = "none"] \in PhoneRecord
      BY <1>1, ZenonT(30) DEF PhoneRecord
    <2>4. \/ phone' = [phone EXCEPT ![p] = [phone[p] EXCEPT !.form = "writeAccess",
                                                          !.formTok = call[k].new]]
          \/ phone' = [phone EXCEPT ![p] = [phone[p] EXCEPT !.form = "none"]]
      BY <1>4 DEF TakeForm
    <2> QED
      BY <1>4, <2>1, <2>2, <2>3, <2>4, PhoneTyped, RowsTyped DEF TakeForm
  <1> QED
    BY <1>2, <1>3, <1>4

LEMMA TypePhone ==
    ASSUME TypeOK, NEW p \in Phone,
           \/ SaveForm(p) \/ LogOut(p) \/ Expire(p) \/ Request(p) \/ Unauthorized(p)
           \/ SaveTokens(p) \/ Retry(p) \/ RetryFails(p)
    PROVE  TypeOK'
  <1> DEFINE ph == phone[p]
  <1>1. /\ ph \in PhoneRecord /\ ph.tok \in Nat /\ ph.formTok \in Nat
        /\ ph.asked - 1 \in Int /\ ph.asked + 1 \in Int /\ ph.waiting + 1 \in Int
    BY DEF TypeOK, PhoneRecord
  <1>2. call' \in [Call -> CallRecord] /\ UNCHANGED authRows
    BY DEF TypeOK, SaveForm, LogOut, Expire, Request, Unauthorized, SaveTokens, Retry,
           RetryFails, authRows
  <1> SUFFICES phone' \in [Phone -> PhoneRecord]
    BY <1>2, RowsTyped
  <1>3. CASE SaveForm(p)
    <2>1. /\ [ph EXCEPT !.access = "good", !.form = "writeRefresh"] \in PhoneRecord
          /\ [ph EXCEPT !.refresh = ph.formTok, !.form = "none", !.formTok = 0] \in PhoneRecord
      BY <1>1, ZenonT(30) DEF PhoneRecord
    <2>2. \/ phone' = [phone EXCEPT ![p] = [ph EXCEPT !.access = "good", !.form = "writeRefresh"]]
          \/ phone' = [phone EXCEPT ![p] = [ph EXCEPT !.refresh = ph.formTok, !.form = "none", !.formTok = 0]]
      BY <1>3 DEF SaveForm
    <2> QED
      BY <2>1, <2>2, PhoneTyped
  <1>4. CASE LogOut(p)
    <2>1. [ph EXCEPT !.access = "none", !.refresh = 0] \in PhoneRecord
      BY <1>1, ZenonT(30) DEF PhoneRecord
    <2>2. phone' = [phone EXCEPT ![p] = [ph EXCEPT !.access = "none", !.refresh = 0]]
      BY <1>4 DEF LogOut
    <2> QED
      BY <2>1, <2>2, PhoneTyped
  <1>5. CASE Expire(p)
    <2>1. [ph EXCEPT !.access = "old"] \in PhoneRecord
      BY <1>1, ZenonT(30) DEF PhoneRecord
    <2> QED
      BY <1>5, <2>1, PhoneTyped DEF Expire
  <1>6. CASE Request(p)
    <2>1. [ph EXCEPT !.asked = ph.asked + 1] \in PhoneRecord
      BY <1>1, ZenonT(30) DEF PhoneRecord
    <2> QED
      BY <1>6, <2>1, PhoneTyped DEF Request
  <1>7. CASE Unauthorized(p)
    <2>1. [ph EXCEPT !.asked = ph.asked - 1, !.waiting = ph.waiting + 1] \in PhoneRecord
      BY <1>1, ZenonT(30) DEF PhoneRecord
    <2>2. phone' = [phone EXCEPT ![p] = [ph EXCEPT !.asked = ph.asked - 1, !.waiting = ph.waiting + 1]]
      BY <1>7 DEF Unauthorized
    <2> QED
      BY <2>1, <2>2, PhoneTyped
  <1>8. CASE SaveTokens(p)
    <2>1. /\ [ph EXCEPT !.access = "good", !.pc = "writeRefresh"] \in PhoneRecord
          /\ [ph EXCEPT !.refresh = ph.tok, !.pc = "retrying"] \in PhoneRecord
      BY <1>1, ZenonT(30) DEF PhoneRecord
    <2>2. \/ phone' = [phone EXCEPT ![p] = [ph EXCEPT !.access = "good", !.pc = "writeRefresh"]]
          \/ phone' = [phone EXCEPT ![p] = [ph EXCEPT !.refresh = ph.tok, !.pc = "retrying"]]
      BY <1>8 DEF SaveTokens
    <2> QED
      BY <2>1, <2>2, PhoneTyped
  <1>9. CASE Retry(p)
    BY <1>1, <1>9, DoneTyped, PhoneTyped DEF Retry
  <1>10. CASE RetryFails(p)
    <2>1. [ph EXCEPT !.pc = "stuck", !.tok = 0] \in PhoneRecord
      BY <1>1, ZenonT(30) DEF PhoneRecord
    <2>2. phone' = [phone EXCEPT ![p] = [ph EXCEPT !.pc = "stuck", !.tok = 0]]
      BY <1>10 DEF RetryFails
    <2> QED
      BY <2>1, <2>2, PhoneTyped
  <1> QED
    BY <1>3, <1>4, <1>5, <1>6, <1>7, <1>8, <1>9, <1>10

LEMMA TypeRefresh ==
    ASSUME TypeOK, NEW p \in Phone, NEW k \in Call,
           RefreshAccessToken(p, k) \/ TakeRefresh(p, k) \/ AnswerLost(p, k)
    PROVE  TypeOK'
  <1> DEFINE ph == phone[p]
  <1>1. ph \in PhoneRecord /\ ph.refresh \in Nat /\ call[k] \in CallRecord /\ call[k].new \in Nat
    BY DEF TypeOK, PhoneRecord, CallRecord
  <1>2. Cleared(Done(ph)) \in PhoneRecord
    BY <1>1, DoneTyped, ClearedTyped
  <1>3. CASE RefreshAccessToken(p, k)
    <2>1. [ph EXCEPT !.pc = "refreshing"] \in PhoneRecord
      BY <1>1, ZenonT(30) DEF PhoneRecord
    <2>2. phone' \in [Phone -> PhoneRecord]
      <3>1. \/ phone' = [phone EXCEPT ![p] = Cleared(Done(ph))]
            \/ phone' = [phone EXCEPT ![p] = [ph EXCEPT !.pc = "refreshing"]]
        BY <1>3 DEF RefreshAccessToken
      <3> QED
        BY <1>2, <2>1, <3>1, PhoneTyped
    <2>3. call' \in [Call -> CallRecord]
      BY <1>1, <1>3, AskTyped DEF RefreshAccessToken, TypeOK
    <2> QED
      BY <1>3, <2>2, <2>3, RowsTyped DEF RefreshAccessToken
  <1>4. CASE TakeRefresh(p, k)
    <2>1. [ph EXCEPT !.pc = "writeAccess", !.tok = call[k].new] \in PhoneRecord
      BY <1>1, ZenonT(30) DEF PhoneRecord
    <2>2. phone' \in [Phone -> PhoneRecord]
      <3>1. \/ phone' = [phone EXCEPT ![p] = [ph EXCEPT !.pc = "writeAccess", !.tok = call[k].new]]
            \/ phone' = [phone EXCEPT ![p] = Cleared(Done(ph))]
        BY <1>4 DEF TakeRefresh
      <3> QED
        BY <1>2, <2>1, <3>1, PhoneTyped
    <2>3. call' \in [Call -> CallRecord]
      BY <1>4, NoCallTyped DEF TakeRefresh, TypeOK
    <2> QED
      BY <1>4, <2>2, <2>3, RowsTyped DEF TakeRefresh
  <1>5. CASE AnswerLost(p, k)
    <2>1. [ph EXCEPT !.form = "none"] \in PhoneRecord
      BY <1>1, ZenonT(30) DEF PhoneRecord
    <2>2. phone' \in [Phone -> PhoneRecord]
      <3>1. \/ phone' = [phone EXCEPT ![p] = Cleared(Done(ph))]
            \/ phone' = [phone EXCEPT ![p] = [ph EXCEPT !.form = "none"]]
        BY <1>5 DEF AnswerLost
      <3> QED
        BY <1>2, <2>1, <3>1, PhoneTyped
    <2>3. call' \in [Call -> CallRecord]
      BY <1>1, <1>5, CutOffTyped DEF AnswerLost, TypeOK
    <2> QED
      BY <1>5, <2>2, <2>3, RowsTyped DEF AnswerLost
  <1> QED
    BY <1>3, <1>4, <1>5

LEMMA TypeMishap ==
    ASSUME TypeOK,
           \/ \E k \in Call : QueryFails(k)
           \/ \E p \in Phone : PhoneKilled(p)
           \/ ServerCrash \/ MonthPasses
    PROVE  TypeOK'
  <1>1. ASSUME NEW k \in Call, QueryFails(k) PROVE TypeOK'
    <2>1. call' \in [Call -> CallRecord]
      BY <1>1, AnswerTyped DEF QueryFails
    <2> QED
      BY <1>1, <2>1, RowsTyped DEF QueryFails, TypeOK
  <1>2. ASSUME NEW p \in Phone, PhoneKilled(p) PROVE TypeOK'
    <2> DEFINE kept == [NewPhone EXCEPT !.access = phone[p].access, !.refresh = phone[p].refresh]
    <2>1. kept \in PhoneRecord
      <3>1. phone[p].access \in {"none", "good", "old"} /\ phone[p].refresh \in Nat
        BY DEF TypeOK, PhoneRecord
      <3> QED
        BY <3>1, NewPhoneTyped, ZenonT(30) DEF PhoneRecord
    <2>2. phone' = [phone EXCEPT ![p] = kept]
      BY <1>2 DEF PhoneKilled
    <2>3. call' \in [Call -> CallRecord]
      BY <1>2, CutOffTyped DEF PhoneKilled, TypeOK
    <2> QED
      BY <1>2, <2>1, <2>2, <2>3, PhoneTyped, RowsTyped DEF PhoneKilled
  <1>3. CASE ServerCrash
    <2>1. ASSUME NEW p \in Phone PROVE phone'[p] \in PhoneRecord
      <3>1. phone[p] \in PhoneRecord
        BY DEF TypeOK
      <3>2. [phone[p] EXCEPT !.form = "none"] \in PhoneRecord
        BY <3>1, ZenonT(30) DEF PhoneRecord
      <3>3. Cleared(Done(phone[p])) \in PhoneRecord
        BY <3>1, DoneTyped, ClearedTyped
      <3> QED
        BY <1>3, <3>1, <3>2, <3>3 DEF ServerCrash
    <2>2. phone' \in [Phone -> PhoneRecord]
      BY <1>3, <2>1 DEF ServerCrash
    <2>3. call' \in [Call -> CallRecord]
      BY <1>3, NoCallTyped DEF ServerCrash
    <2> QED
      BY <1>3, <2>2, <2>3, RowsTyped DEF ServerCrash
  <1>4. CASE MonthPasses
    BY <1>4 DEF MonthPasses, TypeOK, Token
  <1> QED
    BY <1>1, <1>2, <1>3, <1>4

LEMMA TypeNext ==
    ASSUME TypeOK, Flow, [AuthNext]_authVars
    PROVE  TypeOK'
  <1>1. CASE UNCHANGED authVars
    BY <1>1 DEF authVars, authRows, TypeOK, Token
  <1>2. CASE AuthNext
    BY <1>2, TypeServe, TypeForm, TypePhone, TypeRefresh, TypeMishap DEF AuthNext
  <1> QED
    BY <1>1, <1>2

-----------------------------------------------------------------------------
(* Sessions.  A calm step takes nothing away from the invariant. *)
LEMMA CalmSessions ==
    ASSUME SessionInv, Calm
    PROVE  SessionInv' /\ NoneReturns
  <1>1. \A t \in Token : Held(t)' => Held(t)
    BY DEF Calm, Held
  <1>2. \A k \in Call : Signing(k)' => Signing(k) /\ call'[k].tok = call[k].tok
    BY DEF Calm, Signing
  <1>3. \A k \in Call : call'[k].pc = "store" => call[k].pc = "store" /\ call'[k].new = call[k].new
    BY DEF Calm
  <1>4. Token' = Token
    BY DEF Calm, Token
  <1>5. Numbered' /\ StoredApart'
    BY <1>3, <1>4 DEF SessionInv, Numbered, StoredApart, Calm
  <1>6. Flow'
    BY <1>2, <1>3, <1>4 DEF SessionInv, Flow, Calm
  <1>7. OneTokenPerSession'
    BY <1>1, <1>4 DEF SessionInv, OneTokenPerSession, Calm
  <1>8. SignsAlone'
    BY <1>1, <1>2, <1>4 DEF SessionInv, SignsAlone, Calm
  <1>9. NoneReturns
    BY <1>1, <1>2, <1>4 DEF NoneReturns, Alive, Calm
  <1> QED
    BY <1>5, <1>6, <1>7, <1>8, <1>9 DEF SessionInv

(* The row is deleted, and its session has nothing left until the refresh     *)
(* has signed: no other token was held for it.                                *)
LEMMA DeleteSessions ==
    ASSUME TypeOK, SessionInv, NEW k \in Call, DeleteStored(k), call[k].tok \in stored
    PROVE  SessionInv' /\ NoneReturns
  <1> DEFINE t0 == call[k].tok
  <1>1. /\ login' = login /\ stored' = stored \ {t0}
        /\ call' = [call EXCEPT ![k].pc = "sign"] /\ call[k].op = "refresh" /\ call[k].pc = "delete"
    BY DEF DeleteStored, Proceed, InCall
  <1>2. \A j \in Call : /\ call'[j].op = call[j].op /\ call'[j].tok = call[j].tok
                        /\ call'[j].new = call[j].new
                        /\ call'[j].pc = IF j = k THEN "sign" ELSE call[j].pc
    BY <1>1 DEF TypeOK, CallRecord
  <1>3. Token' = Token /\ t0 \in Token /\ Held(t0)
    BY <1>1 DEF Token, TypeOK, Held
  <1>4. ASSUME NEW t \in Token, Held(t)' PROVE Held(t) /\ t # t0
    BY <1>1, <1>2, <1>4 DEF Held, SessionInv, Flow
  <1>5. ASSUME NEW j \in Call, Signing(j)', j # k
        PROVE  Signing(j) /\ login[call[j].tok] # login[t0]
    <2>1. Signing(j)
      BY <1>2, <1>5 DEF Signing
    <2> QED
      BY <1>3, <2>1 DEF SessionInv, SignsAlone
  <1>6. Numbered' /\ StoredApart'
    BY <1>1, <1>2, <1>3 DEF SessionInv, Numbered, StoredApart
  <1>7. Flow'
    BY <1>1, <1>2, <1>3, <1>5 DEF SessionInv, Flow
  <1>8. OneTokenPerSession'
    BY <1>1, <1>3, <1>4 DEF SessionInv, OneTokenPerSession
  <1>9. SignsAlone'
    <2> SUFFICES ASSUME NEW j \in Call, Signing(j)'
                 PROVE  /\ \A t \in Token : Held(t)' => login[t] # login[call[j].tok]
                        /\ \A i \in Call : Signing(i)' /\ login[call[i].tok] = login[call[j].tok]
                                           => i = j
      BY <1>1, <1>2, <1>3 DEF SignsAlone
    <2>1. CASE j = k
      <3>1. \A t \in Token : Held(t)' => login[t] # login[t0]
        BY <1>3, <1>4 DEF SessionInv, OneTokenPerSession
      <3> QED
        BY <1>5, <2>1, <3>1
    <2>2. CASE j # k
      <3>1. Signing(j) /\ login[call[j].tok] # login[t0]
        BY <1>5, <2>2
      <3>2. \A i \in Call : Signing(i)' /\ i # k => Signing(i)
        BY <1>5
      <3> QED
        BY <1>4, <3>1, <3>2 DEF SessionInv, SignsAlone
    <2> QED
      BY <2>1, <2>2
  <1>10. NoneReturns
    <2> SUFFICES ASSUME NEW t \in Token, Alive(login[t])' PROVE Alive(login[t])
      BY DEF NoneReturns
    <2>1. ASSUME NEW u \in Token, Held(u)', login[u] = login[t] PROVE Alive(login[t])
      BY <1>4, <2>1 DEF Alive
    <2>2. ASSUME NEW j \in Call, Signing(j)', login[call[j].tok] = login[t] PROVE Alive(login[t])
      BY <1>3, <1>5, <2>2 DEF Alive
    <2> QED
      BY <1>1, <1>2, <1>3, <2>1, <2>2 DEF Alive
  <1> QED
    BY <1>6, <1>7, <1>8, <1>9, <1>10 DEF SessionInv

(* What GenerateTokenPair appends: the next token of its session, or the first *)
(* of a new one; no token was held for either.                                 *)
LEMMA SignSessions ==
    ASSUME TypeOK, SessionInv, NEW k \in Call, GenerateTokenPair(k)
    PROVE  SessionInv' /\ NoneReturns
  <1> DEFINE n == Len(login) + 1
  <1> DEFINE s == IF call[k].op = "refresh" THEN login[call[k].tok] ELSE n
  <1>1. /\ login' = Append(login, s) /\ stored' = stored
        /\ call' = [call EXCEPT ![k].pc = "store", ![k].new = n] /\ call[k].pc = "sign"
    BY DEF GenerateTokenPair
  <1>2. \A j \in Call : /\ call'[j].op = call[j].op /\ call'[j].tok = call[j].tok
                        /\ call'[j].new = IF j = k THEN n ELSE call[j].new
                        /\ call'[j].pc = IF j = k THEN "store" ELSE call[j].pc
    BY <1>1 DEF TypeOK, CallRecord
  <1>3. /\ call[k].op = "refresh" => Signing(k) /\ call[k].tok \in Token
        /\ s \in Nat /\ s <= n
    <2>1. call[k].op = "refresh" => Signing(k) /\ call[k].tok \in Token
      BY <1>1 DEF SessionInv, Flow, Signing
    <2>2. \A t \in Token : login[t] \in Nat /\ login[t] <= t /\ t <= Len(login)
      BY DEF TypeOK, Token, SessionInv, Numbered
    <2> QED
      BY <2>1, <2>2 DEF TypeOK, Token
  <1>4. /\ Token' = Token \cup {n} /\ n \notin Token /\ n \in Nat
        /\ login'[n] = s /\ \A t \in Token : login'[t] = login[t]
    <2>1. Len(login') = n /\ login'[n] = s /\ \A t \in 1..Len(login) : login'[t] = login[t]
      BY <1>1, <1>3 DEF TypeOK
    <2> QED
      BY <2>1 DEF Token, TypeOK
  <1>5. ASSUME NEW t \in Token, Held(t)' PROVE Held(t)
    <2>1. CASE t \in stored
      BY <2>1 DEF Held
    <2>2. CASE t \notin stored
      <3>1. PICK j \in Call : call'[j].pc = "store" /\ call'[j].new = t
        BY <1>1, <1>5, <2>2 DEF Held
      <3>2. j # k
        BY <1>2, <1>4, <3>1
      <3> QED
        BY <1>2, <3>1, <3>2 DEF Held
    <2> QED
      BY <2>1, <2>2
  <1>6. ASSUME NEW t \in Token, Held(t) PROVE login[t] # s
    <2>1. CASE call[k].op = "refresh"
      BY <1>3, <1>6, <2>1 DEF SessionInv, SignsAlone
    <2>2. CASE call[k].op # "refresh"
      BY <2>2 DEF SessionInv, Numbered, Token, TypeOK
    <2> QED
      BY <2>1, <2>2
  <1>7. ASSUME NEW j \in Call, Signing(j)'
        PROVE  /\ j # k /\ Signing(j) /\ call[j].tok \in Token
               /\ login[call[j].tok] # s
    <2>1. j # k /\ Signing(j) /\ call[j].tok \in Token
      BY <1>2, <1>7 DEF Signing, SessionInv, Flow
    <2>2. CASE call[k].op = "refresh"
      BY <1>3, <2>1, <2>2 DEF SessionInv, SignsAlone
    <2>3. CASE call[k].op # "refresh"
      BY <2>1, <2>3 DEF SessionInv, Numbered, Token, TypeOK
    <2> QED
      BY <2>1, <2>2, <2>3
  <1>8. Numbered'
    BY <1>3, <1>4 DEF SessionInv, Numbered
  <1>9. Flow'
    <2>1. n \notin stored
      BY <1>4 DEF TypeOK
    <2>2. ASSUME NEW j \in Call, call'[j].pc = "store"
          PROVE  call'[j].new \in Token' \ stored'
      <3>1. stored' = stored /\ Token' = Token \cup {n}
        BY <1>1, <1>4
      <3>2. CASE j = k
        <4>1. call'[j].new = n
          BY <1>2, <3>2
        <4> QED
          BY <2>1, <3>1, <4>1
      <3>3. CASE j # k
        <4>1. call'[j].new = call[j].new /\ call[j].pc = "store"
          BY <1>2, <2>2, <3>3
        <4>2. call[j].new \in Token \ stored
          BY <4>1 DEF SessionInv, Flow
        <4> QED
          BY <3>1, <4>1, <4>2
      <3> QED
        BY <3>2, <3>3
    <2>3. ASSUME NEW j \in Call, Signing(j)' PROVE call'[j].tok \in Token'
      BY <1>2, <1>4, <1>7, <2>3
    <2> QED
      BY <2>2, <2>3 DEF Flow
  <1>10. StoredApart'
    BY <1>2, <1>4 DEF SessionInv, StoredApart, Flow
  <1>11. OneTokenPerSession'
    BY <1>4, <1>5, <1>6 DEF SessionInv, OneTokenPerSession
  <1>12. SignsAlone'
    <2> SUFFICES ASSUME NEW j \in Call, Signing(j)'
                 PROVE  /\ \A t \in Token' : Held(t)' => login'[t] # login'[call[j].tok]
                        /\ \A i \in Call : Signing(i)' /\ login'[call[i].tok] = login'[call[j].tok]
                                           => i = j
      BY <1>2 DEF SignsAlone
    <2>1. Signing(j) /\ login'[call[j].tok] = login[call[j].tok] /\ login[call[j].tok] # s
      BY <1>4, <1>7
    <2>2. \A t \in Token' : Held(t)' => login'[t] # login'[call[j].tok]
      BY <1>4, <1>5, <2>1 DEF SessionInv, SignsAlone
    <2>3. \A i \in Call : Signing(i)' => Signing(i) /\ login'[call[i].tok] = login[call[i].tok]
      BY <1>4, <1>7
    <2> QED
      BY <2>1, <2>2, <2>3 DEF SessionInv, SignsAlone
  <1>13. NoneReturns
    <2> SUFFICES ASSUME NEW t \in Token, Alive(login[t])' PROVE Alive(login[t])
      BY DEF NoneReturns
    <2>1. ASSUME NEW u \in Token', Held(u)', login'[u] = login[t] PROVE Alive(login[t])
      <3>1. CASE u \in Token
        BY <1>4, <1>5, <2>1, <3>1 DEF Alive
      <3>2. CASE u = n
        <4>1. call[k].op = "refresh"
          BY <1>3, <1>4, <2>1, <3>2 DEF SessionInv, Numbered, Token, TypeOK
        <4> QED
          BY <1>3, <1>4, <2>1, <3>2, <4>1 DEF Alive
      <3> QED
        BY <1>4, <3>1, <3>2
    <2>2. ASSUME NEW j \in Call, Signing(j)', login'[call[j].tok] = login[t] PROVE Alive(login[t])
      BY <1>4, <1>7, <2>2 DEF Alive
    <2> QED
      BY <1>2, <1>4, <2>1, <2>2 DEF Alive
  <1> QED
    BY <1>8, <1>9, <1>10, <1>11, <1>12, <1>13 DEF SessionInv

(* A token that is stored was on its way, so it is held as before. *)
LEMMA StoreSessions ==
    ASSUME TypeOK, SessionInv, NEW k \in Call, StoreRefreshToken(k)
    PROVE  SessionInv' /\ NoneReturns
  <1>1. /\ login' = login /\ stored' = stored \cup {call[k].new} /\ call[k].pc = "store"
        /\ Answer(k, "answered")
    BY DEF StoreRefreshToken
  <1>2. \A j \in Call : \/ j = k /\ call'[j].pc \in {"answered", "idle"}
                        \/ j # k /\ call'[j] = call[j]
    BY <1>1 DEF Answer, NoCall, TypeOK, CallRecord
  <1>3. Token' = Token /\ Held(call[k].new)
    BY <1>1 DEF Token, Held
  <1>4. \A t \in Token : Held(t)' => Held(t)
    BY <1>1, <1>2, <1>3 DEF Held
  <1>5. \A j \in Call : Signing(j)' => Signing(j) /\ call'[j].tok = call[j].tok
    BY <1>2 DEF Signing
  <1>6. Numbered' /\ StoredApart'
    BY <1>1, <1>2, <1>3 DEF SessionInv, Numbered, StoredApart
  <1>7. Flow'
    BY <1>1, <1>2, <1>3, <1>5 DEF SessionInv, Flow, StoredApart
  <1>8. OneTokenPerSession'
    BY <1>1, <1>3, <1>4 DEF SessionInv, OneTokenPerSession
  <1>9. SignsAlone'
    BY <1>1, <1>3, <1>4, <1>5 DEF SessionInv, SignsAlone
  <1>10. NoneReturns
    BY <1>1, <1>3, <1>4, <1>5 DEF NoneReturns, Alive
  <1> QED
    BY <1>6, <1>7, <1>8, <1>9, <1>10 DEF SessionInv

-----------------------------------------------------------------------------
(* What the calls and the phones do is calm. *)
LEMMA CalmCall ==
    ASSUME TypeOK, NEW k \in Call, login' = login, stored' \subseteq stored,
           \/ \E pc \in {"answered", "failed"} : Answer(k, pc)
           \/ \E pc \in {"create", "delete"} : Proceed(k, pc)
           \/ Proceed(k, "sign") /\ call[k].op # "refresh"
           \/ call' = [call EXCEPT ![k] = NoCall]
           \/ call' = call
    PROVE  Calm
  <1>1. call[k] \in CallRecord /\ \A j \in Call : call'[j] = call[j] \/ j = k
    BY DEF TypeOK, Answer, Proceed
  <1>2. CASE \E pc \in {"answered", "failed"} : Answer(k, pc)
    <2>1. call'[k].pc \in {"answered", "failed", "idle"}
      BY <1>1, <1>2 DEF TypeOK, Answer, NoCall, CallRecord
    <2> QED
      BY <1>1, <2>1 DEF Calm, Signing
  <1>3. CASE \E pc \in {"create", "delete"} : Proceed(k, pc)
    <2>1. call'[k].pc \in {"create", "delete"}
      BY <1>1, <1>3 DEF TypeOK, Proceed, CallRecord
    <2> QED
      BY <1>1, <2>1 DEF Calm, Signing
  <1>4. CASE Proceed(k, "sign") /\ call[k].op # "refresh"
    <2>1. call'[k].pc = "sign" /\ call'[k].op # "refresh"
      BY <1>1, <1>4 DEF TypeOK, Proceed, CallRecord
    <2> QED
      BY <1>1, <2>1 DEF Calm, Signing
  <1>5. CASE call' = [call EXCEPT ![k] = NoCall]
    <2>1. call'[k].pc = "idle"
      BY <1>5 DEF TypeOK, NoCall
    <2> QED
      BY <1>1, <2>1 DEF Calm, Signing
  <1>6. CASE call' = call
    BY <1>6 DEF Calm
  <1> QED
    BY <1>2, <1>3, <1>4, <1>5, <1>6

LEMMA CalmAsk ==
    ASSUME TypeOK, NEW k \in Call, NEW op, NEW pc \in {"find", "delete"}, NEW p, NEW t,
           Ask(k, op, pc, p, t), UNCHANGED authRows
    PROVE  Calm
  <1>1. call'[k].pc = pc /\ \A j \in Call : call'[j] = call[j] \/ j = k
    BY DEF TypeOK, Ask
  <1> QED
    BY <1>1 DEF Calm, Signing, authRows

(* An ended connection ends no call but those that have answered. *)
LEMMA CutOffCalm ==
    ASSUME NEW c \in CallRecord
    PROVE  \/ CutOff(c).pc = "idle"
           \/ /\ CutOff(c).op = c.op /\ CutOff(c).pc = c.pc
              /\ CutOff(c).tok = c.tok /\ CutOff(c).new = c.new
  BY DEF CutOff, NoCall, CallRecord

LEMMA CalmCut ==
    ASSUME TypeOK, UNCHANGED authRows,
           \A j \in Call : call'[j] \in {call[j], CutOff(call[j]), NoCall}
    PROVE  Calm
  <1>1. ASSUME NEW j \in Call
        PROVE  \/ call'[j].pc = "idle"
               \/ /\ call'[j].op = call[j].op /\ call'[j].pc = call[j].pc
                  /\ call'[j].tok = call[j].tok /\ call'[j].new = call[j].new
    <2>1. call[j] \in CallRecord
      BY DEF TypeOK
    <2>2. NoCall.pc = "idle"
      BY DEF NoCall
    <2> QED
      BY <2>1, <2>2, CutOffCalm
  <1> QED
    BY <1>1 DEF Calm, Signing, authRows

LEMMA CalmServe ==
    ASSUME TypeOK, NEW k \in Call, Serve(k),
           ~GenerateTokenPair(k), ~StoreRefreshToken(k),
           ~(DeleteStored(k) /\ call[k].tok \in stored)
    PROVE  Calm
  <1>1. CASE FindNobody(k)
    BY <1>1, CalmCall DEF FindNobody, authRows
  <1>2. CASE CreateUser(k)
    BY <1>2, CalmCall DEF CreateUser, InCall
  <1>3. CASE FindUser(k)
    BY <1>3, CalmCall DEF FindUser, InCall, authRows
  <1>4. CASE FindStored(k)
    BY <1>4, CalmCall DEF FindStored, authRows
  <1>5. CASE DeleteStored(k)
    BY <1>5, CalmCall DEF DeleteStored
  <1>6. CASE Logout(k)
    BY <1>6, CalmCall DEF Logout
  <1> QED
    BY <1>1, <1>2, <1>3, <1>4, <1>5, <1>6 DEF Serve

LEMMA CalmRest ==
    ASSUME TypeOK, AuthNext, \A k \in Call : ~Serve(k)
    PROVE  Calm
  <1>1. ASSUME NEW k \in Call, QueryFails(k) PROVE Calm
    BY <1>1, CalmCall DEF QueryFails, authRows
  <1>2. ASSUME NEW p \in Phone, NEW k \in Call,
               SubmitForm(p, k) \/ CallLogout(p, k) \/ RefreshAccessToken(p, k)
        PROVE  Calm
    BY <1>2, CalmAsk, CalmCall DEF SubmitForm, CallLogout, RefreshAccessToken, authRows
  <1>3. ASSUME NEW p \in Phone, NEW k \in Call, TakeForm(p, k) \/ TakeRefresh(p, k) PROVE Calm
    BY <1>3, CalmCall DEF TakeForm, TakeRefresh, authRows
  <1>4. ASSUME NEW p \in Phone, NEW k \in Call, AnswerLost(p, k) PROVE Calm
    <2>1. \A j \in Call : call'[j] \in {call[j], CutOff(call[j]), NoCall}
      BY <1>4 DEF AnswerLost, TypeOK
    <2> QED
      BY <1>4, <2>1, CalmCut DEF AnswerLost
  <1>5. ASSUME NEW p \in Phone,
               \/ SaveForm(p) \/ LogOut(p) \/ Expire(p) \/ Request(p) \/ Unauthorized(p)
               \/ SaveTokens(p) \/ Retry(p) \/ RetryFails(p)
        PROVE  Calm
    BY <1>5 DEF SaveForm, LogOut, Expire, Request, Unauthorized, SaveTokens, Retry, RetryFails,
                authRows, Calm
  <1>6. ASSUME NEW p \in Phone, PhoneKilled(p) PROVE Calm
    <2>1. \A j \in Call : call'[j] \in {call[j], CutOff(call[j]), NoCall}
      BY <1>6 DEF PhoneKilled
    <2> QED
      BY <1>6, <2>1, CalmCut DEF PhoneKilled
  <1>7. CASE ServerCrash
    BY <1>7, CalmCut DEF ServerCrash
  <1>8. CASE MonthPasses
    BY <1>8 DEF MonthPasses, Calm
  <1> QED
    BY <1>1, <1>2, <1>3, <1>4, <1>5, <1>6, <1>7, <1>8 DEF AuthNext

LEMMA SessionsStep ==
    ASSUME IInv, [AuthNext]_authVars
    PROVE  SessionInv' /\ NoneReturns
  <1>1. CASE UNCHANGED authVars
    <2>1. Calm
      BY <1>1 DEF authVars, authRows, Calm
    <2> QED
      BY <2>1, CalmSessions DEF IInv
  <1>2. ASSUME NEW k \in Call, Serve(k) PROVE SessionInv' /\ NoneReturns
    BY <1>2, CalmServe, CalmSessions, DeleteSessions, SignSessions, StoreSessions DEF IInv
  <1>3. CASE AuthNext /\ \A k \in Call : ~Serve(k)
    BY <1>3, CalmRest, CalmSessions DEF IInv
  <1> QED
    BY <1>1, <1>2, <1>3

-----------------------------------------------------------------------------
LEMMA SessionsInvariant == AuthSpec => []IInv
  <1>1. AuthInit => IInv
    <2>1. AuthInit => SessionInv
      BY DEF AuthInit, SessionInv, Numbered, Flow, StoredApart, OneTokenPerSession, SignsAlone,
             Held, Signing, Token, NoCall
    <2> QED
      BY <2>1, TypeInit DEF IInv
  <1>2. IInv /\ [AuthNext]_authVars => IInv'
    BY SessionsStep, TypeNext DEF IInv, SessionInv
  <1> QED
    BY <1>1, <1>2, PTL DEF AuthSpec

(* Token rotation (refresh): however phones present a token at once, retry,     *)
(* crash or lose the answer, a session has at most one token that works or is   *)
(* about to.                                                                    *)
THEOREM RotationKeepsOne == AuthSpec => []OneTokenPerSession
  <1>1. IInv => OneTokenPerSession
    BY DEF IInv, SessionInv
  <1> QED
    BY <1>1, SessionsInvariant, PTL

(* A session without a token, after a logout or a refresh cut off between its   *)
(* delete and its store, is never brought back by a call under way.             *)
THEOREM OverIsOver == AuthSpec => EndedStaysEnded
  <1>1. IInv /\ [AuthNext]_authVars
        => [\A t \in Token : ~Alive(login[t]) => ~Alive(login[t])']_authVars
    BY SessionsStep DEF NoneReturns
  <1> QED
    BY <1>1, SessionsInvariant, PTL DEF AuthSpec, EndedStaysEnded

-----------------------------------------------------------------------------
(* Presence, until a fault or a disconnect that a connect or an update        *)
(* overtakes.  Whatever the handlers have not done yet is the work of one     *)
(* that is still under way; connects and updates are never under way while    *)
(* the last connection is being taken off.                                    *)
ConnRecord ==
    [open : BOOLEAN, enter : {"none", "was", "redis", "row", "friends"}, was : BOOLEAN,
     leave : {"none", "srem", "scard", "redis", "row", "still", "friends"},
     update : {"none", "redis", "row", "friends"}, want : {"ONLINE", "IDLE", "DND"}]

PresenceTypeOK ==
    /\ online \in BOOLEAN /\ socketIds \subseteq Conn /\ ghosts \in Nat
    /\ key \in {"none", "ONLINE", "IDLE", "DND"}
    /\ saved \in {"OFFLINE", "ONLINE", "IDLE", "DND"}
    /\ friendsTold \in {"OFFLINE", "ONLINE", "IDLE", "DND"}
    /\ conn \in [Conn -> ConnRecord]
    /\ faults \in Nat

Leaving == {"redis", "row", "still", "friends"}
Arriving(c) == conn[c].enter \in {"was", "redis"}

(* A connection that is being set up or updates is open, one that ends is not; *)
(* the set holds the open ones that are set up and those not taken off yet.    *)
SocketsRight ==
    \A c \in Conn :
        /\ conn[c].open => conn[c].leave = "none"
        /\ Busy(c) => conn[c].open
        /\ c \in socketIds <=> (conn[c].open /\ ~Arriving(c)) \/ conn[c].leave = "srem"

(* The pipeline of setOffline finds nobody; until the friends are told, nobody. *)
OnlineRight ==
    /\ ghosts = 0
    /\ socketIds # {} => online
    /\ online => socketIds # {} \/ \E c \in Conn : conn[c].leave \in {"scard", "redis"}
    /\ \A c \in Conn : /\ conn[c].leave = "redis" => socketIds = {} /\ \A d \in Conn : ~conn[d].open
                       /\ conn[c].leave \in {"row", "friends"} => ~online
                       /\ conn[c].was /\ conn[c].enter # "none" => online

SavedRight ==
    /\ online /\ saved = "OFFLINE" => \E c \in Conn : conn[c].enter = "row"
    /\ ~online /\ saved # "OFFLINE" => \E c \in Conn : conn[c].leave = "row" \/ Arriving(c)

ToldRight ==
    /\ online /\ friendsTold = "OFFLINE" =>
          \E c \in Conn : conn[c].enter \in {"row", "friends"} /\ ~conn[c].was
    /\ ~online /\ friendsTold # "OFFLINE" =>
          \E c \in Conn : conn[c].leave \in {"row", "still", "friends"} \/ Arriving(c)

Apart ==
    /\ \A c, d \in Conn : conn[c].leave \in Leaving => ~Busy(d)
    /\ \A c \in Conn : conn[c].leave # "none" => ~Busy(c)

PresenceInv == PresenceTypeOK /\ Apart /\ SocketsRight /\ OnlineRight /\ SavedRight /\ ToldRight

(* As long as updates do not cross connects or other updates and nothing sets *)
(* a chosen status back, what is written next is what the key says.           *)
Single == ~Rivals
StatusRight ==
    /\ key = "none" <=> ~online
    /\ \A c \in Conn : /\ conn[c].enter \in {"row", "friends"} => key = "ONLINE"
                       /\ conn[c].update \in {"row", "friends"} => key = conn[c].want
    /\ saved = GetStatus \/ \E c \in Conn : "row" \in {conn[c].enter, conn[c].update, conn[c].leave}
    /\ friendsTold = GetStatus \/ \E c \in Conn :
          \/ conn[c].enter \in {"row", "friends"} /\ ~conn[c].was
          \/ conn[c].update \in {"row", "friends"}
          \/ conn[c].leave \in {"row", "still", "friends"} /\ ~online
StatusInv == PresenceInv /\ Single /\ StatusRight

LEMMA PresenceInitRight == PresenceInit => StatusInv
  <1> SUFFICES ASSUME PresenceInit PROVE StatusInv
    OBVIOUS
  <1>1. \A c \in Conn : conn[c] = NoConnection
    BY DEF PresenceInit
  <1>2. /\ \A c \in Conn : conn[c].enter = "none" /\ conn[c].leave = "none" /\ conn[c].update = "none"
        /\ \A c \in Conn : ~conn[c].open /\ ~conn[c].was
    BY <1>1 DEF NoConnection
  <1>3. PresenceTypeOK
    BY DEF PresenceInit, PresenceTypeOK, ConnRecord, NoConnection
  <1>4. Apart /\ Single
    BY <1>2 DEF Apart, Leaving, Single, Rivals
  <1>5. SocketsRight /\ OnlineRight /\ SavedRight /\ ToldRight /\ StatusRight
    BY <1>2 DEF PresenceInit, SocketsRight, OnlineRight, SavedRight, ToldRight, StatusRight,
       GetStatus, Busy, Arriving
  <1> QED
    BY <1>3, <1>4, <1>5 DEF StatusInv, PresenceInv

(* What a handler that moves on does to the records. *)
Moves(c) == conn' \in [Conn -> ConnRecord] /\ \A d \in Conn \ {c} : conn'[d] = conn[d]

EnterMoves(c, pc) ==
    /\ Moves(c)
    /\ conn'[c].open = conn[c].open /\ conn'[c].leave = conn[c].leave
    /\ conn'[c].update = conn[c].update /\ conn'[c].want = conn[c].want
    /\ conn'[c].enter = pc
    /\ pc # "none" => conn'[c].was = conn[c].was

LeaveMoves(c, pc) ==
    /\ Moves(c)
    /\ conn'[c].open = conn[c].open /\ conn'[c].enter = conn[c].enter
    /\ conn'[c].update = conn[c].update /\ conn'[c].want = conn[c].want
    /\ conn'[c].was = conn[c].was
    /\ conn'[c].leave = pc

UpdateMoves(c, pc) ==
    /\ Moves(c)
    /\ conn'[c].open = conn[c].open /\ conn'[c].enter = conn[c].enter
    /\ conn'[c].leave = conn[c].leave /\ conn'[c].was = conn[c].was
    /\ conn'[c].update = pc
    /\ pc # "none" => conn'[c].want = conn[c].want

LEMMA RecordPut ==
    ASSUME PresenceTypeOK, NEW c \in Conn, NEW r \in ConnRecord, conn' = [conn EXCEPT ![c] = r]
    PROVE  Moves(c) /\ conn'[c] = r
  BY DEF PresenceTypeOK, Moves

LEMMA EnterMoved ==
    ASSUME PresenceTypeOK, NEW c \in Conn, NEW pc \in {"none", "was", "redis", "row", "friends"},
           GoEnter(c, pc)
    PROVE  EnterMoves(c, pc)
  <1>1. conn[c] \in ConnRecord
    BY DEF PresenceTypeOK
  <1> DEFINE was == IF pc = "none" THEN FALSE ELSE conn[c].was
  <1> DEFINE r == [conn[c] EXCEPT !.enter = pc, !.was = was]
  <1>2. conn' = [conn EXCEPT ![c] = r]
    BY <1>1, ZenonT(30) DEF GoEnter, ConnRecord, PresenceTypeOK
  <1>3. was \in BOOLEAN /\ (pc # "none" => was = conn[c].was)
    BY <1>1 DEF ConnRecord
  <1> HIDE DEF was
  <1>4. /\ r \in ConnRecord /\ r.open = conn[c].open /\ r.leave = conn[c].leave
        /\ r.update = conn[c].update /\ r.want = conn[c].want /\ r.enter = pc /\ r.was = was
    BY <1>1, <1>3 DEF ConnRecord
  <1> HIDE DEF r
  <1>5. Moves(c) /\ conn'[c] = r
    BY <1>2, <1>4, RecordPut
  <1> QED
    BY <1>3, <1>4, <1>5 DEF EnterMoves

LEMMA LeaveMoved ==
    ASSUME PresenceTypeOK, NEW c \in Conn,
           NEW pc \in {"none", "srem", "scard", "redis", "row", "still", "friends"}, GoLeave(c, pc)
    PROVE  LeaveMoves(c, pc)
  BY DEF PresenceTypeOK, ConnRecord, GoLeave, LeaveMoves, Moves

LEMMA UpdateMoved ==
    ASSUME PresenceTypeOK, NEW c \in Conn, NEW pc \in {"none", "redis", "row", "friends"},
           GoUpdate(c, pc)
    PROVE  UpdateMoves(c, pc)
  <1>1. conn[c] \in ConnRecord
    BY DEF PresenceTypeOK
  <1> DEFINE want == IF pc = "none" THEN "ONLINE" ELSE conn[c].want
  <1> DEFINE r == [conn[c] EXCEPT !.update = pc, !.want = want]
  <1>2. conn' = [conn EXCEPT ![c] = r]
    BY <1>1, ZenonT(30) DEF GoUpdate, ConnRecord, PresenceTypeOK
  <1>3. want \in {"ONLINE", "IDLE", "DND"} /\ (pc # "none" => want = conn[c].want)
    BY <1>1 DEF ConnRecord
  <1> HIDE DEF want
  <1>4. /\ r \in ConnRecord /\ r.open = conn[c].open /\ r.enter = conn[c].enter
        /\ r.leave = conn[c].leave /\ r.was = conn[c].was /\ r.update = pc /\ r.want = want
    BY <1>1, <1>3 DEF ConnRecord
  <1> HIDE DEF r
  <1>5. Moves(c) /\ conn'[c] = r
    BY <1>2, <1>4, RecordPut
  <1> QED
    BY <1>3, <1>4, <1>5 DEF UpdateMoves

(* The steps that open and close a connection and that begin an update. *)
LEMMA Connected ==
    ASSUME PresenceTypeOK, NEW c \in Conn, HandleConnection(c)
    PROVE  /\ Moves(c)
           /\ ~conn[c].open
           /\ conn[c].enter = "none" /\ conn[c].leave = "none" /\ conn[c].update = "none"
           /\ conn'[c].open /\ conn'[c].enter = "was" /\ ~conn'[c].was
           /\ conn'[c].leave = "none" /\ conn'[c].update = "none"
  <1> DEFINE r == [NoConnection EXCEPT !.open = TRUE, !.enter = "was"]
  <1>1. /\ r \in ConnRecord /\ r.open /\ r.enter = "was" /\ ~r.was
        /\ r.leave = "none" /\ r.update = "none"
    BY DEF NoConnection, ConnRecord
  <1>2. conn' = [conn EXCEPT ![c] = r] /\ conn[c] = NoConnection
    BY DEF HandleConnection
  <1>3. ~conn[c].open /\ conn[c].enter = "none" /\ conn[c].leave = "none" /\ conn[c].update = "none"
    BY <1>2 DEF NoConnection
  <1> HIDE DEF r
  <1> QED
    BY <1>1, <1>2, <1>3, RecordPut

LEMMA AskedOnline ==
    ASSUME PresenceTypeOK, NEW c \in Conn, WasOnline(c)
    PROVE  /\ Moves(c)
           /\ conn'[c].open = conn[c].open /\ conn'[c].leave = conn[c].leave
           /\ conn'[c].update = conn[c].update /\ conn'[c].want = conn[c].want
           /\ conn'[c].enter = "redis" /\ conn'[c].was = online
  <1> DEFINE r == [conn[c] EXCEPT !.enter = "redis", !.was = online]
  <1>1. conn[c] \in ConnRecord
    BY DEF PresenceTypeOK
  <1>2. conn' = [conn EXCEPT ![c] = r]
    BY <1>1, ZenonT(30) DEF WasOnline, ConnRecord, PresenceTypeOK
  <1>3. /\ r \in ConnRecord /\ r.open = conn[c].open /\ r.leave = conn[c].leave
        /\ r.update = conn[c].update /\ r.want = conn[c].want /\ r.enter = "redis" /\ r.was = online
    BY <1>1 DEF ConnRecord, PresenceTypeOK
  <1> HIDE DEF r
  <1> QED
    BY <1>2, <1>3, RecordPut

LEMMA Disconnected ==
    ASSUME PresenceTypeOK, NEW c \in Conn, HandleDisconnection(c)
    PROVE  /\ Moves(c)
           /\ conn'[c].enter = conn[c].enter /\ conn'[c].was = conn[c].was
           /\ conn'[c].update = conn[c].update /\ conn'[c].want = conn[c].want
           /\ conn'[c].leave = "srem" /\ ~conn'[c].open
  <1> DEFINE r == [conn[c] EXCEPT !.open = FALSE, !.leave = "srem"]
  <1>1. conn[c] \in ConnRecord
    BY DEF PresenceTypeOK
  <1>2. conn' = [conn EXCEPT ![c] = r]
    BY <1>1, ZenonT(30) DEF HandleDisconnection, ConnRecord, PresenceTypeOK
  <1>3. /\ r \in ConnRecord /\ r.enter = conn[c].enter /\ r.was = conn[c].was
        /\ r.update = conn[c].update /\ r.want = conn[c].want /\ r.leave = "srem" /\ ~r.open
    BY <1>1 DEF ConnRecord
  <1> HIDE DEF r
  <1> QED
    BY <1>2, <1>3, RecordPut

LEMMA UpdateBegun ==
    ASSUME PresenceTypeOK, NEW c \in Conn, HandlePresenceUpdate(c)
    PROVE  /\ Moves(c)
           /\ conn'[c].open = conn[c].open /\ conn'[c].enter = conn[c].enter
           /\ conn'[c].leave = conn[c].leave /\ conn'[c].was = conn[c].was
           /\ conn'[c].update = "redis"
  <1>1. PICK status \in {"ONLINE", "IDLE", "DND"} :
           conn' = [conn EXCEPT ![c].update = "redis", ![c].want = status]
    BY DEF HandlePresenceUpdate
  <1> DEFINE r == [conn[c] EXCEPT !.update = "redis", !.want = status]
  <1>2. conn[c] \in ConnRecord
    BY DEF PresenceTypeOK
  <1>3. conn' = [conn EXCEPT ![c] = r]
    BY <1>1, <1>2, ZenonT(30) DEF ConnRecord, PresenceTypeOK
  <1>4. /\ r \in ConnRecord /\ r.open = conn[c].open /\ r.enter = conn[c].enter
        /\ r.leave = conn[c].leave /\ r.was = conn[c].was /\ r.update = "redis"
    BY <1>2 DEF ConnRecord
  <1> HIDE DEF r
  <1> QED
    BY <1>3, <1>4, RecordPut

-----------------------------------------------------------------------------
LEMMA HandleConnectionKeeps == ASSUME PresenceInv, Apart', NEW c \in Conn, HandleConnection(c) PROVE PresenceInv'
  <1> USE DEF PresenceInv
  <1>1. /\ socketIds' = socketIds \ {c} /\ ghosts' = IF c \in socketIds THEN ghosts + 1 ELSE ghosts
        /\ UNCHANGED <<online, key, saved, friendsTold, faults>>
    BY DEF HandleConnection, redis, counts
  <1>2. /\ Moves(c)
        /\ ~conn[c].open /\ conn[c].enter = "none" /\ conn[c].leave = "none"
        /\ conn'[c].open /\ conn'[c].enter = "was" /\ ~conn'[c].was
        /\ conn'[c].leave = "none" /\ conn'[c].update = "none"
    BY Connected
  <1>3. PresenceTypeOK'
    BY <1>1, <1>2 DEF PresenceTypeOK, ConnRecord, Moves
  <1>4. SocketsRight'
    BY <1>1, <1>2 DEF SocketsRight, Apart, Leaving, Busy, Arriving, Moves
  <1>5. OnlineRight'
    BY <1>1, <1>2 DEF OnlineRight, SocketsRight, Apart, Leaving, Busy, Arriving, Moves
  <1>6. SavedRight'
    BY <1>1, <1>2 DEF SavedRight, OnlineRight, SocketsRight, Apart, Leaving, Busy, Arriving, Moves
  <1>7. ToldRight'
    BY <1>1, <1>2 DEF ToldRight, OnlineRight, SocketsRight, Apart, Leaving, Busy, Arriving, Moves
  <1> QED
    BY <1>3, <1>4, <1>5, <1>6, <1>7

LEMMA WasOnlineKeeps == ASSUME PresenceInv, Apart', NEW c \in Conn, WasOnline(c) PROVE PresenceInv'
  <1> USE DEF PresenceInv
  <1>1. /\ conn[c].enter = "was"
        /\ UNCHANGED <<online, socketIds, ghosts, key, saved, friendsTold, faults>>
    BY DEF WasOnline, redis, counts
  <1>2. /\ Moves(c)
        /\ conn'[c].open = conn[c].open /\ conn'[c].leave = conn[c].leave
        /\ conn'[c].update = conn[c].update
        /\ conn'[c].enter = "redis" /\ conn'[c].was = online
    BY AskedOnline
  <1>3. PresenceTypeOK'
    BY <1>1, <1>2 DEF PresenceTypeOK, ConnRecord, Moves
  <1>4. SocketsRight'
    BY <1>1, <1>2 DEF SocketsRight, Apart, Leaving, Busy, Arriving, Moves
  <1>5. OnlineRight'
    BY <1>1, <1>2 DEF OnlineRight, SocketsRight, Apart, Leaving, Busy, Arriving, Moves
  <1>6. SavedRight'
    BY <1>1, <1>2 DEF SavedRight, OnlineRight, SocketsRight, Apart, Leaving, Busy, Arriving, Moves
  <1>7. ToldRight'
    BY <1>1, <1>2 DEF ToldRight, OnlineRight, SocketsRight, Apart, Leaving, Busy, Arriving, Moves
  <1> QED
    BY <1>3, <1>4, <1>5, <1>6, <1>7

LEMMA SetOnlineKeeps == ASSUME PresenceInv, Apart', NEW c \in Conn, SetOnline(c) PROVE PresenceInv'
  <1> USE DEF PresenceInv
  <1>1. /\ conn[c].enter = "redis"
        /\ online' = TRUE /\ socketIds' = socketIds \cup {c} /\ key' = "ONLINE"
        /\ UNCHANGED <<ghosts, saved, friendsTold, faults>>
    BY DEF SetOnline, redis, counts
  <1>2. EnterMoves(c, "row")
    BY EnterMoved DEF SetOnline
  <1>3. PresenceTypeOK'
    BY <1>1, <1>2 DEF PresenceTypeOK, ConnRecord, Moves, EnterMoves
  <1>4. SocketsRight'
    BY <1>1, <1>2 DEF SocketsRight, Apart, Leaving, Busy, Arriving, Moves, EnterMoves
  <1>5. OnlineRight'
    BY <1>1, <1>2 DEF OnlineRight, SocketsRight, Apart, Leaving, Busy, Arriving, Moves, EnterMoves
  <1>6. SavedRight'
    BY <1>1, <1>2 DEF SavedRight, OnlineRight, SocketsRight, Apart, Leaving, Busy, Arriving, Moves, EnterMoves
  <1>7. ToldRight'
    BY <1>1, <1>2 DEF ToldRight, OnlineRight, SocketsRight, Apart, Leaving, Busy, Arriving, Moves, EnterMoves
  <1> QED
    BY <1>3, <1>4, <1>5, <1>6, <1>7

LEMMA SaveOnlineKeeps == ASSUME PresenceInv, Apart', NEW c \in Conn, SaveOnline(c) PROVE PresenceInv'
  <1> USE DEF PresenceInv
  <1>1. /\ conn[c].enter = "row"
        /\ saved' = "ONLINE"
        /\ UNCHANGED <<online, socketIds, ghosts, key, friendsTold, faults>>
    BY DEF SaveOnline, redis, counts
  <1>2. EnterMoves(c, IF conn[c].was THEN "none" ELSE "friends")
    BY EnterMoved DEF SaveOnline
  <1>3. PresenceTypeOK'
    BY <1>1, <1>2 DEF PresenceTypeOK, ConnRecord, Moves, EnterMoves
  <1>4. SocketsRight'
    BY <1>1, <1>2 DEF SocketsRight, Apart, Leaving, Busy, Arriving, Moves, EnterMoves
  <1>5. OnlineRight'
    BY <1>1, <1>2 DEF OnlineRight, SocketsRight, Apart, Leaving, Busy, Arriving, Moves, EnterMoves
  <1>6. SavedRight'
    BY <1>1, <1>2 DEF SavedRight, OnlineRight, SocketsRight, Apart, Leaving, Busy, Arriving, Moves, EnterMoves
  <1>7. ToldRight'
    BY <1>1, <1>2 DEF ToldRight, OnlineRight, SocketsRight, Apart, Leaving, Busy, Arriving, Moves, EnterMoves
  <1> QED
    BY <1>3, <1>4, <1>5, <1>6, <1>7

LEMMA HandleDisconnectionKeeps == ASSUME PresenceInv, Apart', NEW c \in Conn, HandleDisconnection(c) PROVE PresenceInv'
  <1> USE DEF PresenceInv
  <1>1. /\ conn[c].open
        /\ UNCHANGED <<online, socketIds, ghosts, key, saved, friendsTold, faults>>
    BY DEF HandleDisconnection, redis, counts
  <1>2. /\ Moves(c)
        /\ conn'[c].enter = conn[c].enter /\ conn'[c].was = conn[c].was
        /\ conn'[c].update = conn[c].update
        /\ conn'[c].leave = "srem" /\ ~conn'[c].open
    BY Disconnected
  <1>3. PresenceTypeOK'
    BY <1>1, <1>2 DEF PresenceTypeOK, ConnRecord, Moves
  <1>4. SocketsRight'
    BY <1>1, <1>2 DEF SocketsRight, Apart, Leaving, Busy, Arriving, Moves
  <1>5. OnlineRight'
    BY <1>1, <1>2 DEF OnlineRight, SocketsRight, Apart, Leaving, Busy, Arriving, Moves
  <1>6. SavedRight'
    BY <1>1, <1>2 DEF SavedRight, OnlineRight, SocketsRight, Apart, Leaving, Busy, Arriving, Moves
  <1>7. ToldRight'
    BY <1>1, <1>2 DEF ToldRight, OnlineRight, SocketsRight, Apart, Leaving, Busy, Arriving, Moves
  <1> QED
    BY <1>3, <1>4, <1>5, <1>6, <1>7

LEMMA RemoveSocketKeeps == ASSUME PresenceInv, Apart', NEW c \in Conn, RemoveSocket(c) PROVE PresenceInv'
  <1> USE DEF PresenceInv
  <1>1. /\ conn[c].leave = "srem"
        /\ socketIds' = socketIds \ {c}
        /\ UNCHANGED <<online, ghosts, key, saved, friendsTold, faults>>
    BY DEF RemoveSocket, redis, counts
  <1>2. LeaveMoves(c, "scard")
    BY LeaveMoved DEF RemoveSocket
  <1>3. PresenceTypeOK'
    BY <1>1, <1>2 DEF PresenceTypeOK, ConnRecord, Moves, LeaveMoves
  <1>4. SocketsRight'
    BY <1>1, <1>2 DEF SocketsRight, Apart, Leaving, Busy, Arriving, Moves, LeaveMoves
  <1>5. OnlineRight'
    BY <1>1, <1>2 DEF OnlineRight, SocketsRight, Apart, Leaving, Busy, Arriving, Moves, LeaveMoves
  <1>6. SavedRight'
    BY <1>1, <1>2 DEF SavedRight, OnlineRight, SocketsRight, Apart, Leaving, Busy, Arriving, Moves, LeaveMoves
  <1>7. ToldRight'
    BY <1>1, <1>2 DEF ToldRight, OnlineRight, SocketsRight, Apart, Leaving, Busy, Arriving, Moves, LeaveMoves
  <1> QED
    BY <1>3, <1>4, <1>5, <1>6, <1>7

LEMMA CountSocketsKeeps == ASSUME PresenceInv, Apart', NEW c \in Conn, CountSockets(c) PROVE PresenceInv'
  <1> USE DEF PresenceInv
  <1>1. /\ conn[c].leave = "scard"
        /\ UNCHANGED <<online, socketIds, ghosts, key, saved, friendsTold, faults>>
    BY DEF CountSockets, redis, counts
  <1>2. LeaveMoves(c, IF socketIds = {} /\ ghosts = 0 THEN "redis" ELSE "still")
    BY LeaveMoved DEF CountSockets
  <1>3. PresenceTypeOK'
    BY <1>1, <1>2 DEF PresenceTypeOK, ConnRecord, Moves, LeaveMoves
  <1>4. SocketsRight'
    BY <1>1, <1>2 DEF SocketsRight, Apart, Leaving, Busy, Arriving, Moves, LeaveMoves
  <1>5. OnlineRight'
    BY <1>1, <1>2 DEF OnlineRight, SocketsRight, Apart, Leaving, Busy, Arriving, Moves, LeaveMoves
  <1>6. SavedRight'
    BY <1>1, <1>2 DEF SavedRight, OnlineRight, SocketsRight, Apart, Leaving, Busy, Arriving, Moves, LeaveMoves
  <1>7. ToldRight'
    BY <1>1, <1>2 DEF ToldRight, OnlineRight, SocketsRight, Apart, Leaving, Busy, Arriving, Moves, LeaveMoves
  <1> QED
    BY <1>3, <1>4, <1>5, <1>6, <1>7

LEMMA SetOfflineUserKeeps == ASSUME PresenceInv, Apart', NEW c \in Conn, SetOfflineUser(c) PROVE PresenceInv'
  <1> USE DEF PresenceInv
  <1>1. /\ conn[c].leave = "redis"
        /\ online' = FALSE /\ socketIds' = {} /\ ghosts' = 0 /\ key' = "none"
        /\ UNCHANGED <<saved, friendsTold, faults>>
    BY DEF SetOfflineUser, redis, counts
  <1>2. LeaveMoves(c, "row")
    BY LeaveMoved DEF SetOfflineUser
  <1>3. PresenceTypeOK'
    BY <1>1, <1>2 DEF PresenceTypeOK, ConnRecord, Moves, LeaveMoves
  <1>4. SocketsRight'
    BY <1>1, <1>2 DEF SocketsRight, OnlineRight, Apart, Leaving, Busy, Arriving, Moves, LeaveMoves
  <1>5. OnlineRight'
    BY <1>1, <1>2 DEF OnlineRight, SocketsRight, Apart, Leaving, Busy, Arriving, Moves, LeaveMoves
  <1>6. SavedRight'
    BY <1>1, <1>2 DEF SavedRight, OnlineRight, SocketsRight, Apart, Leaving, Busy, Arriving, Moves, LeaveMoves
  <1>7. ToldRight'
    BY <1>1, <1>2 DEF ToldRight, OnlineRight, SocketsRight, Apart, Leaving, Busy, Arriving, Moves, LeaveMoves
  <1> QED
    BY <1>3, <1>4, <1>5, <1>6, <1>7

LEMMA SaveOfflineKeeps == ASSUME PresenceInv, Apart', NEW c \in Conn, SaveOffline(c) PROVE PresenceInv'
  <1> USE DEF PresenceInv
  <1>1. /\ conn[c].leave = "row"
        /\ saved' = "OFFLINE"
        /\ UNCHANGED <<online, socketIds, ghosts, key, friendsTold, faults>>
    BY DEF SaveOffline, redis, counts
  <1>2. LeaveMoves(c, "still")
    BY LeaveMoved DEF SaveOffline
  <1>3. PresenceTypeOK'
    BY <1>1, <1>2 DEF PresenceTypeOK, ConnRecord, Moves, LeaveMoves
  <1>4. SocketsRight'
    BY <1>1, <1>2 DEF SocketsRight, Apart, Leaving, Busy, Arriving, Moves, LeaveMoves
  <1>5. OnlineRight'
    BY <1>1, <1>2 DEF OnlineRight, SocketsRight, Apart, Leaving, Busy, Arriving, Moves, LeaveMoves
  <1>6. SavedRight'
    BY <1>1, <1>2 DEF SavedRight, OnlineRight, SocketsRight, Apart, Leaving, Busy, Arriving, Moves, LeaveMoves
  <1>7. ToldRight'
    BY <1>1, <1>2 DEF ToldRight, OnlineRight, SocketsRight, Apart, Leaving, Busy, Arriving, Moves, LeaveMoves
  <1> QED
    BY <1>3, <1>4, <1>5, <1>6, <1>7

LEMMA StillOnlineKeeps == ASSUME PresenceInv, Apart', NEW c \in Conn, StillOnline(c) PROVE PresenceInv'
  <1> USE DEF PresenceInv
  <1>1. /\ conn[c].leave = "still"
        /\ UNCHANGED <<online, socketIds, ghosts, key, saved, friendsTold, faults>>
    BY DEF StillOnline, redis, counts
  <1>2. LeaveMoves(c, IF online THEN "none" ELSE "friends")
    BY LeaveMoved DEF StillOnline
  <1>3. PresenceTypeOK'
    BY <1>1, <1>2 DEF PresenceTypeOK, ConnRecord, Moves, LeaveMoves
  <1>4. SocketsRight'
    BY <1>1, <1>2 DEF SocketsRight, Apart, Leaving, Busy, Arriving, Moves, LeaveMoves
  <1>5. OnlineRight'
    BY <1>1, <1>2 DEF OnlineRight, SocketsRight, Apart, Leaving, Busy, Arriving, Moves, LeaveMoves
  <1>6. SavedRight'
    BY <1>1, <1>2 DEF SavedRight, OnlineRight, SocketsRight, Apart, Leaving, Busy, Arriving, Moves, LeaveMoves
  <1>7. ToldRight'
    BY <1>1, <1>2 DEF ToldRight, OnlineRight, SocketsRight, Apart, Leaving, Busy, Arriving, Moves, LeaveMoves
  <1> QED
    BY <1>3, <1>4, <1>5, <1>6, <1>7

LEMMA HandlePresenceUpdateKeeps == ASSUME PresenceInv, Apart', NEW c \in Conn, HandlePresenceUpdate(c) PROVE PresenceInv'
  <1> USE DEF PresenceInv
  <1>1. /\ conn[c].open /\ conn[c].update = "none"
        /\ UNCHANGED <<online, socketIds, ghosts, key, saved, friendsTold, faults>>
    BY DEF HandlePresenceUpdate, redis, counts
  <1>2. /\ Moves(c)
        /\ conn'[c].open = conn[c].open /\ conn'[c].enter = conn[c].enter
        /\ conn'[c].leave = conn[c].leave /\ conn'[c].was = conn[c].was
        /\ conn'[c].update = "redis"
    BY UpdateBegun
  <1>3. PresenceTypeOK'
    BY <1>1, <1>2 DEF PresenceTypeOK, ConnRecord, Moves
  <1>4. SocketsRight'
    <2>1. \A d \in Conn : /\ conn'[d].open = conn[d].open /\ conn'[d].leave = conn[d].leave
                         /\ conn'[d].enter = conn[d].enter /\ (Busy(d)' => Busy(d) \/ d = c)
      BY <1>2 DEF Moves, Busy
    <2> QED
      BY <1>1, <2>1 DEF SocketsRight, Arriving
  <1>5. OnlineRight'
    BY <1>1, <1>2 DEF OnlineRight, SocketsRight, Apart, Leaving, Busy, Arriving, Moves
  <1>6. SavedRight'
    BY <1>1, <1>2 DEF SavedRight, OnlineRight, SocketsRight, Apart, Leaving, Busy, Arriving, Moves
  <1>7. ToldRight'
    BY <1>1, <1>2 DEF ToldRight, OnlineRight, SocketsRight, Apart, Leaving, Busy, Arriving, Moves
  <1> QED
    BY <1>3, <1>4, <1>5, <1>6, <1>7

LEMMA UpdateStatusKeeps == ASSUME PresenceInv, Apart', NEW c \in Conn, UpdateStatus(c) PROVE PresenceInv'
  <1> USE DEF PresenceInv
  <1>1. /\ conn[c].update = "redis"
        /\ key' = conn[c].want
        /\ UNCHANGED <<online, socketIds, ghosts, saved, friendsTold, faults>>
    BY DEF UpdateStatus, redis, counts
  <1>2. UpdateMoves(c, "row")
    BY UpdateMoved DEF UpdateStatus
  <1>3. PresenceTypeOK'
    BY <1>1, <1>2 DEF PresenceTypeOK, ConnRecord, Moves, UpdateMoves
  <1>4. SocketsRight'
    BY <1>1, <1>2 DEF SocketsRight, Apart, Leaving, Busy, Arriving, Moves, UpdateMoves
  <1>5. OnlineRight'
    BY <1>1, <1>2 DEF OnlineRight, SocketsRight, Apart, Leaving, Busy, Arriving, Moves, UpdateMoves
  <1>6. SavedRight'
    BY <1>1, <1>2 DEF SavedRight, OnlineRight, SocketsRight, Apart, Leaving, Busy, Arriving, Moves, UpdateMoves
  <1>7. ToldRight'
    BY <1>1, <1>2 DEF ToldRight, OnlineRight, SocketsRight, Apart, Leaving, Busy, Arriving, Moves, UpdateMoves
  <1> QED
    BY <1>3, <1>4, <1>5, <1>6, <1>7

LEMMA SaveStatusKeeps == ASSUME PresenceInv, Apart', NEW c \in Conn, SaveStatus(c) PROVE PresenceInv'
  <1> USE DEF PresenceInv
  <1>1. /\ conn[c].update = "row"
        /\ saved' = conn[c].want
        /\ UNCHANGED <<online, socketIds, ghosts, key, friendsTold, faults>>
    BY DEF SaveStatus, redis, counts
  <1>2. UpdateMoves(c, "friends")
    BY UpdateMoved DEF SaveStatus
  <1>3. PresenceTypeOK'
    BY <1>1, <1>2 DEF PresenceTypeOK, ConnRecord, Moves, UpdateMoves
  <1>4. SocketsRight'
    BY <1>1, <1>2 DEF SocketsRight, Apart, Leaving, Busy, Arriving, Moves, UpdateMoves
  <1>5. OnlineRight'
    BY <1>1, <1>2 DEF OnlineRight, SocketsRight, Apart, Leaving, Busy, Arriving, Moves, UpdateMoves
  <1>6. SavedRight'
    <2>1. saved' # "OFFLINE" /\ (online \/ Arriving(c))
      BY <1>1 DEF PresenceTypeOK, ConnRecord, OnlineRight, SocketsRight, Busy
    <2> QED
      BY <1>1, <1>2, <2>1 DEF SavedRight, Arriving, UpdateMoves
  <1>7. ToldRight'
    BY <1>1, <1>2 DEF ToldRight, OnlineRight, SocketsRight, Apart, Leaving, Busy, Arriving, Moves, UpdateMoves
  <1> QED
    BY <1>3, <1>4, <1>5, <1>6, <1>7

LEMMA BroadcastKeeps ==
    ASSUME PresenceInv, Apart', NEW c \in Conn, BroadcastPresenceChange(c) PROVE PresenceInv'
  <1> USE DEF PresenceInv
  <1>1. UNCHANGED <<online, socketIds, ghosts, key, saved, faults>>
    BY DEF BroadcastPresenceChange, redis, counts
  <1>2. CASE conn[c].enter = "friends" /\ friendsTold' = "ONLINE" /\ EnterMoves(c, "none")
    <2>1. PresenceTypeOK' /\ SocketsRight'
      BY <1>1, <1>2 DEF PresenceTypeOK, SocketsRight, Busy, Arriving, Moves, EnterMoves
    <2>2. online
      BY <1>2 DEF OnlineRight, SocketsRight, Busy, Arriving
    <2>3. OnlineRight' /\ SavedRight' /\ ToldRight'
      BY <1>1, <1>2, <2>2 DEF OnlineRight, SavedRight, ToldRight, Moves, EnterMoves
    <2> QED
      BY <2>1, <2>3
  <1>3. CASE conn[c].leave = "friends" /\ friendsTold' = "OFFLINE" /\ LeaveMoves(c, "none")
    <2>1. PresenceTypeOK' /\ SocketsRight'
      BY <1>1, <1>3 DEF PresenceTypeOK, SocketsRight, Busy, Arriving, Moves, LeaveMoves
    <2>2. ~online
      BY <1>3 DEF OnlineRight
    <2>3. OnlineRight' /\ SavedRight' /\ ToldRight'
      BY <1>1, <1>3, <2>2 DEF OnlineRight, SavedRight, ToldRight, Arriving, Moves, LeaveMoves
    <2> QED
      BY <2>1, <2>3
  <1>4. CASE conn[c].update = "friends" /\ friendsTold' = conn[c].want /\ UpdateMoves(c, "none")
    <2>1. PresenceTypeOK' /\ SocketsRight'
      BY <1>1, <1>4 DEF PresenceTypeOK, ConnRecord, SocketsRight, Busy, Arriving, Moves, UpdateMoves
    <2>2. friendsTold' # "OFFLINE" /\ (online \/ Arriving(c))
      BY <1>4 DEF PresenceTypeOK, ConnRecord, OnlineRight, SocketsRight, Busy
    <2>3. OnlineRight' /\ SavedRight' /\ ToldRight'
      BY <1>1, <1>4, <2>2 DEF OnlineRight, SavedRight, ToldRight, Arriving, Moves, UpdateMoves
    <2> QED
      BY <2>1, <2>3
  <1> QED
    BY <1>2, <1>3, <1>4, EnterMoved, LeaveMoved, UpdateMoved DEF BroadcastPresenceChange

LEMMA ExpiryKeeps == ASSUME PresenceInv, Apart', StatusExpires PROVE PresenceInv'
  <1>1. /\ key' = "none" /\ faults' = faults + 1
        /\ UNCHANGED <<online, socketIds, ghosts, saved, friendsTold, conn>>
    BY DEF StatusExpires, Fault
  <1>2. PresenceTypeOK'
    BY <1>1 DEF PresenceInv, PresenceTypeOK
  <1>3. SocketsRight' /\ OnlineRight' /\ SavedRight' /\ ToldRight'
    BY <1>1 DEF PresenceInv, SocketsRight, OnlineRight, SavedRight, ToldRight, Busy, Arriving
  <1> QED
    BY <1>2, <1>3 DEF PresenceInv

LEMMA PresenceStep ==
    ASSUME PresenceInv, PresenceNext, PresenceExcuses \cap Broken = {} PROVE PresenceInv'
  <1>1. ~Overtaken' /\ ~CutShort' /\ ~(faults' # faults /\ ~StatusExpires)
    BY DEF PresenceExcuses, Broken, When
  <1>2. Apart'
    <2>1. \A c, d \in Conn : conn'[c].leave \in Leaving => ~Busy(d)'
      BY <1>1 DEF Overtaken, Leaving
    <2>2. \A c \in Conn : conn'[c].leave # "none" => ~Busy(c)'
      BY <1>1 DEF CutShort
    <2> QED
      BY <2>1, <2>2 DEF Apart
  <1>3. StatusExpires \/ ~Fault
    BY <1>1 DEF Fault, PresenceInv, PresenceTypeOK
  <1>4. ASSUME NEW c \in Conn, Round(c) PROVE PresenceInv'
    BY <1>2, <1>4, WasOnlineKeeps, SetOnlineKeeps, SaveOnlineKeeps, RemoveSocketKeeps, CountSocketsKeeps,
       SetOfflineUserKeeps, SaveOfflineKeeps, StillOnlineKeeps, UpdateStatusKeeps, SaveStatusKeeps,
       BroadcastKeeps DEF Round
  <1> QED
    BY <1>2, <1>3, <1>4, HandleConnectionKeeps, HandleDisconnectionKeeps, HandlePresenceUpdateKeeps,
       ExpiryKeeps DEF PresenceNext, RoundTripFails, ChatServerCrash

-----------------------------------------------------------------------------
LEMMA HandleConnectionTells ==
    ASSUME StatusInv, PresenceInv', Single', NEW c \in Conn, HandleConnection(c) PROVE StatusRight'
  <1>1. /\ UNCHANGED <<online, key, saved, friendsTold>>
    BY DEF HandleConnection, redis
  <1>2. /\ Moves(c)
        /\ conn[c].enter = "none" /\ conn[c].leave = "none" /\ conn[c].update = "none"
        /\ conn'[c].enter = "was" /\ conn'[c].leave = "none" /\ conn'[c].update = "none"
    BY Connected DEF StatusInv, PresenceInv
  <1> QED
    BY <1>1, <1>2 DEF StatusInv, StatusRight, Single, Rivals, PresenceInv, OnlineRight, SocketsRight,
       Apart, Leaving, Busy, Arriving, GetStatus, PresenceTypeOK, ConnRecord, Moves

LEMMA WasOnlineTells ==
    ASSUME StatusInv, PresenceInv', Single', NEW c \in Conn, WasOnline(c) PROVE StatusRight'
  <1>1. /\ conn[c].enter = "was"
        /\ UNCHANGED <<online, key, saved, friendsTold>>
    BY DEF WasOnline, redis
  <1>2. /\ Moves(c)
        /\ conn'[c].leave = conn[c].leave /\ conn'[c].update = conn[c].update
        /\ conn'[c].want = conn[c].want /\ conn'[c].enter = "redis"
    BY AskedOnline DEF StatusInv, PresenceInv
  <1> QED
    BY <1>1, <1>2 DEF StatusInv, StatusRight, Single, Rivals, PresenceInv, OnlineRight, SocketsRight,
       Apart, Leaving, Busy, Arriving, GetStatus, PresenceTypeOK, ConnRecord, Moves

LEMMA SetOnlineTells ==
    ASSUME StatusInv, PresenceInv', Single', NEW c \in Conn, ~Resets, SetOnline(c) PROVE StatusRight'
  <1>1. /\ conn[c].enter = "redis"
        /\ online' = TRUE /\ key' = "ONLINE"
        /\ UNCHANGED <<saved, friendsTold>>
    BY DEF SetOnline, redis
  <1>2. EnterMoves(c, "row")
    BY EnterMoved DEF SetOnline, StatusInv, PresenceInv
  <1>3. key \in {"ONLINE", "none"}
    BY DEF Resets, SetOnline
  <1>4. \A d \in Conn : conn[d].leave \notin Leaving /\ conn[d].update = "none"
    BY <1>1 DEF StatusInv, PresenceInv, Apart, Busy, Single, Rivals
  <1>5. \A d \in Conn : conn'[d].update = conn[d].update
    BY <1>2 DEF EnterMoves, Moves
  <1>6. conn'[c].enter = "row" /\ conn'[c].was = conn[c].was /\ (conn[c].was => online)
    BY <1>1, <1>2 DEF EnterMoves, StatusInv, PresenceInv, OnlineRight
  <1>7. saved' = GetStatus' \/ \E d \in Conn : "row" \in {conn'[d].enter, conn'[d].update, conn'[d].leave}
    BY <1>6
  <1>8. CASE conn[c].was
    <2>1. key = "ONLINE"
      BY <1>3, <1>6, <1>8 DEF StatusInv, StatusRight
    <2>2. friendsTold = GetStatus \/ \E d \in Conn : conn[d].enter \in {"row", "friends"} /\ ~conn[d].was
      BY <1>4 DEF StatusInv, StatusRight, Leaving
    <2>3. friendsTold' = GetStatus' \/ \E d \in Conn : conn'[d].enter \in {"row", "friends"} /\ ~conn'[d].was
      BY <1>1, <1>2, <1>8, <2>1, <2>2 DEF GetStatus, EnterMoves, Moves
    <2> QED
      BY <1>1, <1>4, <1>5, <1>7, <2>3 DEF StatusRight
  <1>9. CASE ~conn[c].was
    BY <1>1, <1>4, <1>5, <1>6, <1>7, <1>9 DEF StatusRight
  <1> QED
    BY <1>8, <1>9

LEMMA SaveOnlineTells ==
    ASSUME StatusInv, PresenceInv', Single', NEW c \in Conn, SaveOnline(c) PROVE StatusRight'
  <1>1. /\ conn[c].enter = "row"
        /\ saved' = "ONLINE"
        /\ UNCHANGED <<online, key, friendsTold>>
    BY DEF SaveOnline, redis
  <1>2. EnterMoves(c, IF conn[c].was THEN "none" ELSE "friends")
    BY EnterMoved DEF SaveOnline, StatusInv, PresenceInv
  <1> QED
    BY <1>1, <1>2 DEF StatusInv, StatusRight, Single, Rivals, PresenceInv, OnlineRight, SocketsRight,
       Apart, Leaving, Busy, Arriving, GetStatus, PresenceTypeOK, ConnRecord, Moves, EnterMoves

LEMMA HandleDisconnectionTells ==
    ASSUME StatusInv, PresenceInv', Single', NEW c \in Conn, HandleDisconnection(c) PROVE StatusRight'
  <1>1. /\ conn[c].open
        /\ UNCHANGED <<online, key, saved, friendsTold>>
    BY DEF HandleDisconnection, redis
  <1>2. /\ Moves(c)
        /\ conn'[c].enter = conn[c].enter /\ conn'[c].was = conn[c].was
        /\ conn'[c].update = conn[c].update /\ conn'[c].want = conn[c].want
        /\ conn'[c].leave = "srem"
    BY Disconnected DEF StatusInv, PresenceInv
  <1> QED
    BY <1>1, <1>2 DEF StatusInv, StatusRight, Single, Rivals, PresenceInv, OnlineRight, SocketsRight,
       Apart, Leaving, Busy, Arriving, GetStatus, PresenceTypeOK, ConnRecord, Moves

LEMMA RemoveSocketTells ==
    ASSUME StatusInv, PresenceInv', Single', NEW c \in Conn, RemoveSocket(c) PROVE StatusRight'
  <1>1. /\ conn[c].leave = "srem"
        /\ UNCHANGED <<online, key, saved, friendsTold>>
    BY DEF RemoveSocket, redis
  <1>2. LeaveMoves(c, "scard")
    BY LeaveMoved DEF RemoveSocket, StatusInv, PresenceInv
  <1> QED
    BY <1>1, <1>2 DEF StatusInv, StatusRight, Single, Rivals, PresenceInv, OnlineRight, SocketsRight,
       Apart, Leaving, Busy, Arriving, GetStatus, PresenceTypeOK, ConnRecord, Moves, LeaveMoves

LEMMA CountSocketsTells ==
    ASSUME StatusInv, PresenceInv', Single', NEW c \in Conn, CountSockets(c) PROVE StatusRight'
  <1>1. /\ conn[c].leave = "scard"
        /\ UNCHANGED <<online, key, saved, friendsTold>>
    BY DEF CountSockets, redis
  <1>2. LeaveMoves(c, IF socketIds = {} /\ ghosts = 0 THEN "redis" ELSE "still")
    BY LeaveMoved DEF CountSockets, StatusInv, PresenceInv
  <1> QED
    BY <1>1, <1>2 DEF StatusInv, StatusRight, Single, Rivals, PresenceInv, OnlineRight, SocketsRight,
       Apart, Leaving, Busy, Arriving, GetStatus, PresenceTypeOK, ConnRecord, Moves, LeaveMoves

LEMMA SetOfflineUserTells ==
    ASSUME StatusInv, PresenceInv', Single', NEW c \in Conn, SetOfflineUser(c) PROVE StatusRight'
  <1>1. /\ conn[c].leave = "redis"
        /\ online' = FALSE /\ key' = "none"
        /\ UNCHANGED <<saved, friendsTold>>
    BY DEF SetOfflineUser, redis
  <1>2. LeaveMoves(c, "row")
    BY LeaveMoved DEF SetOfflineUser, StatusInv, PresenceInv
  <1> QED
    BY <1>1, <1>2 DEF StatusInv, StatusRight, Single, Rivals, PresenceInv, OnlineRight, SocketsRight,
       Apart, Leaving, Busy, Arriving, GetStatus, PresenceTypeOK, ConnRecord, Moves, LeaveMoves

LEMMA SaveOfflineTells ==
    ASSUME StatusInv, PresenceInv', Single', NEW c \in Conn, SaveOffline(c) PROVE StatusRight'
  <1>1. /\ conn[c].leave = "row"
        /\ saved' = "OFFLINE"
        /\ UNCHANGED <<online, key, friendsTold>>
    BY DEF SaveOffline, redis
  <1>2. LeaveMoves(c, "still")
    BY LeaveMoved DEF SaveOffline, StatusInv, PresenceInv
  <1> QED
    BY <1>1, <1>2 DEF StatusInv, StatusRight, Single, Rivals, PresenceInv, OnlineRight, SocketsRight,
       Apart, Leaving, Busy, Arriving, GetStatus, PresenceTypeOK, ConnRecord, Moves, LeaveMoves

LEMMA StillOnlineTells ==
    ASSUME StatusInv, PresenceInv', Single', NEW c \in Conn, StillOnline(c) PROVE StatusRight'
  <1>1. /\ conn[c].leave = "still"
        /\ UNCHANGED <<online, key, saved, friendsTold>>
    BY DEF StillOnline, redis
  <1>2. LeaveMoves(c, IF online THEN "none" ELSE "friends")
    BY LeaveMoved DEF StillOnline, StatusInv, PresenceInv
  <1> QED
    BY <1>1, <1>2 DEF StatusInv, StatusRight, Single, Rivals, PresenceInv, OnlineRight, SocketsRight,
       Apart, Leaving, Busy, Arriving, GetStatus, PresenceTypeOK, ConnRecord, Moves, LeaveMoves

LEMMA HandlePresenceUpdateTells ==
    ASSUME StatusInv, PresenceInv', Single', NEW c \in Conn, HandlePresenceUpdate(c) PROVE StatusRight'
  <1>1. /\ conn[c].open /\ conn[c].update = "none"
        /\ UNCHANGED <<online, key, saved, friendsTold>>
    BY DEF HandlePresenceUpdate, redis
  <1>2. /\ Moves(c)
        /\ conn'[c].enter = conn[c].enter /\ conn'[c].was = conn[c].was
        /\ conn'[c].leave = conn[c].leave
        /\ conn'[c].update = "redis"
    BY UpdateBegun DEF StatusInv, PresenceInv
  <1> QED
    BY <1>1, <1>2 DEF StatusInv, StatusRight, Single, Rivals, PresenceInv, OnlineRight, SocketsRight,
       Apart, Leaving, Busy, Arriving, GetStatus, PresenceTypeOK, ConnRecord, Moves

LEMMA UpdateStatusTells ==
    ASSUME StatusInv, PresenceInv', Single', NEW c \in Conn, UpdateStatus(c) PROVE StatusRight'
  <1>1. /\ conn[c].update = "redis"
        /\ key' = conn[c].want
        /\ UNCHANGED <<online, saved, friendsTold>>
    BY DEF UpdateStatus, redis
  <1>2. UpdateMoves(c, "row")
    BY UpdateMoved DEF UpdateStatus, StatusInv, PresenceInv
  <1> QED
    BY <1>1, <1>2 DEF StatusInv, StatusRight, Single, Rivals, PresenceInv, OnlineRight, SocketsRight,
       Apart, Leaving, Busy, Arriving, GetStatus, PresenceTypeOK, ConnRecord, Moves, UpdateMoves

LEMMA SaveStatusTells ==
    ASSUME StatusInv, PresenceInv', Single', NEW c \in Conn, SaveStatus(c) PROVE StatusRight'
  <1>1. /\ conn[c].update = "row"
        /\ saved' = conn[c].want
        /\ UNCHANGED <<online, key, friendsTold>>
    BY DEF SaveStatus, redis
  <1>2. UpdateMoves(c, "friends")
    BY UpdateMoved DEF SaveStatus, StatusInv, PresenceInv
  <1> QED
    BY <1>1, <1>2 DEF StatusInv, StatusRight, Single, Rivals, PresenceInv, OnlineRight, SocketsRight,
       Apart, Leaving, Busy, Arriving, GetStatus, PresenceTypeOK, ConnRecord, Moves, UpdateMoves

LEMMA BroadcastTells ==
    ASSUME StatusInv, PresenceInv', Single', NEW c \in Conn, BroadcastPresenceChange(c)
    PROVE  StatusRight'
  <1>1. UNCHANGED <<online, key, saved>>
    BY DEF BroadcastPresenceChange, redis
  <1>2. CASE conn[c].enter = "friends" /\ friendsTold' = "ONLINE" /\ EnterMoves(c, "none")
    <2>1. key = "ONLINE"
      BY <1>2 DEF StatusInv, StatusRight
    <2> QED
      BY <1>1, <1>2, <2>1 DEF StatusInv, StatusRight, GetStatus, Moves, EnterMoves
  <1>3. CASE conn[c].leave = "friends" /\ friendsTold' = "OFFLINE" /\ LeaveMoves(c, "none")
    <2>1. ~online
      BY <1>3 DEF StatusInv, PresenceInv, OnlineRight
    <2> QED
      BY <1>1, <1>3, <2>1 DEF StatusInv, StatusRight, GetStatus, Moves, LeaveMoves
  <1>4. CASE conn[c].update = "friends" /\ friendsTold' = conn[c].want /\ UpdateMoves(c, "none")
    <2>1. key = conn[c].want /\ conn[c].want # "none"
      BY <1>4 DEF StatusInv, StatusRight, PresenceInv, PresenceTypeOK, ConnRecord
    <2> QED
      BY <1>1, <1>4, <2>1 DEF StatusInv, StatusRight, GetStatus, Moves, UpdateMoves
  <1> QED
    BY <1>2, <1>3, <1>4, EnterMoved, LeaveMoved, UpdateMoved
       DEF BroadcastPresenceChange, StatusInv, PresenceInv

LEMMA StatusStep ==
    ASSUME StatusInv, PresenceNext, PresenceExcuses = {} PROVE StatusInv'
  <1>1. ~Rivals' /\ ~Resets /\ ~StatusExpires /\ ~(faults' # faults /\ ~StatusExpires)
    BY DEF PresenceExcuses, When
  <1>2. PresenceInv'
    BY PresenceStep DEF StatusInv
  <1>3. Single'
    BY <1>1 DEF Single
  <1>4. ~Fault
    BY <1>1 DEF Fault, StatusInv, PresenceInv, PresenceTypeOK
  <1>5. ASSUME NEW c \in Conn, Round(c) PROVE StatusRight'
    BY <1>1, <1>2, <1>3, <1>5, WasOnlineTells, SetOnlineTells, SaveOnlineTells, RemoveSocketTells,
       CountSocketsTells, SetOfflineUserTells, SaveOfflineTells, StillOnlineTells, UpdateStatusTells,
       SaveStatusTells, BroadcastTells DEF Round
  <1>6. StatusRight'
    BY <1>2, <1>3, <1>4, <1>5, HandleConnectionTells, HandleDisconnectionTells,
       HandlePresenceUpdateTells DEF PresenceNext, RoundTripFails, ChatServerCrash, StatusExpires
  <1> QED
    BY <1>2, <1>3, <1>6 DEF StatusInv

LEMMA PresenceStutters ==
    ASSUME UNCHANGED presenceVars PROVE PresenceInv' = PresenceInv /\ StatusInv' = StatusInv
  BY DEF presenceVars, redis, counts, PresenceInv, PresenceTypeOK, Apart, SocketsRight, OnlineRight,
     SavedRight, ToldRight, Busy, Arriving, StatusInv, Single, Rivals, StatusRight, GetStatus

-----------------------------------------------------------------------------
(* The scene of the presence, until something happens that it does not handle. *)
PresenceScene ==
    scene = "presence" => /\ excused \cap Broken = {} => PresenceInv
                          /\ excused = {} => StatusInv

LEMMA PresenceSceneStep == ASSUME PresenceScene, [Next]_allVars PROVE PresenceScene'
  <1> SUFFICES ASSUME scene' = "presence" PROVE PresenceScene'
    BY DEF PresenceScene
  <1>1. scene = "presence"
    BY DEF Next, allVars
  <1>2. CASE PresenceNext /\ excused' = excused \cup PresenceExcuses
    <2>1. ASSUME excused' \cap Broken = {} PROVE PresenceInv'
      <3>1. excused \cap Broken = {} /\ PresenceExcuses \cap Broken = {}
        BY <1>2, <2>1
      <3> QED
        BY <1>1, <1>2, <3>1, PresenceStep DEF PresenceScene
    <2>2. ASSUME excused' = {} PROVE StatusInv'
      <3>1. excused = {} /\ PresenceExcuses = {}
        BY <1>2, <2>2
      <3> QED
        BY <1>1, <1>2, <3>1, StatusStep DEF PresenceScene
    <2> QED
      BY <2>1, <2>2 DEF PresenceScene, Broken
  <1>3. CASE UNCHANGED allVars
    BY <1>3, <1>1, PresenceStutters DEF PresenceScene, allVars, Broken
  <1> QED
    BY <1>1, <1>2, <1>3 DEF Next

LEMMA PresenceInvariance == Spec => []PresenceScene
  <1>1. Init => PresenceScene
    BY PresenceInitRight DEF Init, PresenceScene, StatusInv
  <1>2. PresenceScene /\ [Next]_allVars => PresenceScene'
    BY PresenceSceneStep
  <1> QED
    BY <1>1, <1>2, PTL DEF Spec

(* setOnline and setOffline: when no handler is under way, Redis, the row and *)
(* the friends agree that the user is online exactly while he is connected,   *)
(* for any number of connections, unless a disconnect is overtaken or fails.  *)
THEOREM OnlineAgrees == Spec => []OnlineIffConnected
  <1>1. PresenceScene => OnlineIffConnected
    <2> SUFFICES ASSUME PresenceInv, AllIdle
                 PROVE  /\ online <=> \E c \in Conn : conn[c].open
                        /\ saved = "OFFLINE" <=> ~online
                        /\ friendsTold = "OFFLINE" <=> ~online
      BY DEF PresenceScene, OnlineIffConnected
    <2>1. \A c \in Conn : c \in socketIds <=> conn[c].open
      BY DEF PresenceInv, SocketsRight, Arriving, AllIdle
    <2>2. online <=> socketIds # {}
      BY DEF PresenceInv, OnlineRight, AllIdle
    <2>3. socketIds \subseteq Conn
      BY DEF PresenceInv, PresenceTypeOK
    <2>4. (saved = "OFFLINE" <=> ~online) /\ (friendsTold = "OFFLINE" <=> ~online)
      BY DEF PresenceInv, SavedRight, ToldRight, Arriving, AllIdle
    <2> QED
      BY <2>1, <2>2, <2>3, <2>4
  <1> QED
    BY <1>1, PresenceInvariance, PTL

(* updateStatus and the broadcasts: as long as connects do not set a chosen   *)
(* status back and updates do not cross, the friends and the row have the     *)
(* status that Redis has.                                                     *)
THEOREM StatusAgrees == Spec => []ToldIsStatus
  <1>1. PresenceScene => ToldIsStatus
    BY DEF PresenceScene, ToldIsStatus, StatusInv, StatusRight, AllIdle
  <1> QED
    BY <1>1, PresenceInvariance, PTL

-----------------------------------------------------------------------------
(* DeviceLink, until connections overlap, a second login replaces a socket    *)
(* that works, a registration is cut off or the registry fails.  The only     *)
(* socket there is is the current one, and one connection at most is known to *)
(* the server: it registers, is mapped, and takes the row off when it ends.   *)
DeskRecord ==
    [tokens : {"none", "good", "old"}, current : Sock \cup {NoSock},
     status : {"disconnected", "connecting", "connected"}, fetching : Nat,
     page : {"off", "closed", "login", "waiting", "main"}]

SockRecord ==
    [state : {"free", "connecting", "up", "denied"}, token : {"none", "good", "old"},
     via : Link \cup {"none"}, buffered : Nat]

LinkRecord ==
    [open : BOOLEAN, asked : Nat, reg : {"none", "upserted"}, off : {"none", "query", "tell"},
     mapped : BOOLEAN]

LinkTypeOK ==
    /\ desk \in DeskRecord /\ sock \in [Sock -> SockRecord] /\ link \in [Link -> LinkRecord]
    /\ row \in {"none", "ONLINE", "OFFLINE"} /\ told \in {"none", "online", "offline"}

OneSocket ==
    /\ \A s \in Sock : sock[s].state # "free" => s = desk.current
    /\ desk.page = "off" => desk.current = NoSock /\ desk.fetching = 0

OneLink == \A l, m \in Link : link[l] # NoLink /\ link[m] # NoLink => l = m

(* Where the one connection is says what the row and the user know of it. *)
RowFollows(k, status, news) ==
    /\ k.open => k.off = "none" /\ (k.asked > 0 \/ k.reg = "upserted" \/ k.mapped)
    /\ ~k.open => k.asked = 0 /\ k.reg = "none" /\ k.off # "none"
    /\ k.reg = "upserted" => status = "ONLINE"
    /\ k.mapped /\ k.off # "tell" => status = "ONLINE" /\ news = "online"
    /\ k.off = "query" => k.mapped
    /\ k.off = "tell" => status # "ONLINE"

LinkInv ==
    /\ LinkTypeOK /\ OneSocket /\ OneLink
    /\ \A l \in Link : link[l] # NoLink => RowFollows(link[l], row, told)
    /\ (\A l \in Link : link[l] = NoLink) => row # "ONLINE" /\ told # "online"

LEMMA LinkInitRight == LinkInit => LinkInv
  <1> SUFFICES ASSUME LinkInit PROVE LinkInv
    OBVIOUS
  <1>1. /\ desk \in DeskRecord /\ desk.page = "off" /\ desk.current = NoSock /\ desk.fetching = 0
    BY DEF LinkInit, NewDesk, DeskRecord
  <1>2. sock \in [Sock -> SockRecord] /\ \A s \in Sock : sock[s].state = "free"
    BY DEF LinkInit, NoConn, SockRecord
  <1>3. link \in [Link -> LinkRecord] /\ \A l \in Link : link[l] = NoLink
    BY DEF LinkInit, NoLink, LinkRecord
  <1> QED
    BY <1>1, <1>2, <1>3 DEF LinkInit, LinkInv, LinkTypeOK, OneSocket, OneLink

(* The desktop's own steps. *)
DeskInv == desk \in DeskRecord /\ sock \in [Sock -> SockRecord] /\ OneSocket

LEMMA NoConnTyped == NoConn \in SockRecord /\ NoConn.state = "free"
  BY DEF NoConn, SockRecord

LEMMA Connects ==
    ASSUME DeskInv, NEW s \in Sock, NEW d \in DeskRecord, ConnectWith(s, d), d.page # "off", ~TwoLogins
    PROVE  DeskInv'
  <1>1. desk' = [d EXCEPT !.current = s, !.status = "connecting"]
    BY DEF ConnectWith
  <1>2. desk' \in DeskRecord /\ desk'.current = s /\ desk'.page # "off"
    BY <1>1 DEF DeskRecord
  <1>3. [NoConn EXCEPT !.state = "connecting", !.token = d.tokens] \in SockRecord
    BY DEF NoConn, SockRecord, DeskRecord
  <1>4. sock' \in [Sock -> SockRecord]
    BY <1>3, NoConnTyped DEF ConnectWith, DeskInv
  <1>5. ASSUME NEW t \in Sock, t # s, sock[t].state \notin {"free", "denied"} PROVE FALSE
    BY <1>2, <1>5, NoSockAssumption DEF TwoLogins, DeskInv, OneSocket
  <1>6. \A t \in Sock \ {s} : sock'[t].state = "free"
    BY <1>5, NoConnTyped DEF ConnectWith
  <1> QED
    BY <1>2, <1>4, <1>6 DEF DeskInv, OneSocket

LEMMA Disconnects ==
    ASSUME DeskInv, NEW d \in DeskRecord, DisconnectWith(d), d.page # "off" PROVE DeskInv'
  <1>1. desk' = [d EXCEPT !.current = NoSock, !.status = "disconnected"]
    BY DEF DisconnectWith
  <1>2. desk' \in DeskRecord /\ desk'.current = NoSock /\ desk'.page # "off"
    BY <1>1 DEF DeskRecord
  <1>3. sock' \in [Sock -> SockRecord] /\ \A t \in Sock : sock'[t].state = "free"
    BY NoConnTyped, NoSockAssumption DEF DisconnectWith, DeskInv, OneSocket
  <1> QED
    BY <1>2, <1>3 DEF DeskInv, OneSocket

LEMMA PageOpens ==
    ASSUME desk \in DeskRecord
    PROVE  OpenPage(desk) \in DeskRecord /\ OpenPage(desk).page # "off" /\ OpenPage(desk).current = desk.current
  BY DEF OpenPage, DeskRecord

LEMMA Fetching ==
    ASSUME DeskInv
    PROVE  /\ desk.fetching \in Nat /\ desk.fetching + 1 \in Nat
           /\ desk.fetching > 0 => desk.fetching - 1 \in Nat /\ desk.page # "off"
  <1>1. desk.fetching \in Nat
    BY DEF DeskInv, DeskRecord
  <1>2. desk.page = "off" => desk.fetching = 0
    BY DEF DeskInv, OneSocket
  <1> QED
    BY <1>1, <1>2

LEMMA DeskTyped ==
    ASSUME DeskInv, NEW tokens \in {"none", "good", "old"}, NEW n \in Nat,
           NEW page \in {"closed", "login", "waiting", "main"}
    PROVE  LET d == [desk EXCEPT !.tokens = tokens, !.fetching = n, !.page = page]
               e == [desk EXCEPT !.fetching = n, !.page = page]
           IN /\ d \in DeskRecord /\ d.page # "off" /\ d.current = desk.current
              /\ e \in DeskRecord /\ e.page # "off" /\ e.current = desk.current
  BY DEF DeskInv, DeskRecord

LEMMA DeskStep ==
    ASSUME DeskInv, ~TwoLogins,
           \/ \E s \in Sock : StartApp(s) \/ LoginSucceeds(s) \/ Denied(s) \/ TransportLost(s)
           \/ Activate \/ HandleSubmit \/ LoginFails \/ LogoutDesktop \/ CloseWindow \/ Quit \/ TokenExpires
    PROVE  DeskInv' /\ UNCHANGED <<link, row, told>>
  <1>a. UNCHANGED <<link, row, told>>
    BY DEF StartApp, LoginSucceeds, Denied, TransportLost, Activate, HandleSubmit, LoginFails,
       LogoutDesktop, CloseWindow, Quit, TokenExpires
  <1> SUFFICES DeskInv'
    BY <1>a
  <1> USE DEF DeskInv
  <1>1. ASSUME NEW s \in Sock, StartApp(s) PROVE DeskInv'
    BY <1>1, PageOpens, Connects DEF StartApp, OneSocket
  <1>2. ASSUME NEW s \in Sock, LoginSucceeds(s) PROVE DeskInv'
    <2>1. PICK page \in AfterAnswer("main") :
             ConnectWith(s, [desk EXCEPT !.tokens = "good", !.fetching = @ - 1, !.page = page])
      BY <1>2 DEF LoginSucceeds
    <2> DEFINE d == [desk EXCEPT !.tokens = "good", !.fetching = @ - 1, !.page = page]
    <2>2. desk.fetching > 0 /\ desk.page # "off"
      BY <1>2, Fetching DEF LoginSucceeds
    <2>3. page \in {"closed", "login", "waiting", "main"}
      BY <2>2 DEF AfterAnswer, DeskRecord
    <2>4. d \in DeskRecord /\ d.page # "off"
      BY <2>2, <2>3, Fetching, DeskTyped
    <2> HIDE DEF d
    <2> QED
      BY <2>1, <2>4, Connects DEF d
  <1>3. ASSUME NEW s \in Sock, Denied(s) \/ TransportLost(s) PROVE DeskInv'
    <2>1. sock[s].state # "free" /\ desk' = [desk EXCEPT !.status = "disconnected"]
      BY <1>3 DEF Denied, TransportLost
    <2>2. desk' \in DeskRecord /\ desk'.current = desk.current /\ desk'.page = desk.page
          /\ desk'.fetching = desk.fetching
      BY <2>1 DEF DeskRecord
    <2>3. sock' \in [Sock -> SockRecord] /\ \A t \in Sock \ {s} : sock'[t] = sock[t]
      BY <1>3 DEF Denied, TransportLost, SockRecord
    <2> QED
      BY <2>1, <2>2, <2>3 DEF OneSocket
  <1>4. CASE Activate \/ HandleSubmit
    <2>1. desk' = OpenPage(desk) \/ desk' = [desk EXCEPT !.fetching = desk.fetching + 1, !.page = "waiting"]
      BY <1>4, Zenon DEF Activate, HandleSubmit
    <2>2. desk' \in DeskRecord /\ desk'.current = desk.current /\ desk'.page # "off"
      <3>1. CASE desk' = OpenPage(desk)
        BY <3>1, PageOpens
      <3>2. CASE desk' = [desk EXCEPT !.fetching = desk.fetching + 1, !.page = "waiting"]
        <4> DEFINE n == desk.fetching + 1
        <4>1. n \in Nat
          BY Fetching
        <4> HIDE DEF n
        <4>2. desk' = [desk EXCEPT !.fetching = n, !.page = "waiting"]
          BY <3>2 DEF n
        <4> QED
          BY <4>1, <4>2, DeskTyped
      <3> QED
        BY <2>1, <3>1, <3>2
    <2>3. sock' = sock
      BY <1>4 DEF Activate, HandleSubmit
    <2> QED
      BY <2>2, <2>3 DEF OneSocket
  <1>5. CASE LoginFails
    <2>1. PICK page \in AfterAnswer("login") : desk' = [desk EXCEPT !.fetching = @ - 1, !.page = page]
      BY <1>5 DEF LoginFails
    <2>2. desk.fetching > 0 /\ desk.page # "off" /\ sock' = sock
      BY <1>5, Fetching DEF LoginFails
    <2>3. page \in {"closed", "login", "waiting", "main"}
      BY <2>2 DEF AfterAnswer, DeskRecord
    <2>4. desk' \in DeskRecord /\ desk'.page # "off" /\ desk'.current = desk.current
      BY <2>1, <2>2, <2>3, Fetching, DeskTyped
    <2> QED
      BY <2>2, <2>4 DEF OneSocket
  <1>6. CASE LogoutDesktop
    <2>1. /\ [desk EXCEPT !.tokens = "none", !.page = "login"] \in DeskRecord
          /\ [desk EXCEPT !.tokens = "none", !.page = "login"].page # "off"
      BY DEF DeskRecord
    <2> QED
      BY <1>6, <2>1, Disconnects DEF LogoutDesktop
  <1>7. CASE CloseWindow
    <2>1. [desk EXCEPT !.page = "closed"] \in DeskRecord /\ [desk EXCEPT !.page = "closed"].page # "off"
      BY DEF DeskRecord
    <2> QED
      BY <1>7, <2>1, Disconnects DEF CloseWindow
  <1>8. CASE Quit
    <2>1. desk' \in DeskRecord /\ desk'.current = NoSock /\ desk'.fetching = 0
      BY <1>8 DEF Quit, NewDesk, DeskRecord
    <2>2. sock' \in [Sock -> SockRecord] /\ \A t \in Sock : sock'[t].state = "free"
      BY <1>8, NoConnTyped DEF Quit
    <2> QED
      BY <2>1, <2>2 DEF OneSocket
  <1>9. CASE TokenExpires
    <2>1. desk' \in DeskRecord /\ desk'.current = desk.current /\ desk'.page = desk.page
          /\ desk'.fetching = desk.fetching
      BY <1>9 DEF TokenExpires, DeskRecord
    <2>2. sock' \in [Sock -> SockRecord] /\ \A t \in Sock : sock'[t].state = sock[t].state
      BY <1>9 DEF TokenExpires, SockRecord
    <2> QED
      BY <2>1, <2>2 DEF OneSocket
  <1> QED
    BY <1>1, <1>2, <1>3, <1>4, <1>5, <1>6, <1>7, <1>8, <1>9

(* The steps of a connection: the others stay as they are, which is unknown.  *)
LEMMA LinkPut ==
    ASSUME LinkInv, NEW l \in Link, NEW k \in LinkRecord, link' = [link EXCEPT ![l] = k],
           \A m \in Link : link[m] # NoLink => m = l,
           DeskInv', row' \in {"none", "ONLINE", "OFFLINE"}, told' \in {"none", "online", "offline"},
           k # NoLink => RowFollows(k, row', told'),
           k = NoLink => row' # "ONLINE" /\ told' # "online"
    PROVE  LinkInv'
  <1>1. link' \in [Link -> LinkRecord] /\ link'[l] = k /\ \A m \in Link \ {l} : link'[m] = NoLink
    BY DEF LinkInv, LinkTypeOK
  <1>2. LinkTypeOK' /\ OneSocket'
    BY <1>1 DEF LinkTypeOK, DeskInv
  <1>3. OneLink'
    BY <1>1 DEF OneLink
  <1>4. ASSUME NEW m \in Link, link'[m] # NoLink PROVE RowFollows(link'[m], row', told')
    <2>1. m = l
      BY <1>1, <1>4
    <2>2. k # NoLink
      BY <1>1, <1>4, <2>1
    <2> QED
      BY <1>1, <2>1, <2>2
  <1> QED
    BY <1>1, <1>2, <1>3, <1>4 DEF LinkInv

(* The connection whose handler runs is the one there is.                     *)
LEMMA TheLink ==
    ASSUME LinkInv, NEW l \in Link, link[l] # NoLink
    PROVE  /\ link[l] \in LinkRecord /\ RowFollows(link[l], row, told)
           /\ \A m \in Link : link[m] # NoLink => m = l
  BY DEF LinkInv, LinkTypeOK, OneLink

LEMMA NoLinkTyped ==
    /\ NoLink \in LinkRecord
    /\ ~NoLink.open /\ NoLink.asked = 0 /\ NoLink.reg = "none" /\ NoLink.off = "none"
  BY DEF NoLink, LinkRecord

LEMMA DeskAlone == ASSUME LinkInv, UNCHANGED <<desk, sock>> PROVE DeskInv'
  BY DEF LinkInv, LinkTypeOK, DeskInv, OneSocket

LEMMA Upserts == ASSUME LinkInv, NEW l \in Link, UpsertDevice(l) PROVE LinkInv'
  <1> DEFINE n == link[l].asked - 1
  <1> DEFINE k == [link[l] EXCEPT !.asked = n, !.reg = "upserted"]
  <1>1. link[l] # NoLink /\ link[l].asked > 0 /\ link[l].reg = "none"
    BY NoLinkTyped DEF UpsertDevice
  <1>2. link[l] \in LinkRecord /\ RowFollows(link[l], row, told)
    BY <1>1, TheLink
  <1>3. link' = [link EXCEPT ![l] = k]
    BY <1>2, ZenonT(30) DEF UpsertDevice, LinkRecord, LinkInv, LinkTypeOK
  <1>n. n \in Nat
    BY <1>1, <1>2 DEF LinkRecord
  <1> HIDE DEF n
  <1>4. /\ k \in LinkRecord /\ k.open = link[l].open /\ k.off = link[l].off
        /\ k.mapped = link[l].mapped /\ k.reg = "upserted"
    BY <1>1, <1>2, <1>n DEF LinkRecord
  <1> HIDE DEF k
  <1>5. row' = "ONLINE" /\ told' = told
    BY DEF UpsertDevice
  <1>6. link[l].open
    BY <1>1, <1>2 DEF RowFollows, LinkRecord
  <1>7. RowFollows(k, row', told') /\ k # NoLink
    BY <1>2, <1>4, <1>5, <1>6, NoLinkTyped DEF RowFollows
  <1>8. DeskInv'
    BY DeskAlone DEF UpsertDevice
  <1>9. told' \in {"none", "online", "offline"}
    BY <1>5 DEF LinkInv, LinkTypeOK
  <1> QED
    BY <1>1, <1>3, <1>4, <1>5, <1>7, <1>8, <1>9, TheLink, LinkPut

(* What is left of a connection when a handler ends. *)
LEMMA Settled ==
    ASSUME NEW k \in LinkRecord
    PROVE  Settle(k) = k \/ (Settle(k) = NoLink /\ ~k.open)
  BY DEF Settle

LEMMA Registers == ASSUME LinkInv, NEW l \in Link, HandleRegister(l) PROVE LinkInv'
  <1> DEFINE k == [link[l] EXCEPT !.reg = "none", !.mapped = TRUE]
  <1>1. link[l] # NoLink /\ link[l].reg = "upserted"
    BY NoLinkTyped DEF HandleRegister
  <1>2. link[l] \in LinkRecord /\ RowFollows(link[l], row, told)
    BY <1>1, TheLink
  <1>3. link' = [link EXCEPT ![l] = Settle(k)]
    BY DEF HandleRegister
  <1>4. /\ k \in LinkRecord /\ k.open = link[l].open /\ k.off = link[l].off
        /\ k.asked = link[l].asked /\ k.mapped /\ k.reg = "none"
    BY <1>1, <1>2 DEF LinkRecord
  <1> HIDE DEF k
  <1>5. link[l].open /\ row = "ONLINE"
    BY <1>1, <1>2 DEF RowFollows
  <1>6. Settle(k) = k
    BY <1>4, <1>5, Settled
  <1>7. row' = row /\ told' = "online"
    BY DEF HandleRegister
  <1>8. RowFollows(k, row', told') /\ k # NoLink
    BY <1>2, <1>4, <1>5, <1>7, NoLinkTyped DEF RowFollows
  <1>9. DeskInv' /\ row' \in {"none", "ONLINE", "OFFLINE"}
    BY <1>7, DeskAlone DEF HandleRegister, LinkInv, LinkTypeOK
  <1> QED
    BY <1>1, <1>3, <1>4, <1>6, <1>7, <1>8, <1>9, TheLink, LinkPut

(* It was mapped: a registration that the end overtakes is "dropped". *)
LEMMA Ends ==
    ASSUME LinkInv, NEW l \in Link, HandleDisconnect(l), ~Dropped PROVE LinkInv'
  <1>1. link[l] # NoLink /\ link[l].open
    BY NoLinkTyped DEF HandleDisconnect, Cut
  <1>2. link[l] \in LinkRecord /\ RowFollows(link[l], row, told)
    BY <1>1, TheLink
  <1>3. PICK asked \in {0, link[l].asked} :
           link' = [link EXCEPT ![l] = Settle([@ EXCEPT !.open = FALSE, !.asked = asked,
                                                        !.off = IF link[l].mapped THEN "query" ELSE "none"])]
    BY DEF HandleDisconnect
  <1> DEFINE off == IF link[l].mapped THEN "query" ELSE "none"
  <1> DEFINE k == [link[l] EXCEPT !.open = FALSE, !.asked = asked, !.off = off]
  <1>4. off \in {"none", "query"} /\ (link[l].mapped => off = "query")
    OBVIOUS
  <1>5. link' = [link EXCEPT ![l] = Settle(k)]
    BY <1>3
  <1> HIDE DEF off
  <1>6. asked \in Nat
    BY <1>2, <1>3 DEF LinkRecord
  <1>7. /\ k \in LinkRecord /\ ~k.open /\ k.off = off /\ k.reg = link[l].reg
        /\ k.asked = asked /\ k.mapped = link[l].mapped
    BY <1>2, <1>4, <1>6 DEF LinkRecord
  <1> HIDE DEF k
  <1>8. ~link'[l].open
    BY <1>5, <1>7, Settled, NoLinkTyped DEF LinkInv, LinkTypeOK
  <1>9. link[l].asked = 0 /\ link[l].reg = "none"
    BY <1>1, <1>2, <1>8 DEF Dropped, LinkRecord
  <1>10. link[l].mapped /\ k.asked = 0 /\ k.off = "query" /\ k.reg = "none"
    BY <1>1, <1>2, <1>4, <1>7, <1>9, <1>3 DEF RowFollows
  <1>11. Settle(k) = k /\ k # NoLink
    BY <1>10, NoLinkTyped DEF Settle
  <1>12. UNCHANGED <<row, told>>
    BY DEF HandleDisconnect
  <1>13. RowFollows(k, row', told')
    BY <1>1, <1>2, <1>7, <1>10, <1>12 DEF RowFollows
  <1>14. DeskInv' /\ row' \in {"none", "ONLINE", "OFFLINE"} /\ told' \in {"none", "online", "offline"}
    BY <1>12, DeskAlone DEF HandleDisconnect, LinkInv, LinkTypeOK
  <1> QED
    BY <1>1, <1>5, <1>7, <1>11, <1>13, <1>14, TheLink, LinkPut

LEMMA GoesOffline == ASSUME LinkInv, NEW l \in Link, SetOffline(l) PROVE LinkInv'
  <1> DEFINE k == [link[l] EXCEPT !.off = "tell"]
  <1>1. link[l] # NoLink /\ link[l].off = "query"
    BY NoLinkTyped DEF SetOffline
  <1>2. link[l] \in LinkRecord /\ RowFollows(link[l], row, told)
    BY <1>1, TheLink
  <1>3. row = "ONLINE" /\ ~link[l].open
    BY <1>1, <1>2 DEF RowFollows
  <1>4. link' = [link EXCEPT ![l] = Settle(k)] /\ row' = "OFFLINE" /\ told' = told
    BY <1>3 DEF SetOffline
  <1>5. /\ k \in LinkRecord /\ k.open = link[l].open /\ k.off = "tell" /\ k.reg = link[l].reg
        /\ k.asked = link[l].asked
    BY <1>2 DEF LinkRecord
  <1> HIDE DEF k
  <1>6. Settle(k) = k /\ k # NoLink
    BY <1>5, NoLinkTyped DEF Settle
  <1>7. RowFollows(k, row', told')
    BY <1>2, <1>3, <1>4, <1>5 DEF RowFollows
  <1>8. DeskInv' /\ told' \in {"none", "online", "offline"}
    BY <1>4, DeskAlone DEF SetOffline, LinkInv, LinkTypeOK
  <1> QED
    BY <1>1, <1>4, <1>5, <1>6, <1>7, <1>8, TheLink, LinkPut

LEMMA TellsOffline == ASSUME LinkInv, NEW l \in Link, TellOffline(l) PROVE LinkInv'
  <1> DEFINE k == [link[l] EXCEPT !.off = "none"]
  <1>1. link[l] # NoLink /\ link[l].off = "tell"
    BY NoLinkTyped DEF TellOffline
  <1>2. link[l] \in LinkRecord /\ RowFollows(link[l], row, told)
    BY <1>1, TheLink
  <1>3. link' = [link EXCEPT ![l] = Settle(k)] /\ row' = row /\ told' = "offline" /\ row # "ONLINE"
    BY <1>1, <1>2 DEF TellOffline, RowFollows
  <1>4. /\ k \in LinkRecord /\ k.open = link[l].open /\ k.off = "none" /\ k.reg = link[l].reg
        /\ k.asked = link[l].asked
    BY <1>2 DEF LinkRecord
  <1> HIDE DEF k
  <1>5. Settle(k) = NoLink
    BY <1>1, <1>2, <1>4 DEF Settle, RowFollows
  <1>6. DeskInv' /\ row' \in {"none", "ONLINE", "OFFLINE"}
    BY <1>3, DeskAlone DEF TellOffline, LinkInv, LinkTypeOK
  <1>7. link' = [link EXCEPT ![l] = NoLink]
    BY <1>3, <1>5
  <1> QED
    BY <1>1, <1>3, <1>6, <1>7, NoLinkTyped, TheLink, LinkPut

(* The registration of a connection that is accepted is emitted on the same   *)
(* socket, the only one there is.                                             *)
LEMMA Accepts ==
    ASSUME LinkInv, NEW s \in Sock, NEW l \in Link, Accepted(s, l), ~Overlap PROVE LinkInv'
  <1> DEFINE n == sock[s].buffered + 1
  <1> DEFINE k == [NoLink EXCEPT !.open = TRUE, !.asked = n]
  <1>1. desk.current = s /\ sock[s].state = "connecting" /\ link[l] = NoLink
    BY DEF Accepted, LinkInv, OneSocket
  <1>2. n \in Nat /\ n > 0
    BY DEF LinkInv, LinkTypeOK, SockRecord
  <1>3. /\ sock' = [t \in Sock |->
                      IF t = s THEN [sock[s] EXCEPT !.state = "up", !.via = l, !.buffered = 0]
                      ELSE sock[t]]
        /\ link' = [m \in Link |-> IF m = l THEN k ELSE link[m]]
    BY <1>1 DEF Accepted
  <1> HIDE DEF n
  <1>4. k \in LinkRecord /\ k.open /\ k.asked = n /\ k.reg = "none" /\ k.off = "none" /\ ~k.mapped
    BY <1>2 DEF NoLink, LinkRecord
  <1> HIDE DEF k
  <1>5. link' = [link EXCEPT ![l] = k] /\ link'[l] = k
    BY <1>3 DEF LinkInv, LinkTypeOK
  <1>6. \A m \in Link : link[m] = NoLink
    BY <1>1, <1>4, <1>5 DEF Overlap
  <1>7. RowFollows(k, row', told') /\ k # NoLink
    BY <1>2, <1>4, NoLinkTyped DEF RowFollows
  <1>8. DeskInv'
    <2>1. desk' = [desk EXCEPT !.status = "connected"]
      BY DEF Accepted
    <2>2. desk' \in DeskRecord /\ desk'.current = desk.current /\ desk'.page = desk.page
          /\ desk'.fetching = desk.fetching
      BY <2>1 DEF LinkInv, LinkTypeOK, DeskRecord
    <2>3. sock' \in [Sock -> SockRecord] /\ \A t \in Sock \ {s} : sock'[t] = sock[t]
      BY <1>3 DEF LinkInv, LinkTypeOK, SockRecord
    <2> QED
      BY <1>1, <2>2, <2>3 DEF DeskInv, LinkInv, OneSocket
  <1>9. row' \in {"none", "ONLINE", "OFFLINE"} /\ told' \in {"none", "online", "offline"}
    BY DEF Accepted, LinkInv, LinkTypeOK
  <1> QED
    BY <1>4, <1>5, <1>6, <1>7, <1>8, <1>9, LinkPut

LEMMA LinkStep == ASSUME LinkInv, LinkNext, LinkExcuses = {} PROVE LinkInv'
  <1>1. ~Overlap /\ ~TwoLogins /\ ~Dropped /\ ~RegistryFault
    BY DEF LinkExcuses, When
  <1>2. DeskInv
    BY DEF LinkInv, LinkTypeOK, DeskInv
  <1>3. ASSUME DeskInv', UNCHANGED <<link, row, told>> PROVE LinkInv'
    BY <1>3 DEF LinkInv, LinkTypeOK, OneLink, DeskInv
  <1> QED
    BY <1>1, <1>2, <1>3, DeskStep, Accepts, Upserts, Registers, Ends, GoesOffline, TellsOffline
       DEF LinkNext, Registry, RegistryFault

LEMMA LinkStutters == ASSUME UNCHANGED linkVars PROVE LinkInv' = LinkInv
  BY DEF linkVars, LinkInv, LinkTypeOK, OneSocket, OneLink

(* The scene of the desktop, until something happens that it does not handle. *)
LinkScene == scene = "link" /\ excused = {} => LinkInv

LEMMA LinkInvariance == Spec => []LinkScene
  <1>1. Init => LinkScene
    BY LinkInitRight DEF Init, LinkScene
  <1>2. LinkScene /\ [Next]_allVars => LinkScene'
    <2> SUFFICES ASSUME LinkScene, [Next]_allVars, scene' = "link", excused' = {} PROVE LinkInv'
      BY DEF LinkScene
    <2>1. scene = "link"
      BY DEF Next, allVars
    <2>2. CASE LinkNext /\ excused' = excused \cup LinkExcuses
      <3>1. excused = {} /\ LinkExcuses = {}
        BY <2>2
      <3> QED
        BY <2>1, <2>2, <3>1, LinkStep DEF LinkScene
    <2>3. CASE UNCHANGED allVars
      BY <2>1, <2>3, LinkStutters DEF LinkScene, allVars
    <2> QED
      BY <2>1, <2>2, <2>3 DEF Next
  <1> QED
    BY <1>1, <1>2, PTL DEF Spec

(* handleRegister and handleDisconnect: when nothing is under way, the        *)
(* registry and the user know whether the desktop is connected, across any    *)
(* logins, logouts, windows closed, lost transports and expired tokens.       *)
THEOREM RegistryAgrees == Spec => []OnlineIffLinked
  <1>1. LinkScene => OnlineIffLinked
    <2> SUFFICES ASSUME LinkInv,
                        \A l \in Link : link[l].asked = 0 /\ link[l].reg = "none" /\ link[l].off = "none"
                 PROVE  /\ row = "ONLINE" <=> \E l \in Link : link[l].open
                        /\ row = "ONLINE" <=> told = "online"
      BY DEF LinkScene, OnlineIffLinked
    <2>1. ASSUME NEW l \in Link, link[l] # NoLink
          PROVE  link[l].open /\ row = "ONLINE" /\ told = "online"
      BY <2>1 DEF LinkInv, RowFollows
    <2>2. CASE \A l \in Link : link[l] = NoLink
      BY <2>2, NoLinkTyped DEF LinkInv
    <2> QED
      BY <2>1, <2>2
  <1> QED
    BY <1>1, LinkInvariance, PTL
=============================================================================
