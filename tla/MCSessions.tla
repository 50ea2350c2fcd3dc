------------------------------ MODULE MCSessions ------------------------------
(***************************************************************************)
(* Auth, DeviceLink and Presence on small instances.  The three keep apart  *)
(* in the code as well (sessions, registry, presence), so a behaviour shows *)
(* one of them, its scene, and the others stay in their initial state.      *)
(***************************************************************************)
EXTENDS Auth, DeviceLink, Presence

VARIABLES scene,
          excused   \* what has happened that the code is known not to handle

allVars == <<authVars, linkVars, presenceVars, scene, excused>>

SameAccount == [p \in Phone |-> "user"]

Init ==
    /\ AuthInit /\ LinkInit /\ PresenceInit
    /\ scene \in {"auth", "link", "presence"}
    /\ excused = {}

When(condition, name) == IF condition THEN {name} ELSE {}

-----------------------------------------------------------------------------
(* A socket that connects again before the server has noticed the end of its    *)
(* last connection; a login that ends after another one; a registration that    *)
(* the end of its connection overtakes; a fault of the server.                  *)
Overlap == \E l, m \in Link : link[l] # NoLink /\ link[m] = NoLink /\ link'[m].open
TwoLogins == /\ desk.current # NoSock /\ sock[desk.current].state # "denied"
             /\ desk'.current \notin {desk.current, NoSock}
Dropped == \E l \in Link : /\ link[l].open /\ ~link'[l].open
                           /\ (link[l].asked > 0 \/ link[l].reg # "none")
RegistryFault == RemoveDevice \/ GatewayCrash \/ \E l \in Link : RegistryFails(l)

LinkExcuses == When(Overlap, "overlap") \cup When(TwoLogins, "two logins")
               \cup When(Dropped, "dropped") \cup When(RegistryFault, "fault")

(* The last disconnect, overtaken by a connect or an update; a connection that  *)
(* ends while it is set up; a fault.  A behaviour is followed until then.       *)
Busy(c) == conn[c].enter # "none" \/ conn[c].update # "none"
Overtaken == \E c, d \in Conn : conn[c].leave \in {"redis", "row", "still", "friends"} /\ Busy(d)
CutShort == \E c \in Conn : conn[c].leave # "none" /\ Busy(c)
Broken == {"overtaken", "cut short", "fault"}

(* These only make the friends see another status than the stored one: the key  *)
(* expires, a second device comes online over IDLE or DND, two updates at once. *)
Resets == \E c \in Conn : SetOnline(c) /\ key \notin {"ONLINE", "none"}
Rivals == \E c, d \in Conn : /\ conn[c].update # "none"
                             /\ \/ c # d /\ conn[d].update # "none"
                                \/ conn[d].enter # "none"
PresenceExcuses ==
    When(Overtaken', "overtaken") \cup When(CutShort', "cut short")
    \cup When(StatusExpires, "expired") \cup When(faults' # faults /\ ~StatusExpires, "fault")
    \cup When(Resets, "reset") \cup When(Rivals', "rivals")

-----------------------------------------------------------------------------
Next ==
    /\ UNCHANGED scene
    /\ \/ /\ scene = "auth" /\ AuthNext
          /\ UNCHANGED <<linkVars, presenceVars, excused>>
       \/ /\ scene = "link" /\ LinkNext
          /\ excused' = excused \cup LinkExcuses
          /\ UNCHANGED <<authVars, presenceVars>>
       \/ /\ scene = "presence" /\ excused \cap Broken = {} /\ PresenceNext
          /\ excused' = excused \cup PresenceExcuses
          /\ UNCHANGED <<authVars, linkVars>>

(* The server and the clients' own steps go on.  A slot is the model's: a       *)
(* refresh is not kept waiting by other calls.                                  *)
Fairness ==
    /\ \A k \in Call : WF_authVars(Serve(k))
    /\ \A p \in Phone : /\ SF_authVars(\E h \in Call : RefreshAccessToken(p, h))
                        /\ WF_authVars(\E h \in Call : TakeRefresh(p, h))
                        /\ WF_authVars(SaveTokens(p)) /\ WF_authVars(Retry(p))
    /\ \A l \in Link : WF_linkVars(Registry(l))

Spec == Init /\ [][Next]_allVars /\ Fairness

-----------------------------------------------------------------------------
(* A request that met a 401 gets an answer, unless an earlier retry failed and  *)
(* the interceptor waits for itself (AuthInterceptor.onError).  No behaviour     *)
(* signs more than MaxTokens.                                                   *)
RequestsReturn ==
    \A p \in Phone : phone[p].waiting > 0 ~> \/ phone[p].waiting = 0
                                             \/ phone[p].pc = "stuck"
                                             \/ Len(login) = MaxTokens

(* When nothing is under way, the registry says ONLINE exactly while the desktop *)
(* is connected, and so was the user told, across logins, logouts, windows       *)
(* closed, lost transports and expired tokens (handleRegister, handleDisconnect). *)
OnlineIffLinked ==
    scene = "link" /\ excused = {}
    /\ (\A l \in Link : ~Cut(l) /\ link[l].asked = 0 /\ link[l].reg = "none" /\ link[l].off = "none")
    => /\ row = "ONLINE" <=> \E l \in Link : link[l].open
       /\ row = "ONLINE" <=> told = "online"

(* A desktop that has logged out is off the registry some time later, even when  *)
(* its connections overlapped (auth:logout, handleDisconnect).                   *)
LogoutDetaches ==
    desk.tokens = "none" /\ desk.fetching = 0
    ~> row # "ONLINE" \/ desk.tokens # "none" \/ excused \ {"overlap"} # {}

AllIdle == \A c \in Conn : conn[c].enter = "none" /\ conn[c].leave = "none" /\ conn[c].update = "none"

(* When the handlers are done, the user is online, in Redis, in the row and for   *)
(* the friends, exactly while a connection is open (setOnline, setOffline).       *)
OnlineIffConnected ==
    scene = "presence" /\ AllIdle /\ excused \cap Broken = {}
    => /\ online <=> \E c \in Conn : conn[c].open
       /\ saved = "OFFLINE" <=> ~online
       /\ friendsTold = "OFFLINE" <=> ~online

(* And the friends have seen the status that is stored.                           *)
ToldIsStatus ==
    scene = "presence" /\ AllIdle /\ excused = {}
    => friendsTold = GetStatus /\ saved = GetStatus
=============================================================================
