------------------------------- MODULE DeviceLink -------------------------------
(***************************************************************************)
(* A desktop and its row in the device registry.  The desktop is the main   *)
(* process of apps/desktop: the login ipc, AuthStore, WsClientService and    *)
(* the window with its page.  The server is DeviceGateway and DevicesService *)
(* (apps/server/src/gateway, devices) behind the token check of the socket   *)
(* middleware.                                                               *)
(*                                                                           *)
(* A Sock is an object io() returned; it reconnects by itself unless the     *)
(* server denied its token.  A Link is one connection of a Sock, as the      *)
(* server sees it: it may learn of its end much later than the desktop.      *)
(***************************************************************************)
EXTENDS Naturals, FiniteSets

CONSTANTS Sock, NoSock, Link,
          MaxLogins, MaxTrouble   \* bounds: logins sent, events of the world

ASSUME NoSockAssumption == NoSock \notin Sock
ASSUME LinkBoundsAssumption == {MaxLogins, MaxTrouble} \subseteq Nat

VARIABLES desk,      \* the main process and its window
          sock,      \* sock[s]: the sockets of the main process
          link,      \* link[l]: the handlers and map entry of a connection
          row,       \* status of the Device row, "none" without a row
          told,      \* the last device:status:changed the user was sent
          logins, trouble

linkVars == <<desk, sock, link, row, told, logins, trouble>>

(* tokens: AuthStore.  current: this.socket.  fetching: calls of auth:login    *)
(* under way.  page: of the window, "closed" without one, "off" when the       *)
(* application does not run.                                                   *)
NewDesk == [tokens |-> "none", current |-> NoSock, status |-> "disconnected",
            fetching |-> 0, page |-> "off"]

(* via: its connection when it is up.  buffered: device:register emitted before. *)
NoConn == [state |-> "free", token |-> "none", via |-> "none", buffered |-> 0]

(* asked: device:register received.  reg, off: where handleRegister and        *)
(* handleDisconnect are.  mapped: socketDeviceMap has the connection.          *)
NoLink == [open |-> FALSE, asked |-> 0, reg |-> "none", off |-> "none",
           mapped |-> FALSE]

LinkInit ==
    /\ desk = NewDesk
    /\ sock = [s \in Sock |-> NoConn]
    /\ link = [l \in Link |-> NoLink]
    /\ row = "none" /\ told = "none" /\ logins = 0 /\ trouble = 0

Trouble == trouble < MaxTrouble /\ trouble' = trouble + 1
Running == desk.page # "off"

-----------------------------------------------------------------------------
(* connect(): a new socket, with the token of now, replaces this.socket.  A    *)
(* denied one that is replaced can do nothing any more.                        *)
ConnectWith(s, d) ==
    /\ sock[s].state = "free"
    /\ sock' = [t \in Sock |->
                  IF t = s THEN [NoConn EXCEPT !.state = "connecting", !.token = d.tokens]
                  ELSE IF sock[t].state = "denied" THEN NoConn ELSE sock[t]]
    /\ desk' = [d EXCEPT !.current = s, !.status = "connecting"]

(* disconnect(): the server is told as soon as the packet arrives. *)
DisconnectWith(d) ==
    /\ sock' = IF desk.current = NoSock THEN sock ELSE [sock EXCEPT ![desk.current] = NoConn]
    /\ desk' = [d EXCEPT !.current = NoSock, !.status = "disconnected"]

OpenPage(d) == [d EXCEPT !.page = IF d.tokens = "none" THEN "login" ELSE "main"]

(* whenReady: the window opens; with tokens in the store, connect. *)
StartApp(s) ==
    /\ desk.page = "off"
    /\ IF desk.tokens = "none" THEN desk' = OpenPage(desk) /\ UNCHANGED sock
       ELSE ConnectWith(s, OpenPage(desk))
    /\ UNCHANGED <<link, row, told, logins, trouble>>

(* activate: a window for an application that has none; nothing is connected. *)
Activate ==
    /\ desk.page = "closed"
    /\ desk' = OpenPage(desk)
    /\ UNCHANGED <<sock, link, row, told, logins, trouble>>

(* handleSubmit of the login page; the form is disabled until the answer. *)
HandleSubmit ==
    /\ desk.page = "login" /\ logins < MaxLogins
    /\ desk' = [desk EXCEPT !.page = "waiting", !.fetching = @ + 1]
    /\ logins' = logins + 1
    /\ UNCHANGED <<sock, link, row, told, trouble>>

(* A page that waits takes its own answer only, not that of an earlier page. *)
AfterAnswer(page) == IF desk.page # "waiting" THEN {desk.page}
                     ELSE IF desk.fetching = 1 THEN {page} ELSE {page, "waiting"}

(* auth:login is answered: AuthStore.save and connect, with or without a page. *)
LoginSucceeds(s) ==
    /\ desk.fetching > 0
    /\ \E page \in AfterAnswer("main") :
          ConnectWith(s, [desk EXCEPT !.tokens = "good", !.fetching = @ - 1, !.page = page])
    /\ UNCHANGED <<link, row, told, logins, trouble>>

LoginFails ==
    /\ Trouble /\ desk.fetching > 0
    /\ \E page \in AfterAnswer("login") : desk' = [desk EXCEPT !.fetching = @ - 1, !.page = page]
    /\ UNCHANGED <<sock, link, row, told, logins>>

(* Mutant: only the tokens are forgotten. *)
LogoutClears ==
    /\ desk.page = "main"
    /\ desk' = [desk EXCEPT !.tokens = "none", !.page = "login"]
    /\ UNCHANGED <<sock, link, row, told, logins, trouble>>

(* auth:logout, and the page goes back to the login form. *)
LogoutDesktop ==
    /\ desk.page = "main"
    /\ DisconnectWith([desk EXCEPT !.tokens = "none", !.page = "login"])
    /\ UNCHANGED <<link, row, told, logins, trouble>>

(* window-all-closed: disconnect; on darwin the application stays. *)
CloseWindow ==
    /\ Trouble /\ desk.page \notin {"off", "closed"}
    /\ DisconnectWith([desk EXCEPT !.page = "closed"])
    /\ UNCHANGED <<link, row, told, logins>>

Quit ==
    /\ Trouble /\ Running
    /\ desk' = [NewDesk EXCEPT !.tokens = desk.tokens]
    /\ sock' = [s \in Sock |-> NoConn]
    /\ UNCHANGED <<link, row, told, logins>>

(* The access token is 15 minutes old: nothing renews it, here or in a socket. *)
TokenExpires ==
    /\ Trouble /\ desk.tokens = "good"
    /\ desk' = [desk EXCEPT !.tokens = "old"]
    /\ sock' = [s \in Sock |-> [sock[s] EXCEPT !.token = IF @ = "good" THEN "old" ELSE @]]
    /\ UNCHANGED <<link, row, told, logins>>

-----------------------------------------------------------------------------
(* The handlers of the desktop's sockets: on connect, registerDevice emits on  *)
(* this.socket, whichever of them connected.                                   *)
Accepted(s, l) ==
    /\ sock[s].state = "connecting" /\ sock[s].token = "good"
    /\ link[l] = NoLink
    /\ LET c == desk.current
           mine == IF c = s THEN 1 ELSE 0
       IN /\ sock' = [t \in Sock |->
                        IF t = s THEN [sock[s] EXCEPT !.state = "up", !.via = l, !.buffered = 0]
                        ELSE IF t = c /\ sock[c].state # "up"
                        THEN [sock[c] EXCEPT !.buffered = @ + 1] ELSE sock[t]]
          /\ link' = [m \in Link |->
                        IF m = l
                        THEN [NoLink EXCEPT !.open = TRUE, !.asked = sock[s].buffered + mine]
                        ELSE IF c \notin {s, NoSock} /\ sock[c].via = m
                        THEN [link[m] EXCEPT !.asked = @ + 1] ELSE link[m]]
    /\ desk' = [desk EXCEPT !.status = "connected"]
    /\ UNCHANGED <<row, told, logins, trouble>>

(* connect_error: the middleware refused the token; the socket gives up. *)
Denied(s) ==
    /\ sock[s].state = "connecting" /\ sock[s].token = "old"
    /\ sock' = [sock EXCEPT ![s].state = "denied"]
    /\ desk' = [desk EXCEPT !.status = "disconnected"]
    /\ UNCHANGED <<link, row, told, logins, trouble>>

TransportLost(s) ==
    /\ Trouble /\ sock[s].state = "up"
    /\ sock' = [sock EXCEPT ![s].state = "connecting", ![s].via = "none"]
    /\ desk' = [desk EXCEPT !.status = "disconnected"]
    /\ UNCHANGED <<link, row, told, logins>>

-----------------------------------------------------------------------------
(* A connection that is closed and has no handler left is forgotten; its entry *)
(* of the map, should one be left behind, has no effect: ids are never reused. *)
Settle(k) == IF ~k.open /\ k.asked = 0 /\ k.reg = "none" /\ k.off = "none" THEN NoLink ELSE k

(* handleRegister: upsertDevice, then the room, the map and the broadcast.     *)
UpsertDevice(l) ==
    /\ link[l].asked > 0 /\ link[l].reg = "none"
    /\ row' = "ONLINE"
    /\ link' = [link EXCEPT ![l].asked = @ - 1, ![l].reg = "upserted"]
    /\ UNCHANGED <<desk, sock, told, logins, trouble>>

(* Mutant: the connection is not remembered. *)
HandleRegisterNoMap(l) ==
    /\ link[l].reg = "upserted"
    /\ link' = [link EXCEPT ![l] = Settle([@ EXCEPT !.reg = "none"])]
    /\ told' = "online"
    /\ UNCHANGED <<desk, sock, row, logins, trouble>>

HandleRegister(l) ==
    /\ link[l].reg = "upserted"
    /\ link' = [link EXCEPT ![l] = Settle([@ EXCEPT !.reg = "none", !.mapped = TRUE])]
    /\ told' = "online"
    /\ UNCHANGED <<desk, sock, row, logins, trouble>>

(* The desktop's end is gone. *)
Cut(l) == link[l].open /\ \A s \in Sock : sock[s].via # l

(* handleDisconnect reads the map at once: a registration still under way is   *)
(* not in it.  What was sent before the end may have arrived or not.           *)
HandleDisconnect(l) ==
    /\ Cut(l)
    /\ \E asked \in {0, link[l].asked} :
          link' = [link EXCEPT ![l] = Settle([@ EXCEPT !.open = FALSE, !.asked = asked,
                                                       !.off = IF link[l].mapped THEN "query" ELSE "none"])]
    /\ UNCHANGED <<desk, sock, row, told, logins, trouble>>

(* setOffline rejects when the row was removed: logged, nobody is told. *)
SetOffline(l) ==
    /\ link[l].off = "query"
    /\ row' = IF row = "none" THEN row ELSE "OFFLINE"
    /\ link' = [link EXCEPT ![l] = Settle([@ EXCEPT !.off = IF row = "none" THEN "none" ELSE "tell"])]
    /\ UNCHANGED <<desk, sock, told, logins, trouble>>

TellOffline(l) ==
    /\ link[l].off = "tell"
    /\ link' = [link EXCEPT ![l] = Settle([@ EXCEPT !.off = "none"])]
    /\ told' = "offline"
    /\ UNCHANGED <<desk, sock, row, logins, trouble>>

(* A query of the handlers fails. *)
RegistryFails(l) ==
    /\ Trouble
    /\ \/ /\ link[l].asked > 0 /\ link[l].reg = "none"
          /\ link' = [link EXCEPT ![l] = Settle([@ EXCEPT !.asked = @ - 1])]
       \/ /\ link[l].off = "query"
          /\ link' = [link EXCEPT ![l] = Settle([@ EXCEPT !.off = "none"])]
    /\ UNCHANGED <<desk, sock, row, told, logins>>

(* DevicesService.remove: the row goes, the connection stays, nobody is told. *)
RemoveDevice ==
    /\ Trouble /\ row # "none"
    /\ row' = "none"
    /\ UNCHANGED <<desk, sock, link, told, logins>>

(* The server ends and starts again: no handleDisconnect, no map. *)
GatewayCrash ==
    /\ Trouble
    /\ link' = [l \in Link |-> NoLink]
    /\ sock' = [s \in Sock |-> IF sock[s].state = "up" 
                               THEN [sock[s] EXCEPT !.state = "connecting", !.via = "none"]
                               ELSE sock[s]]
    /\ desk' = IF desk.status = "connected" THEN [desk EXCEPT !.status = "disconnected"] ELSE desk
    /\ UNCHANGED <<row, told, logins>>

Registry(l) ==
    \/ UpsertDevice(l) \/ HandleRegister(l) \/ HandleDisconnect(l)
    \/ SetOffline(l) \/ TellOffline(l)

LinkNext ==
    \/ \E s \in Sock : StartApp(s) \/ LoginSucceeds(s) \/ Denied(s) \/ TransportLost(s)
    \/ \E s \in Sock, l \in Link : Accepted(s, l)
    \/ \E l \in Link : Registry(l) \/ RegistryFails(l)
    \/ Activate \/ HandleSubmit \/ LoginFails \/ LogoutDesktop \/ CloseWindow \/ Quit
    \/ TokenExpires \/ RemoveDevice \/ GatewayCrash

LinkSpec == LinkInit /\ [][LinkNext]_linkVars
=============================================================================
