# Verification of linkingChat

TLA+ models of linkingChat, TLC runs over small instances of them, and theorems
proved with TLAPS. Paths are relative to the repository; `server/` stands for
`src/apps/server/src/`, `renderer/` for `src/apps/desktop/src/renderer/`.

linkingChat is a NestJS server (PostgreSQL through Prisma, Redis, Socket.IO), an
Electron desktop client that chats and executes commands, and a Flutter phone
client. The server is one Node process: between two `await`s a handler runs alone,
and at every `await` another handler, a timer or an event of a child process may
run. Most of what can go wrong here follows from that: a value is read in one
query, checked in JavaScript, and relied on in a later query. The clients add what
networks do: pushes, answers and pages of the same messages arrive in any order.

## 1. Inventory

| Part | State | Operations | Interacts with | Hard behaviour | What makes it correct |
|---|---|---|---|---|---|
| Groups: `server/converses` | `Converse`, `ConverseMember` (role, mute, joinedAt), `GroupBan` rows | create, add, remove, role, mute, ban, leave, delete | Messages (membership, mute), Broadcast | every handler is 3 to 6 queries; only some writes are in a transaction | one owner, no banned member, capacity, the permission matrix |
| Draft: `server/ai/services/draft.service.ts` | `AiDraft` row, Redis key, `setTimeout` | create, approve, edit, reject, expire | gateways, bots, command execution | verdicts against verdicts and the timer; restart loses timers | what is told stays true, handed out as approved, everything is decided |
| Gateway manager: `server/openclaw` | Map of child processes, set of used ports | start, stop, status, shutdown | child processes | events of children that the Map has forgotten; two timeouts | ports exclusive and never lost, every child in hand, calls return |
| Remote command: phone provider, `DeviceGateway`, `CommandsService`, desktop | `commands` rows, rooms, phone state, timers, socket buffers | execute, cancel, result, reconnect | three programs over sockets | messages lost or late, timers of old commands, restarts | results match commands, nothing runs twice, waits end |
| Friends: `server/friends` | `FriendRequest`, `Friendship`, `UserBlock`, direct `Converse` | send, accept, reject, remove, block | Converses | crossed requests, blocks in between | consent, block ends contact, conversation follows friendship |
| Messages: `server/messages` | `Message` rows, `lastMessageId` | create, edit, delete, page | Groups, Broadcast, Mentions, Bots, Whisper | concurrent creates, page boundaries | preview is the newest, nobody is left untold |
| Read cursors: `ChatGateway.handleMessageRead`, `getUnreadCount` | `lastSeenMessageId` | read, count, list | Messages | read, compare and write apart | what was read is never unread again |
| Rooms and broadcasts: `server/gateway` | Socket.IO rooms | join, leave, emit | everything that pushes | two pushes at two moments, sockets moving in between | every member is told |
| Desktop chat: `renderer/` hooks, store and pages | message list, cursor, badge, rooms joined | page, send, receive, read, reconnect | Messages, ChatGateway | push, answer and page of one message in any order | every message is shown once, as it is stored, and counted as read |
| Auth: `server/auth`, and the phone's `AuthInterceptor`, repository and provider | `RefreshToken` rows; secure storage, queue of errors | register, login, refresh, logout, retry | both | one token presented twice; a crash in the middle of a rotation; an interceptor that waits for itself | one token per session; ended sessions stay ended; requests return |
| Device registry: `DeviceGateway`, `DevicesService`; desktop session: login ipc, `WsClientService`, window | `Device` row, `socketDeviceMap`; tokens, sockets | login, connect, register, disconnect, remove, logout | Remote command | overlapping sockets of one device, late disconnects | ONLINE exactly while connected; logout detaches |
| Presence: `server/gateway/presence.service.ts` | Redis set of sockets, status key with TTL, `User.status` | connect, disconnect, update | ChatGateway | counts and deletes in separate round trips; expiry | online exactly while connected; friends know |
| Mentions, Whisper, Predictive, LLM router: `server/mentions`, `server/ai` | calls nobody awaits, `AiSuggestion` rows, timers of providers | trigger, complete, fall back, store, dispatch | Messages, Bots | timeouts against fallbacks, one message on two ways | calls end in time, a mentioned bot is dispatched to |
| Bots: `server/bots` | `Bot` rows, DM conversations, rate windows | create, delete, send, route | Messages, LLM | two rows read apart, windows that reset | bounded rates |
| Agents: `server/agents` | event buffer, debounce timer | addEvent, flush, dispatch | Bots | | not reached by the program (section 8) |
| Mobile chat, OpenClaw client, users, profile, upload, shared types, screens | see section 8 | | | | |

`PROJECT.json` gives the sources and the status of each, and under `hazards` the
line where each hard behaviour bites, with the properties that watch it.

## 2. Modules

| Module | Models | Correspondence |
|---|---|---|
| `GroupPolicy` | what the group operations promise: each one an atomic step guarded by the permission matrix of the service's comments | abstract, state shared with `Groups` |
| `Groups` | `ConversesService` on one group and the mute check of `MessagesService.create` | `h[s]` is the handler on session `s`: its `pc` names the query it makes next and its other fields what it read. Every query is an action, a `$transaction` is one action. `Fail` ends a handler at any query |
| `DraftMachine` | the state machine in the class comment of `DraftService` | abstract |
| `Draft` | `DraftService` | one action per await; `timer[d]` is the `setTimeout`, lost by `Crash`; `Fail` is a rejected call; `content[d]` is the text of the row, which every edit may set to another one, and `handed[d]` what callers got to execute |
| `GatewayManager` | `GatewayManagerService` | one action per JavaScript turn; an instance is one `UserGateway` object with its child, which its event handlers keep after the Map has dropped it; `starting` and `stopping` are the calls that wait |
| `DeviceCommand` | `CommandNotifier` (phone), `DeviceGateway` and `CommandsService`, `WsClientService` and `CommandExecutor` (desktop) | what is on its way is a set or a sequence per socket: `sent`, `inbox`, `orders`, `results`, `outbox`. A desktop may have several sockets in its room, for `connect()` closes none; `complete` is two queries and may fail. Socket.IO (delivery while connected, buffering on the client) is external |
| `Friends` | `FriendsService` | as `Groups`; the transaction of `blockUser` is cut between its read and its writes, as READ COMMITTED allows |
| `Messages` | `MessagesService`, the rooms and read receipts of `ChatGateway`, `BroadcastService`, the listing and the unread count of `ConversesService`, on one conversation | `h[s]` is the handler on slot `s`, one step per query together with what runs until the next await; `wire[c]` is what was emitted to socket `c`. A request of a client keeps its slot until the client takes the answer |
| `ChatClient` | the desktop's `useChatSocket`, `chatStore`, `ChatThread`, `MessageInput`, `ChatPage`, `ConversationList` | EXTENDS `Messages` and shares its sockets and handlers: a step is one JavaScript turn with the React effects it sets off, named at the state they depend on. `up` is what it emitted and the server has not handled; an answer is taken at any later moment |
| `Auth` | `AuthService` with its rotating refresh tokens; the phone's login form, storage and `AuthInterceptor` | a refresh token is a number in the order of signing, `login[t]` the session it belongs to; `call[k]` is a call of the server, one step per query, `phone[p]` the storage and what the interceptor does with the first of its queued errors |
| `DeviceLink` | a desktop (login ipc, `AuthStore`, `WsClientService`, window) and its `Device` row (`DeviceGateway`, `DevicesService`) | `sock[s]` is an object `io()` returned, `link[l]` one connection of it as the server sees it, with the handlers that run for it |
| `Presence` | `PresenceService` and the handlers of `ChatGateway` that call it, for one user | `conn[c]` holds where the three handlers of a connection are; one step per round trip to Redis or the database |
| `Assist` | what a message sets going besides its delivery: `handleGroupMentions`, `MentionService`, whisper trigger, `PredictiveService`, `routeViaSupervisor`, and `LlmRouterService` with its providers | `task[t]` is an asynchronous call that nobody awaits; `left` counts the seconds of its provider's timer |
| `Bots` | `BotInitService`, `BotsService`, `sendBotMessage` | one step per query; `rateLimit[a][b]` is the window of a pair |
| `MC*` | instances for TLC | symmetry, who uses which session, scenes, history variables |
| `*Proofs` | theorems | extend the module they are about; where a property reads history, the MC module that records it (`FriendsProofs`, `GatewayManagerProofs`, `DeviceCommandProofs`, `AssistProofs`, `SessionsProofs`, which is about `Auth`, `DeviceLink` and `Presence`, and `MessagesProofs`, which is about `MCMessages` and `MCChatClient`) |

Abstractions. Names, texts, prompts and payloads are left out: a message's content
is the number of its edits, the text of a trigger is which of the patterns it
contains. An identifier is a model value, or a number where the code compares
order. The database is the rows of one group, one conversation, a few drafts or a
few users; a query is atomic, a unique key makes a write fail, and a failed
transaction leaves no trace. Time is reduced to what the code compares: a mute is
running or over, a draft is due or not, an access token good or old, `createdAt` is
a number that several messages may share, a timer is its seconds left where its
length matters (`Assist`, `Bots`) and an action that may fire where it does not.
Constants such as `MaxFaults`, `MaxRequests`, `MaxMoves`, `MaxTrouble`, `Instance`
and `Command` bound how often the environment acts; they appear in guards only.

Mutant operators. An operator marked `Mutant` stands next to the action it
would replace. It is used by no specification: substituted for the action, it
shows that the property named for it in `PROJECT.json` can fail.

## 3. Runs

Every property is stated in words above its definition.

| Run | Instance | Distinct states | Asks |
|---|---|---|---|
| `groups_serial` | 4 users, capacity 3, one handler at a time, all operations, faults | 178 990 | Do the handlers, one at a time and failing anywhere, implement `GroupPolicy`? |
| `groups_overlap` | 3 users, capacity 2, two handlers of any accounts; create, add, remove, role, ban, unban, leave; one kind of meeting | 712 531 | What survives overlap, and which meetings of handlers are the only ones to break the rest? |
| `groups_ownerless` | 3 users, a handler each; create, leave | violation | Is a live group always owned? No |
| `draft_overlap` | 1 draft, 2 texts, 3 handlers, 2 faults | 139 147 | Does the service follow `DraftMachine` until two verdicts meet, crashes included; is what clients and callers are told true; is every draft decided and every approval handed out when nothing fails? |
| `draft_crossed` | 1 draft, 2 texts, 2 handlers, no faults | violation | Is a verdict final? No |
| `gateway_all` | 2 users, 2 ports; "storm": 2 starts, anything happens; "peace": 3 starts, only calls overlap | 65 894 | Is a port ever lost, shared, a child out of hand, a call left waiting? |
| `command_all` | 1 phone, 2 commands, 2 sockets of the desktop, six kinds of disturbance (`BoundedNext`) | 207 863 | Is what the phone shows stored and its own, how often does a command run, do rows and waits come to an end, and what has to happen before one does not? |
| `friends_pairs` | 3 users, 2 handlers, 2 requests, pairs sharing a user | 219 270 | What survives any overlap (consent, conversation), and what only the overlap of handlers of the same pair can break? |
| `messages` | 2 users, the reader with 2 sockets, 2 handlers, page size 1, 2 messages, 1 member change, 1 fault | 1 270 794 | Is the preview the newest message, does a receipt hold, is every socket of a member told? |
| `chat_client` | 1 desktop with its socket, 2 handlers, page size 1, 2 messages, 1 edit, 1 move, 1 fault, `MaxTrouble` 2 | 1 159 039 | Is every message shown once, as it is stored, none left out, and counted as read? |
| `sessions` | scenes `auth` (1 phone, 2 calls, 3 tokens, 2 requests, 1 mishap), `link` (3 sockets, 3 connections, 2 logins, 2 troubles), `presence` (2 connections, 3 connects, 1 update, 1 fault) | 351 645 | One token per session, ended sessions stay ended, requests return; the registry says ONLINE while the desktop is connected, logout detaches it; the same of the user, and his friends know |
| `assistants` | scenes `assist` (2 calls, 1 message, 1 query failure, timers 1, 2 and 4 s), `bots` (limit 2, window 2, 5 sends, 2 bots, 1 failure) | 476 005 | How long a call of a model lasts, whether a mentioned bot is dispatched to, how often a bot sends |

Scenes. Components that share no state share a run: a behaviour shows one scene and
the state of the others stays as it was, so the run is the sum of theirs and not the
product. `gateway_all` uses the same device for two instances of one component.

History variables. `met` (groups), `happened` (gateway, command), `started` (command),
`crossed` (drafts, friends, messages), `raced`, `fresh`, `acked`, `told`, `late`
(messages), `excused` (chat client, sessions) and `age`, `accepted`, `lost`
(assistants) are added by the MC modules and read by properties and by bounds only.
They turn "holds in a calm instance" into "holds until that very event has
happened, whatever else did": a group has its owner until one of two named meetings of
handlers, drafts follow their machine until two verdicts meet on one, ports are exclusive until a child fails, exits or
outlives SIGTERM, even when calls overlap; children stay in hand until calls of one
user overlap, even when children fail; results match until a command times out or a second
socket is left behind, even across drops and restarts; a pair of users is in order until its own handlers
overlap; previews are the newest until two creates overlap; an open thread is
complete until one of the orders of events that section 7 lists. Each `excused` name
is set by an event, defined next to it, for those properties only that it takes away.

Bounds. The defects and the near misses of these components need two actors and
one or two objects: two handlers, a handler and a timer, an old and a new child on
the same port, an old and a new command, an old and a new connection, two sockets of
one desktop. Three
handlers on one draft (two verdicts and the timer), three children on two ports (so
that a port is reused and the pool runs dry), four users with capacity three
(owner, admin, member, and one too many), two messages with pages of one (a
boundary between them, in one millisecond or two), three tokens (a login and two
rotations, or two logins) and five sends against two windows of two cover the cases
the code distinguishes. `groups_overlap` follows one kind of
meeting in a behaviour: a second kind would only take away one more promise.
`command_all` takes one command through slow answers and any three of the other five
disturbances, two sockets included, and two commands through slow answers with any one of
the others except a second socket; slow answers are never bounded, because a timer is fair; the names of commands and sockets are used in order. `friends_pairs` keeps to pairs that share one user and one
crossed pair (`Bounded`); without that constraint TLC also completes (4 604 275
states) but takes over five minutes. `chat_client` lets a handler pause only where the
client can tell and a receipt at every query, and spends `MaxTrouble` on edits, deletes and shared milliseconds, or
on one fault or change of members, which count two; `messages` takes the other
interleavings of the same handlers, with events received at once. A behaviour of
`chat_client` is followed no further when only `ShownOnce` or only `HistoryComplete` is left
to check, one of the `presence` scene when nothing is; where `OpenMeansRead` is lost, receipts
are finished before anything else, since only that property tells of the cursor. The
properties that do not depend on bounds are proved (section 5).

Deadlock is not checked in any run: the bounded supply of starts, requests, messages,
tokens and commands is meant to run out.

## 4. Fairness

* `Draft!FairSpec`: `FallDue` is the clock. `Continue` is a promise that
  settles, which the database guarantees unless it fails (counted as a fault).
  `FireTimer` needs strong fairness because a slot may be busy whenever it is
  due; the slots are a bound of the model, Node always runs a due timer.
* `MCGatewayManager!MCFairSpec`: `setTimeout` and the polling interval fire, a
  process that was sent SIGKILL ends, Node delivers `close` and `error`. Nothing
  is assumed of a process that only got SIGTERM, nor of a child's readiness. The
  scene of peace has neither a stop's timeout nor a spawn error, so only the storm
  tests whether calls return.
* `DeviceCommand!Fairness`, in `BoundedSpec`: the server handles what arrived, an execution
  ends (the desktop has its own timeout), a disconnected desktop reconnects
  (Socket.IO retries for ever), timers fire; no fair action is cut off by the bounds. Nothing is assumed of delivery:
  `PhoneDrops` and `DesktopDrops` may lose everything on its way.
* `MCSessions!Fairness`: the server serves a call (`Serve`), the phone takes an
  answer, saves it and retries, the registry's handlers go on (`Registry`, which
  includes noticing that a connection is gone: Socket.IO's ping timeout). A refresh is
  asked under strong fairness because a call slot is a bound of the model, not of the
  server. Nothing is assumed of the user, of logins, or of lost answers.
* `MCAssistants!Fairness`: seconds pass and the server goes on (`Proceeds`, timers
  included). Nothing is assumed of a provider: it may never answer.

`WaitEnds` and `EveryCommandEnds`, `CallsReturn`, `EveryDraftSettles` and
`ApprovedIsHandedOut`, `RequestsReturn` and `LogoutDetaches`, and `BotsDispatched` are the
liveness properties; each is checked in the run of its component. The runs with
symmetry check none.

## 5. Theorems

All for any number of users, handlers, drafts, children, ports, phones, commands,
messages, sockets, tokens, calls and requests, and any size of a page. The assumptions are those named `...Assumption` in the modules (a
placeholder such as `NoUser` is not a user, bounds are naturals, time-outs positive).
"One at a time" is the hypothesis that there is one slot, "one phone" that there is
one phone. A theorem about `Spec` of a component quantifies over
every behaviour of it; one about `MCSpec`, `HSpec`,
`HistorySpec` or `DesktopSpec` over every behaviour of the component with its history and
the bound that the MC module puts on the environment.

| Theorem | Says |
|---|---|
| `GroupsProofs!PolicySafe` | the atomic operations keep one owner, no banned member, the capacity |
| `GroupsProofs!TypeCorrect`, `RemovedStaysRemoved` | types; no stale write re-creates a member row (`NoResurrection`) |
| `GroupsProofs!OwnersNeverTwo` | no two owners, however handlers of different accounts or of one overlap, until one account leaves twice at once as OWNER (`NeverTwoOwners`) |
| `GroupsProofs!SerialRefinesPolicy`, `SerialSafe` | handlers one at a time implement `GroupPolicy`, hence are safe (`GroupSafety`) |
| `DraftProofs!TypeCorrect`, `ExpiredMeansDue`, `ClosedForGood` | under any overlap, fault and crash: a client is told "expired" only of a draft that is (`ExpiredCardIsDue`), and a draft that is decided or due, with no call under way that found it pending, is closed for good (`ClosedStaysClosed`) |
| `DraftProofs!HandedOutIsStored` | until two verdicts meet on a draft, a caller is handed the very text its row holds as approved (`HandedIsStored`) |
| `DraftProofs!ImplementsMachine` | until two verdicts meet, `Draft` implements `DraftMachine`, with handlers that overlap, faults and crashes (`FollowsMachine`) |
| `GatewayManagerProofs!TypeCorrect`, `PortsNeverLost` | no path leaks a port |
| `GatewayManagerProofs!PortsStayExclusive` | until a child fails, exits or outlives SIGTERM, no two gateways that run share a port, however calls overlap (`PortsExclusiveInPeace`) |
| `GatewayManagerProofs!ProcessesStayManaged` | until calls of one user overlap, every child that lives is in the Map, whatever the children do (`ManagedInTurn`) |
| `GatewayManagerProofs!RunsKeepBoth` | the two, of the specification the run checks |
| `DeviceCommandProofs!TypeCorrect`, `ResultsStored` | types; however drops, restarts, cancels, late results, two sockets and failed queries mix, a command whose result is shown has a final row (`ShownIsStored`) |
| `DeviceCommandProofs!ExecutedAtMostOnce` | until a login is answered while the desktop has a socket, no command is executed twice (`ExecutedOnceInTurn`) |
| `DeviceCommandProofs!OwnResultShown` | one phone: until a command times out or a login leaves a second socket, a result shown is that of the command it was asked for (`ShownIsOwnInTime`) |
| `FriendsProofs!TypeCorrect`, `ConversationFollowsFriendship`, `EveryFriendshipByConsent` | under any overlap |
| `FriendsProofs!SerialOrderly` | one at a time: a block ends contact, one request per pair, none among friends |
| `FriendsProofs!PairsStayOrderly` | the same of every pair whose own handlers have not overlapped, whatever handlers of other pairs do (`OrderlyPairs`) |
| `FriendsProofs!RejectionIsFinal` | on such a pair a rejected request stays rejected (`RejectedStaysRejected`) |
| `SessionsProofs!RotationKeepsOne` | however calls overlap, are retried, lost or cut off, a session has one token at most, stored or about to be (`OneTokenPerSession`) |
| `SessionsProofs!OverIsOver` | a session without such a token is over for good (`EndedStaysEnded`) |
| `SessionsProofs!OnlineAgrees`, `StatusAgrees` | when no handler of a user is under way and nothing excuses it, he is online exactly while connected, and the row and the friends say so (`OnlineIffConnected`); unless the key expired or another connect or update crossed, they say his very status (`ToldIsStatus`) |
| `SessionsProofs!RegistryAgrees` | likewise a device is ONLINE, and its owner was told so, exactly while it is connected (`OnlineIffLinked`) |
| `MessagesProofs!PreviewIsNewest` | until two creates overlap between insert and update, or one fails there, the row of every member names the newest message when no create is there (`LastIsNewestInTurn`) |
| `MessagesProofs!ReadIsFinal` | until two receipts of his are handled at once, what a member acknowledged never counts as unread for him again (`ReadStaysReadInTurn`) |
| `MessagesProofs!NobodyLeftUntold` | a create that completes has told every connected socket of every other member, by one of its two pushes, unless the socket joined between them (`EveryoneTold`) |
| `MessagesProofs!ShownOnlyOnce`, `RunShowsOnce` | a client shows a message once, until it fetches a page while a message is on its way or another page is fetched (`ShownOnce`) |
| `MessagesProofs!ShownStaysCurrent` | once nothing is on its way, a client shows no deleted message and no old text (`ShownIsCurrent`) |
| `MessagesProofs!HistoryStaysComplete` | scrolled to the end, a thread shows every stored message, but for those that share a millisecond (`HistoryComplete`) |
| `MessagesProofs!OpenStaysRead` | the receipt for the first message of the list covers all of them: nothing in an open thread counts as unread, until two receipts of the client are handled at once or another event takes it away (`OpenMeansRead`) |
| `MessagesProofs!RunKeepsThread` | the three, of the specification the run checks |
| `AssistProofs!CallsEndInTime` | no call of a model waits longer than the primary's and the fallback's timer, whatever a provider's default (`EndsInTime`) |
| `AssistProofs!RateLimited` | of any `2 * RateLimitMax` messages in a row from one bot to another, the last comes at least `RateLimitWindow` after the first, while the server keeps running (`RateBound`) |

How they go.

* Invariants that hold under any overlap are strengthened by what the handlers
  hold. `OwnersNeverTwo` needs more than "no two owners": an account that is
  about to hand over still claims ownership, so `OneClaim` counts its right to it together
  with the role, whichever of its devices leaves; `OneLeave` says that it leaves on one, and
  `HandoverRead` that whoever hands over has read OWNER.
  `ConversationFollowsFriendship` needs `HandlersOK`: whoever is about to accept
  holds a row from the other one to himself, and rows never change their ends.
  `PortsNeverLost` needs that an instance not yet started was never closed.
* The serial theorems about groups rest on `SerialInv`: whatever the one running handler
  has read is still so. It is the formal statement of what the code takes for granted, and
  exactly what overlap breaks. Given it, every write is a step of the abstract
  specification and every read a stutter.
* The theorems about drafts that overlap are of one draft at a time. `HandedOutIsStored` and
  `ImplementsMachine` rest on `DraftOK(d)`: until two verdicts meet on `d`, one handler at
  most is past its read, the row is still as it read it, and whoever deletes the key has
  written the text it will hand out. `ClosedForGood` needs no such condition: `Closed(d)`
  says itself that nobody who found the draft pending is under way.
* Friends have it per pair. `PairInv(p)` says that the rows of the pair are in order and
  that what a handler on it has read is still so (`ReadIsTrue`); a step of the only
  handler on `p` keeps it, a step on another pair does not touch the rows of `p`.
  `CrossedInv` adds that two handlers on a pair make it `crossed`. With one slot no
  pair is, which is `SerialOrderly`.
* `SerialSafe` carries `PolicySafe`, of the atomic operations, over through the
  refinement.
* `ResultsStored` rests on three parts, whatever happens. A command on its way to the server
  has no row yet (`SentOnce`); what is with the desktop, reported or stored has one
  (`HasRow`); what phones show or are about to be told is of a settled row
  (`ToldSettled`), and a settled row stays so (`RowGrows`).
* `ExecutedAtMostOnce` adds, until a second socket is left behind, that every open socket is
  the current one (`OneSocket`), that a command is ordered, executed or reported but never
  two of these (`HandledOnce`), and that what is ordered has not been started
  (`Unstarted`).
* The gateway's two theorems are of `HSpec`, the component with its history. `Lifecycle`
  (an instance that was closed has no child, the Map holds started instances) holds
  always. `PeaceInv`: while calls overlap but children behave, whoever is in the Map has
  a process, one that was sent a signal has a stop waiting for it, and ports in use are
  apart. `TurnInv`: while calls take turns, a stop that waits is of the entry in the
  Map and a record that is `starting` has its start waiting, so a start that replaces an
  entry replaces one whose child is dead.
* `RotationKeepsOne` and `OverIsOver` rest on `SessionInv`. A token counts for its session when it is
  stored, when a handler holds it to store it, or when a refresh has deleted its
  predecessor and is about to sign it (`SignsAlone`, `StoredApart`). `Flow` says which
  numbers a handler holds at which query, `Numbered` that a session is named by its
  first token. Most steps are calm: they move none of these. What is left is the
  delete (the claim passes from the row to the handler that deleted it, and only one
  delete of a row succeeds), the signature (from the handler to the new token) and
  the store.
* `OnlineAgrees` and `RegistryAgrees` are about the moments of rest, their invariants about
  the others: whatever does not agree is the work of a handler that is still to do it. A
  user who is online with an OFFLINE row has a connection about to write the row, friends
  not told have one about to tell them, and a set without sockets has a disconnect on its
  way to delete the status (`SocketsRight`, `OnlineRight`, `SavedRight`, `ToldRight`). A
  disconnect past its count and a connect never coexist (`Apart`): that is what the
  excuses of section 7 take away. For a device there is one connection at a time
  (`OneLink`), and `RowFollows` says for each place it can be at what the row and the
  owner know. `StatusAgrees` adds that the key holds what the handlers write next.
* `AssistProofs` rests on `TaskOK` for every call: the seconds it has waited and the
  seconds its timer has left fit into the timers it was given. A step of one call leaves the others right (`OneCall`);
  only `Second` moves all of them.
* `RateLimited` rests on `WindowOK`: the window of a pair counts the last messages that
  were accepted, the first of them no later than its start, and a message a full window
  further back is older than its start by the length of one. A window is reset only when
  that length has passed; a restart is the one event that forgets it.
* The theorems about messages share `BaseInv`: what a handler or a row of a member names is
  stored. `Follows` says once for all what each query of a handler leaves behind; the
  invariants below are checked against it, not against the queries.
* `PreviewIsNewest`: until `crossed`, one create at most is between its insert and its
  update, and it inserted the newest message (`NewestInv`). So the rows are behind by that
  message or not at all.
* `ReadIsFinal` rests on `Forward`. What was acknowledged is no later than the message of
  the row's cursor, than that of the cursor the receipt under way has read, and than that
  of the one it will write; the handler's comparison of `createdAt` gives the last. With
  one receipt at a time what it has read is still the row (`Fits`).
* `NobodyLeftUntold`: while a create is between its two pushes, whoever is in the room was
  pushed or joined late (`ToldInv`); the second push goes to those outside it.
* `ShownOnlyOnce` rests on `OnceInv`. While a page is fetched nothing is on its way, so the
  list stands still, and the page holds what is older than the last entry of the list: the
  two are disjoint, and each shows a message once. That the next page begins where the list
  ends is `CursorOK`: while more is to be had, every message shown, pushed or about to be
  pushed is at or after the cursor. It needs that `createdAt` never decreases with the
  number of a message (`InOrder`), and that the message a page ends with is not shown again
  below it, although others of its millisecond may be left out. `message:new` and the
  answer to the author are compared with the list by `addMessage`; that is why only pages
  need an argument.
* The other three theorems about the client are of one invariant, `ClientInv`, whose parts
  say for every message in which handler, push, page or place of the list it still is. All
  of them need `ServerOK`: a client outside the room has no push on its way, and a receipt
  about to write names a newer message than the cursor it has read.
* `ShownStaysCurrent` rests on `Current`. A text that is shown, or will be by a push
  (`TextDue`), is the stored one, or a later `updated` follows it on the wire or in a
  handler; a message shown though it is deleted (`LifeDue`) has its `deleted` behind it
  likewise. Pushes of one message leave in the order of its writes because two updates at
  once are excused.
* `HistoryStaysComplete` rests on `Hist`. A message is got (`Got`) when it is in the list, coming
  by a push, or tied with another one. Once the list has begun, whatever is not older than
  the cursor is got; so it is of the page that is asked for. A page the server finds
  is the newest part of what is older than its cursor, so the next cursor leaves out nothing
  that is not tied. Whether pages meet pushes does not matter, so `PushMeetsPage` is no
  excuse here.
* `OpenStaysRead` needs in addition that the first place is the newest. `Owed` is what others
  wrote, is stored, not tied and no longer coming; `ListOrder` says that it stands before
  whatever is older. That takes `PushOrder`: pushes of new messages leave in the order of the
  inserts, and the answer to the author comes when his own message is the newest one. `Acknowledged`
  follows the receipt for the first place: still to be handled, under way in a handler, or
  stored, or a newer one is. A handler may stand between two queries of it while others go
  on; what it has read is still the row because receipts are handled in turn
  (`ReceiptsInTurn`), which `ReceiptsCross` takes away.

Types are proved and not run: `TypeOK` of `Groups`, `Draft`, `GatewayManager`,
`DeviceCommand`, `Friends`, `Messages` and `Auth` (in `SessionsProofs`) is part of the
invariants above, as are `LinkTypeOK` and `PresenceTypeOK`.

`HistorySpec` receives events at once, and `DesktopSpec` lets one handler at a time be
between queries the client cannot tell apart (receipts pause at every query); these are the restrictions under which the
theorems about messages hold. Those about the client need none of the others of `MCSpec`:
they are also of the behaviours the run stops following.

Model-checked only: the liveness properties, which are out of the prover's reach, and
`SafeUnlessMet`, whose histories of two overlapping handlers would need an invariant of
their own. Every other property of a passing run is a theorem.

## 6. Findings

`groups_ownerless`: `leaveGroup` decides by a role it has read earlier what its last query
does (converses.service.ts:548, 564, 619). The trace: member u2 asks to leave and his
handler reads MEMBER; owner u1 leaves, chooses u2 as the next owner (566), and his
transaction (595-605) makes u2 OWNER and removes u1; u2's handler goes on and deletes the
row of u2, which is OWNER by now. The group is live and has no owner. Had u2 left before
the transaction, its update would have found no row and the whole transaction would have
failed: the hand-over is safe, the check of the role is not.
docs/dev/sprint2_phase8.md:384 asks for a transaction "to keep concurrent leaves from
making the group ownerless".

`draft_crossed`: verdicts read `PENDING` in one query and update by id alone in another
(draft.service.ts:117, 140, 166, 191). Of two that have both read it the last one wins,
after the caller of the first was told to execute: a draft that was approved and handed out
becomes REJECTED or EXPIRED, or two edits hand out two texts of which the row keeps one. The
class comment (line 18) says `PENDING → APPROVED / REJECTED / EXPIRED`.

## 7. What the guards of the properties say

The guarded properties of the passing runs name the event after which the code gives
no guarantee any more; dropping the guard makes TLC print how.

Groups, drafts, gateways, commands, friends:

* Two `addMembers` that have both counted exceed the capacity; a ban between two queries of
  an `addMembers` is undone by it; an account that leaves on two devices at once, and is
  added again in between, hands its ownership over twice and makes two owners (`adds`,
  `ban`, `leaves` in `MCGroups`; the fourth meeting, `handover`, is the finding above, or
  the removal or demotion of a member who is promoted meanwhile). `leaveGroup` hands over to
  the earliest member whatever his role (`PickNextOwner`), where
  docs/dev/sprint2_phase8.md:382-383 prefers an ADMIN.
* Verdicts that meet on a draft: section 6. A draft whose timer was lost with a restart, or
  never started because `setex` failed (draft.service.ts:293), expires only when somebody
  acts on it, where the class comment (line 20) promises five minutes; the comment of
  `scheduleExpiration` owns it. `EveryDraftSettles` is of behaviours without faults.
* A gateway's record keeps its port after `close` released it
  (gateway-manager.service.ts:205): a later stop releases it again while another user's
  gateway listens on it. A second start while the first is starting leaves a process
  that nothing manages. Ten seconds after a start a gateway counts as running whether or
  not its process is still there (`StartTimeout`).
* The phone keeps tracking a command that timed out (command_provider.dart:58, 82): a late
  result that arrives after the next command was sent is shown as that of the next one.
  docs/dev/sprint1_phase4.md:156 says that results correspond to commands by their id.
* `connect()` replaces the socket of the desktop and closes none (ws-client.service.ts:72): a
  login answered while there is a socket leaves two in the room, each with its listener, and
  a command is executed twice, with two results.
* A command whose desktop goes away, or whose `complete` rejects (device.gateway.ts:276),
  stays PENDING for ever: no code writes the time-out that docs/dev/sprint1_phase4.md:152
  describes, and nobody asks again.
* A block, a rejection or a crossed request that lands between the checks and the
  write of another handler of the pair is passed over. A sender who was rejected can
  never ask again, the unique key of the pair forbids it.

Messages:

* Two creates may write `lastMessageId` in the other order than they inserted.
* Pages are cut at `createdAt` strictly: a message of the millisecond of the last one
  of a page is in neither.
* The read cursor is read, compared and written apart: of two receipts at once the
  older may win.
* A socket that joins the room between the push to the room and the notification to
  those outside gets neither. A removed member's sockets stay in the room.

Chat client (`Excuses` in `MCChatClient`):

* `prependMessages` compares no ids: a push or an own message that a page also
  contains is shown twice; so is a page fetched twice, after the component was mounted
  again.
* A push before the thread was first opened makes its list non-empty, and its history is
  then never fetched. `loadingRef` is shared by the threads of one mounted component: a
  fetch of one swallows that of the other.
* Nothing is fetched again after a reconnect, and a join that failed is never tried
  again: what was pushed meanwhile is missing. A receipt that was not sent for want of a
  connection is not sent when it is back.
* Of two receipts of the client that are handled at once (chat.gateway.ts:219-273) the older
  may write last: messages of an open thread are unread again (`ReceiptsCross`).
* A listing that answers late overwrites the badge of an open thread; the client's own
  messages count as unread (the push has no author id); `activeConverseId` is kept when
  the page is left, so messages that nobody looks at count as read. The store is not
  cleared by a logout.

Sessions:

* A retry that fails inside `QueuedInterceptor` waits for itself, and every later error
  with it (`stuck`).
* A logout during a refresh is undone: the refresh saves its tokens over the cleared
  storage. `saveTokens` is two writes; killed in between, the phone keeps a token that
  was rotated. A refresh whose answer is lost ends the session on the phone; a crash
  between delete and store (auth.service.ts:150-157) ends it on the server. A logout
  with a rotated token revokes nothing, and no client calls the server's logout.

Device link:

* A disconnect handled late sets a device OFFLINE that has connected again; one that
  overtakes the registration leaves it ONLINE for good, and so does a crash.
  `setOffline` fails when the row was removed, and `RemoveDevice` tells nobody.
* Two logins that overlap leave a socket nobody can close; a token is never renewed on
  a socket that lives; a window opened again on macOS does not connect.

Presence:

* A connect between the count of the sockets and the delete of the status is lost: the
  user is offline while connected. A disconnect during the set-up of the connection, or
  a crash, leaves an id in the set that nothing removes.
* The status expires after 300 s, for nothing calls `refreshTtl`; a second device
  resets IDLE or DND to ONLINE.

Assistants:

* The two seconds of `WhisperService` abort nothing, its signal is handed to nobody;
  what bounds a whisper are the timers of the two providers (`EndsInTime`).
* The rate windows are fixed: a full window and the next may follow each other at once,
  so the "5 calls/minute" of the comment are up to nine within one (`RateBound` is what
  does hold: two full windows never fall within the length of one). A restart forgets
  the windows.
* A message with trigger and mention gets a whisper twice, in a group: the only guard is the
  conversation's type (messages.service.ts:180), and nothing compares the two requests.
* A mentioned bot is dispatched to, and no agent is found. mentions.service.ts:11 says
  "@BotName → 路由到对应 Bot Agent"; `dispatchEvent` is called with the id of the bot's row,
  and the one agent that agents.module.ts:61 registers is `supervisor-bot`
  (agent-orchestrator.service.ts:38-43 then only warns). `BotsDispatched` is of the call.
  A query of the mention's own that fails loses the dispatch (`lost`); what fails in the
  whisper does not.

## 8. Not modelled, and what is left

* Agents (`server/agents`): nothing reaches them. The one registered agent has the id
  `supervisor-bot`, `dispatchEvent` is called with ids of rows, and nothing emits
  `device.result.complete`. `Assist!DispatchEvent` models the lookup that finds none.
* Code without callers: `acceptSuggestion`, `executeAction`, `dismissAction`, the
  router's `stream`, `refreshTtl`, `getRateLimitCount`,
  `getOrCreateSupervisorConverse`; `detectBotRecipient` only logs.
* The mobile chat client: the same questions as the desktop's, with optimistic entries
  besides; the next component to model, composed with `Messages` as `ChatClient` is.
* The desktop's OpenClaw client: `DeviceCommand` takes an execution as one step that
  ends, which both ways of executing do by their timeouts.
* Users, profile, upload: single rows and object storage. Shared types: declarations.
  Screens: layout over the stores above.
* Within modelled components: `updateGroup`, the broadcasts of member events, mute
  checks and reply targets of `Messages` (`Groups` has the mute), typing events, editing
  and deleting from this desktop, the text of LLM answers.

What is left to prove: `SafeUnlessMet`; the liveness properties stay with TLC. Without `DesktopSpec`'s restriction to one handler between queries the theorems
about the client would need invariants about pairs of queries, as `HistorySpec` has them.
