# PhonArch Conference: TLA+ models and proofs

PhonArch Conference runs moderated telephone conferences. A Go control API keeps rooms,
rosters, sessions and call legs in PostgreSQL, commands a sidecar on each PBX node over
HTTP, and hears of the calls through events the sidecars post back; a SIP edge routes
dialogs to PBX nodes it knows from leases in Redis. This directory models the parts
where several of those actors change the same state, checks them with TLC on small
instances and proves their safety properties with TLAPS for any instance.

Line numbers are those of `src/components/phonarch-platform-api/cmd/control-api/main.go`
unless another file is named.

## Inventory

| Component | State | Operations | Works with | Hard behaviour | Correct when |
|---|---|---|---|---|---|
| Room lifecycle (1078-1247, 2446-2462) | `bridges.room_state`, `room_sessions`, `room_session_participants` | Start Room, the goroutine waiting for the host, Stop Room, end of the host call | dispatch, events, sidecars | handlers of several requests overlap statement by statement; a client that disconnects cancels the statements left; nothing is repaired at start-up | one active session; host first; a closed session stays closed; no room is held by nobody; every start resolves, every stop closes |
| Dispatch, live dialer, drop (1288-1376, 1384-1539) | `call_legs` | dispatch a participant, add, drop, mute, unmute | sidecars, node choice | the command can fail after it took effect | nobody is dialled before a host answered; a call that is up can be dropped |
| Event ingestion (2410-2444) | `call_legs.state` | apply a call-state event | sidecars, room lifecycle | events are lost and overtake one another, and revive legs that were over | what depends on ANSWERED happens only after an answer |
| Speaker queue (2263-2408) | `speaker_requests`, `participants.desired_state` | digits `0` and `#`, grant, withdraw | sidecars, SIP edge | a grant spans a call to the sidecar; the limit is counted before it | at most one open request per participant; nobody is recorded speaking whom no command unmuted; the limit holds |
| Roster, host, import (894-1076, 1411-1436, 1541-1623) | `participants`, `bridges.host_*`, `participant_limit`, `dial_batches` | edit host, add, edit, remove, import, change the limit | room lifecycle | checks and writes are separate statements, `host` and `deleteBridge` alone take a row lock | a live room has a host, and keeps it; the roster stays near its limit; no live call loses its row |
| Room view and deletion (725-862) | `call_legs`, `bridges` | end legs of another node epoch; delete a room | sidecars | a read that writes, on epochs read before | only legs of restarted nodes are ended; a room with live calls is not deleted |
| Administration (1709-2252) | operators, memberships, workspaces, `telephony_numbers` | create, assign, limit, demote | room lifecycle | check-then-act; an account that is undone | an administrator remains |
| Authentication and roles (132-482) | two session maps in the process, memberships | login, logout, role check, members | PostgreSQL | a role is read before it is acted on; a restart forgets the sessions | owners and product administrators are out of a workspace's reach |
| Node choice (484-573) | none | list, choose | dispatch, SIP edge | boundaries, order of the list | the least loaded fit node |
| Number normalisation (1249-1286, 1680-1707) | none | pure functions on strings | dispatch | - | one canonical form |
| PBX sidecar (`phonarch-pbx-sidecar/cmd/pbx-sidecar/main.go`) | call table, command cache, counter, epoch | originate, participant and media commands, poll, heartbeat, deregister | engine, API, Redis | two critical sections around a slow request; copies written back; a restart forgets everything | a served command is not applied again; nothing is recorded that the engine did not take; the load reported is the live calls; the table follows the engine |
| SIP edge (`phonarch-sip-gateway/cmd/sipgo-lb/main.go`) | node leases and dialog affinity in Redis, affinity cache, cursor | register, list, select, bind, route, unbind, DTMF | sidecars, API, Redis | leases and bindings expire; edges cache what others delete; edges crash | a dialog keeps its node; any edge finds it |
| Heartbeat utility (`phonarch-rustpbx/heartbeat/main.go`) | sequence number | one OPTIONS per interval and edge | SIP edge | its epoch is the time of sending | a node that is gone leaves the list |
| Lab engine (`phonarch-rustpbx-lab/main.go`) | calls | originate, mute, unmute, drop, progress | sidecar | progress overwrites an end | - |
| Web dashboard, probe, scripts | none the server relies on | I/O | HTTP, SIP | - | not modelled |

The last column is what correctness asks of the part; where the code does not hold it, or
holds it in part, is told under "What the violations show".

## Modules

| Module | What it is |
|---|---|
| `RoomLifecycle` | the life of one room: Start Room, the watcher, dispatch, events, Stop Room, drops, abandoned requests and crashes |
| `SessionContract` | what the sessions of a room promise, as an abstract specification |
| `MCRoomLifecycle` | instance for TLC (symmetry of the sessions) |
| `RoomLifecycleProofs` | the inductive invariant and the theorems |
| `SpeakerQueue` | the requests of a room's callers: digits, grant, dismissal, mute, unmute, drop |
| `FloorContract` | what the queue promises of the floor, as an abstract specification |
| `MCSpeakerQueue` | instance for TLC (symmetry of the listeners, digits and operators) |
| `SpeakerQueueProofs` | its inductive invariant and theorems |
| `Sidecar`, `MCSidecar`, `SidecarProofs` | one sidecar and its engine: command handlers, poller, restart |
| `CommandContract` | what a sidecar promises of the commands it is sent, as an abstract specification |
| `NodeLeases`, `MCNodeLeases`, `NodeLeasesProofs` | heartbeats, leases, the choice of a node, the room view that ends stale legs |
| `SipDialogs`, `MCSipDialogs`, `SipDialogsProofs` | the edges: binding an INVITE, following the binding, unbinding, crashes |
| `Roster`, `MCRoster`, `RosterProofs` | the roster of a room against starts, stops, dialling, removal, deletion |
| `Access`, `MCAccess`, `AccessProofs` | operators, memberships, sessions and who may change them |
| `DataLemmas` | facts about finite sets and functions that the proofs share: no code of its own |

Where a component spans modules: `RoomLifecycle` takes a command's outcome and an event
as given, `Sidecar` tells how they come about; `RoomLifecycle` takes a node as given,
`NodeLeases` chooses it; `Roster` takes LIVE for STARTING or RUNNING, which
`RoomLifecycle` tells apart; the digit `SpeakerQueue` starts from has found its dialog
in `SipDialogs`.

### RoomLifecycle

The API's handlers share only PostgreSQL (no handler keeps room state in memory), so the
unit of atomicity is one SQL statement, or one transaction. Each handler is a program
counter and each of its statements an action, in the order of the code:

| Variable | Code |
|---|---|
| `room`, `session`, `leg`, `joined` | `bridges.room_state`, `room_sessions.status`, `call_legs.state`, the existence of a `room_session_participants` row |
| `starter[s]` | `startRoom`, then `activateRoomAfterHost`, of session s |
| `task[c]` | `dispatchExistingParticipant` of call c, whoever called it |
| `stop[k]`, `stopping[k]`, `toDrop[k]` | the k-th `stopRoom` request, its `sessionID` and the rows it has left to drop |
| `finish[s]` | `finishHostSession` for the host call of s |
| `pbx`, `events`, `answered` | the engine and the sidecar's event goroutines (external), and a history of the calls ever connected |
| `faults` | crashes and abandoned requests, bounded by `MaxFaults` |

Startup of a session: `StartCheck`, `StartConflict` / `StartCommit` (the check of
`room_state` reads without a lock, so another start may pass it before the commit; the
unique index decides), dispatch of the host call, `StartRefused` with `FreeRoom`, or the
watcher: `WatchAnswered`, `Activate`, `Publish`, `FanOut`, against `WatchEnded` or
`Deadline`, `FailIfStarting`, `FreeRoom`. The three places that write READY for a failed
start (1132, 1185, 1192) are one action.

Abstractions, and why they lose nothing the properties tell apart:

- RINGING is DISPATCHED, IN_BRIDGE is ANSWERED, FAILED and DROPPED are ENDED for a leg:
  every handler tests just these classes (1145, 1183, 1205, 2447).
- A call is `<<session, participant>>`; `NoSession` stands for the empty session id the
  live dialer and "add" pass. Legs of different calls never interact.
- The prerequisites of a start (host, TFN, limit) and the rejections of a dispatch
  (number, TFN, node) are one choice: the request does nothing, or goes on.
- The wait of 90 s is `Deadline`, which may come at any time while the watcher polls.
  The semaphore of 32 in the fan-out only orders dispatches, which are unordered here.
- An answered call is reported again whenever mute or volume change, so `PbxAnswer` may
  repeat. A drop command ends the call at the engine and its `participant.drop` event
  carries no state (sidecar 341), so it changes no leg.
- Between a command's effect at the engine and the update of the leg nothing can tell
  the order, unless the update never comes: `StopDropError`, `OperatorDropError` and
  `OriginateError` are the commands that took effect, or did not, and were answered with
  an error or not at all.
- The request context: `startRoom`'s transaction and host dispatch, the live dialer,
  `stopRoom` and `finishHostSession` run under it, and the `Abandon` actions cut them
  short, ignoring errors as the code does. The watcher and the fan-out use a background
  context and are lost only by `Crash`.
- Not in this module: `left_at`, `joined_at`, durations and `dial_batch_items`
  (reporting), `participants.desired_state` (`SpeakerQueue`), the epoch check of
  `bridgeState` (`NodeLeases`) and `deleteBridge` (`Roster`).

### SessionContract

At most one session is open; a session opens once, runs only after opening, and once
closed never opens again, though a late handler may relabel it ENDED or FAILED (1131 and
1216 update without a condition on the status). `SessionsKeepContract` is
`Contract!Spec` under the mapping `status <- session`.

### SpeakerQueue

Again one SQL statement, or one command to a sidecar, is one action. `press[d]` is the
program counter of a `dtmf` request and `op[o]` of a `speakerRequestAction` or `action`
request; `caller[d]` is the leg the digit found, `target[o]` the request an operator
named. `request`, `onLeg` are `speaker_requests.status` and `.call_leg_id`, `desired` is
`participants.desired_state`. `unmuted` is whom the engine lets speak and `accepted` a
history of the accepted unmute commands (external, as far as the API can tell).

- `0`: `PressDigit`, `QueueLook`, `QueueRequest`, `RaiseHand`. `INSERT ... WHERE NOT
  EXISTS` is two steps, since its snapshot does not see what another digit inserts
  meanwhile; the unique index then refuses the row and the handler ends with an error. The
  participant row is updated also when there was an open request. `#`: `PressDigit`,
  `HashWithdraw`, `HashLower`.
- grant: `GrantCount`, then `GrantUnmute` or `GrantError`, `GrantActivate`,
  `SpeakRecorded`. The request is whatever it has become by then; the update fails, and
  the failure is ignored, only where the unique index forbids it.
- dismissal: `Dismiss`, `DismissRequest`, `SilenceRecorded`.
- mute, unmute, drop: the command, then the row (`SilenceRecorded`, `SpeakRecorded`,
  `DropRecorded`).
- `DigitCut`, `OperatorCut`: the SIP edge gives up after 750 ms, an operator
  disconnects, the process dies, or the insert fails; every later statement is lost with
  it.
- Calls: `Dial`, `DialRecorded`, `DialFailed`, and `CallEvent`, which may bring an ended
  call back, as a late event does (2438). A participant has one live call at a time
  here; `RoomLifecycle` has the dispatches that overlap.
- The status GRANTED is queried for and never written, FAILED is never a
  `desired_state`; `room_events` are appended to and never read.

### FloorContract

One variable, the status of each request. `Ask` queues a request of a participant who
has none open, `Grant` makes one ACTIVE that was made before (withdrawn ones included,
since a grant under way does not look) if no other of the participant is open and the
speakers fit in `Places`, `Withdraw` closes an open one. `RequestsKeepContract` is
`Floor!Spec` with `status <- request` and `MaxSpeakers + Cardinality(Moderators) - 1`
places. The contract has one request change at a time; the code's `UPDATE` for `#`
changes every open row of the participant (2301), and only `OneOpenRequest` makes that
one row. It knows nothing of the count that guards a grant, which the code takes two
steps earlier.

### Sidecar

A stretch under `store.mu`, a request to the engine and a use of the atomic counter are
one action each. `pc[h]`, `cmd[h]` are a handler of a command: `Receive` (the look at
the cache), `EngineAccepts` or `EngineFails` (with or without an effect),
`RecordOriginate` and `CountOriginate`, or `RecordAction`. `poll`, `listed`, `answer`
are `pollStates`: `PollList` copies, `PollGet` or `PollMiss` asks for each copy,
`PollWrite` writes back, `PollCount` lowers the counter, `PollDone` waits for the next
tick. `engine`, `ringing` are the engine, as the lab engine has it: progress is a
goroutine that overwrites even an ended state.

- Commands carry an id; the API sends it as `Idempotency-Key` too, on which Go's
  transport may repeat a request whose connection broke. Hence any command may be
  delivered again at any time. A command of a room (`roomMediaAction`) is recorded and
  touches no call.
- FAILED is ENDED, RINGING is DISPATCHED, IN_BRIDGE is ANSWERED; volume and member id
  are left out.
- `Restart` renews the epoch: table, cache, counter, handlers and poller are those of a
  new process, the engine goes on.

### CommandContract

Per command the deliveries `inside` (past the look at the cache), how often it was
recorded (`times`), whether it is `served` from the cache and whether the engine has
`taken` it. `Enter` is refused once a command is served; `Serve` needs the engine;
`Fail` leaves no trace; `Forget` is the end of a process. `CommandsKeepContract` is
`Served!Spec` where the deliveries inside are the handlers at "post" or "record" with
that command: the contract has one atomic look and one atomic record, the code two
critical sections with a request to the engine between them.

### NodeLeases

`Heartbeat`, `Deliver`, `Lose`, `Expire`: `sendOptions`, `optionsHandler` with `upsert`,
the network, the time to live of the key. `Deliver` leaves the datagram under way, since
it goes to every edge and each writes the same key. `Stop` deregisters or dies first,
`Start` has a new epoch. `Dispatch` reads the list in an arbitrary order (`Scan`), takes
`ChooseNode` of it and inserts the leg; the command then takes effect or fails
(`Originate`, `OriginateFails`). A view is `ViewNodes`, `ViewRows`, `EndStale` for each
outdated row, `ViewDone`. The load stands for active calls and load score, which order
nodes alike when they have one capacity. A node of `Standalone` is announced by the
heartbeat utility: it reports no calls, and the time of sending as its epoch, so that
any view after the next heartbeat ends the legs placed on it.

### SipDialogs

A handler of a SIP request is `pc[r]`, `req[r]`. INVITE without a To-tag: `Invite` (the
choice and the local map), `BindRedis` or `BindFails`, `ForwardInvite`, `Final`.
Everything else: `Cached`, or `NotCached` then `Found`, `NotFound` or `ReadFails`,
`Fill`, then `Send`; after BYE and CANCEL `UnbindLocal`, `UnbindRedis` or `UnbindFails`.
An edge may crash and come back with an empty map (`Crash`). Any node may be chosen,
since any may be least loaded. The key with both tags is never written, because `bind`
is called for requests without a To-tag only; the tag-qualified key serves just CANCEL.
`MaySend` is what callers send in a dialog (external).

A binding is good for two hours, in the memory of an edge (198) as in Redis (182-184, 213),
and nothing renews it. Bindings of a dialog age in the order of its INVITEs, so a binding
carries the number of the INVITE it was made for, `expired[d]` counts those that are past
their time, `Expire` adds one at any time, and `Valid` is the test of `ExpiresAt`. Once the
time is over the key in Redis and the entry in memory are the same to `destination`: there
is none.

### Roster

Each statement is an action, a transaction under the room's row lock is one action, and
`startRoom`'s transaction, which takes no lock, is three (its first query, the search
for the host row, the writes at commit). Foreign keys and unique indexes are guards: the
session's key on the host row (`held`), the unique HOST row, `call_legs` on
`participants` with ON DELETE CASCADE (`Deletes`). `called` are the participants with a
row of `call_legs`, `legs` those with one that is not terminal; `LegChanges` moves them
either way, since an event sets the state whatever it was (2438), so a call that was over
may be up again, and so may one whose command failed after it took effect (1316).
`deleteBridge` is two actions although it holds the room's row lock, since an UPDATE of
an existing leg does not wait for that lock. Names, numbers, TFN and region are left out,
and a request they refuse is one that `Fails`. `highest` is a history for `RosterBounded`:
with statements this far apart the limit holds only up to the requests that overlap.

### Access

One workspace. A handler is `request[r]`: `UpdateRead`, `UpdateCount`, `UpdateWrite`
(adminUpdateUser); `CreateUser`, `CreateMember` or `CreateRefused`, `CreateUndo`
(adminCreateUser); `EnrolAllowed`, `Enrol` (workspaceMembers); `MemberAllowed`,
`MemberRead`, `MemberChange` (workspaceMember); the other two are one statement.
Sessions are who they belong to. `Restart` empties both maps and writes the bootstrap
account. An administrator's session is not checked against his row again (197-205): a
demoted one acts until it ends.

## Runs

| Run | Instance | Question |
|---|---|---|
| `RoomProgress` | fair; 2 sessions, errors, 1 event | one active session; the contract; a held room has an owner; starts resolve, the room leaves STARTING |
| `RoomCalls` | 1 session, 1 listener, live dialer, 1 stop, 1 event, 1 fault | types; nobody is dialled live before a host was connected; the contract |
| `RoomStopCloses` | fair; 1 session, 1 listener, 1 stop, errors, 2 events | host first, with events lost and overtaking; a held room has an owner; a stop closes its session |
| `RoomStopLeaks` | 1 session, 1 listener, 1 stop, 1 event | violated: a stop releases the calls |
| `SpeakerRequests` | 1 listener, 3 requests, 1 call, 2 digits, 2 operators, limit 1 | types; one open request; a speaker is recorded after acceptance; the floor's contract |
| `SpeakerLimit` | 3 listeners, 3 requests, 1 digit, 2 operators, limit 1 | how far the limit is exceeded; the floor's contract |
| `SpeakerDismissed` | 1 listener, 1 request, 1 call, 1 digit, 1 operator | violated: whom a mute or a dismissal records as MUTED the engine has muted |
| `Sidecar` | fair poller; 1 call, 3 commands, 2 handlers, 1 restart | recorded after the engine; the counter; the command contract; the table converges |
| `NodeLeases` | fair; a sidecar and a standalone node, 1 leg, load 2, 2 epochs, 2 heartbeats under way | the choice; legs of steady nodes are not ended; a node that is gone leaves |
| `SipDialogs` | 2 nodes, 2 edges, 1 dialog, 2 requests, 2 INVITEs, 1 fault | a dialog keeps its node; any edge finds it |
| `Roster` | 5 participants, 2 host details, 2 requests, limits 1 and 2, imports of 2 | a live room has its host, and keeps it; the roster's bound |
| `Access` | 2 operators, 2 requests, 2 sessions of each kind | an administrator remains |

Why the bounds are enough. Interference between sessions is pairwise: a handler of an
earlier session meets the state of a later one, so two sessions show it, and the room's
unique index admits no third active one. Within a session a stop, an event of the host
call and the watcher meet, which needs one of each; a stop that meets a second session is
left to the theorems, which have any number of both. One listener stands for all, since
listeners never look at each other. Two events in flight can overtake each other; one can
be lost or late, which is all the runs on sessions need. One fault cuts any handler at
any statement. Commands answered with an error are in `RoomProgress` and
`RoomStopCloses`; `RoomCalls` has faults in their place. The safety properties are also
proved with no bound at all.

In the speaker queue listeners meet only in the count. `SpeakerRequests` has the life of
one listener's requests, which includes a late grant that revives the first while the
second is queued, two digits that press 0 together and two operators; its `View` leaves
out what an idle handler left in its locals and whom the engine lets speak, which no
action and no property of the run reads. `SpeakerLimit` has the count: with two operators
and a limit of one a second speaker passes it and a third must not. Its `FloorView` leaves
out the participant rows, the calls a request was made on and the history of accepted
commands too: no guard and no property of that run reads them. `CHECK_DEADLOCK FALSE` is
set since every request may have been served, and then the room rests.

In `Sidecar` two handlers overlap on a command, or on two commands of a call; one
restart separates two instances. With one call the counter is a matter of this call
alone, and calls meet in the counter only, where each adds its own; the theorems have
any number of calls. In `NodeLeases` two epochs tell old from new, two heartbeats
overtake one another, and the two nodes differ in who announces them. In `SipDialogs`
dialogs do not meet; two INVITEs of one dialog on two edges are the case in which
bindings differ, and of the two requests at a time one may still be ringing while the
other follows either binding. In `Roster` two requests are all
that a check-then-act race needs; with limits 1 and 2 and imports of two, five
participants let the roster pass the limit as far as `RosterBounded` allows. In `Access`
the two operators are the bootstrap account and another one; more of them only make it
easier for an administrator to remain. The runs of `Roster` and `SipDialogs` set
`CHECK_DEADLOCK FALSE` because a deleted room, and a dialog that is over with no INVITE
left, are at rest, `Sidecar` because an idle poller with nothing to copy and every
command cached is.

Fairness (`FairSpec`) is weak fairness of each handler's own steps: a goroutine that can
run does. A sidecar command answers, since the sidecar's engine client gives up after 10
s (sidecar 505), at worst with an error. Nothing is assumed of operators, of call-state
events (they may all be lost) or of faults; the liveness runs have none, because the
code repairs nothing after one. In `Sidecar` the poller's own steps are weakly fair (one
loop on a ticker) and its question about a call strongly fair: the engine, asked again
every second, answers some time; nothing is assumed of handlers, engine or restarts. In
`NodeLeases` Redis drops a key in time, and a datagram is not under way for ever;
heartbeats themselves are not fair.

## What the violations show

Two runs check a sentence of the repository's README and find a behaviour of the code that
contradicts it.

- `RoomStopLeaks` (1205): "Stop Room releases active calls" (line 123). `stopRoom` reads
  the live legs once; a leg inserted later by the dispatch of the host or by the fan-out
  is neither dropped nor prevented.
- `SpeakerDismissed` (2358): "Approved callers become speakers; everybody else continues
  to receive the broadcast and remains muted" (line 3). A dismissal mutes nobody at the
  engine.

What the models have without claiming a property, because a check and the write that
relies on it are separate statements or because nothing repairs what a failure left:

- Room: a command that took effect and was answered with an error leaves a FAILED leg
  under a call that is up, which "drop" and `stopRoom` do not select (1316). A watcher
  whose session was stopped and replaced publishes RUNNING for its successor (1156), so
  `AddedAfterHost` speaks of a host of the room, not of the session's own. The first of
  two starts, refused, writes READY after the second has committed (1132), which then
  runs in a READY room. Cut between close and free a room is held by no session: Start
  answers 409, Stop that it is READY (1199), hence the premise of `HeldRoomHasOwner`.
- Speaker queue: two grants count before either claims (2366), hence `SpeakersBounded`
  instead of the limit; a grant of an ACTIVE request is a second command (2353, 2397).
- Sidecar: a delivery that overlaps the first one, or follows an answer of the engine
  that was lost (264), is applied again, since the cache is filled after the engine was
  asked (254, 309); `CommandsKeepContract` speaks of what is served from the cache. A
  drop lowers the counter for every entry of the participant, ended ones too, and a
  poller that wrote its live copy back over DROPPED lowers it again (332, 450), hence the
  premise of `CounterExact`.
- Node leases: a view that read the report of an earlier instance ends a leg of the
  present one as "sidecar epoch changed" (836); `OnlyRestartedLoseLegs` protects the nodes
  that never restarted.
- SIP edge: a call longer than two hours is refused with 481 (`sipgo-lb` 171, 198, 213),
  which `AnsweredIsKnown` excepts. An INVITE repeated by way of the other edge rebinds the
  dialog, and each edge goes on with its own cache (198), so `RoutedAsInvited` speaks of
  the nodes, in the plural.
- Roster: a leg is inserted, or revived by a late event (2438), between the count and the
  DELETE, and a live call loses its row (1416-1424, 746-765). An addition or an import
  that looked before the start brings listeners into the live room (990, 1557-1583); its
  host it cannot change. The limit is lowered below a roster that has grown since it was
  counted (1985-2002), hence `highest`.
- Access: two demotions count each other's administrator, or one counts an account whose
  creation is undone, and none remains until a restart (2226, 2182), hence the premise of
  `AdminRemains`. A member promoted between the read and the write of `workspaceMember`
  is changed all the same (457-477).
- A CANCEL that crosses a 200 OK unbinds an answered dialog (`sipgo-lb` 514), so later
  requests may get 481: `AnsweredIsKnown` excepts cancelled dialogs.
- Other edges' caches and the tag-qualified key are never deleted by `unbind`.
- The host can be cleared between `startRoom`'s first query and its search for the host
  row: the room then is live with an inserted host row and empty host fields.
- `DELETE .../host` deletes the host row, and a live call of it, without a look at
  `call_legs`. `remove` does not look at `room_state`.
- A sidecar that was restarted takes a command addressed by way of its old lease; the leg
  has the old epoch, and the next room view, with the new one, ends it (836).
- A process that ends leaves a STARTING session nobody resolves (1136), and a session
  whose host call ends as it begins to run may be recorded as FAILED (2456).

## Proofs

`RoomLifecycleProofs` proves, for any sets of sessions, listeners, stop requests and
dialled participants, and any bounds on events and faults:

| Theorem | Statement |
|---|---|
| `TypeCorrect` | `Spec => []TypeOK` |
| `SessionsExclusive` | `Spec => []OneActiveSession` |
| `HostFirst` | `Spec => []HostAnsweredFirst` |
| `AddedAfter` | `Spec => []AddedAfterHost` |
| `RoomOwned` | `Spec => []HeldRoomHasOwner` |
| `ContractKept` | `Spec => SessionsKeepContract`: the refinement of `SessionContract` |
| `ContractExcludes` | `Contract!Spec => []OneActiveSession` |

They assume only what the module states of its constants: the host is no listener,
`NoSession` is no session, and the bounds are numbers.

The inductive invariant is `RoomInv`: types, `OneActiveSession`, and four facts without
which no property is inductive. `SessionsExist` ties the program counters to rows: a
handler that has not committed has no row, one that has (and a stop that found one)
does, which is why an unconditional `FAILED` or `ENDED` never creates a session.
`LegsExist` says that whatever names a call (an event, a stop's list, the engine, a
dispatch waiting for the sidecar) names one whose leg was inserted first.
`HostCameFirst` carries "the host was connected" along the chain event, leg, watcher,
session, fan-out, and `AddedLater` on to the room: it is RUNNING, or a participant is
being dialled live, only after a host of the room was connected. Each conjunct has a lemma with one step per action that can disturb
it, and `RoomInvariant` combines them. `RoomOwned` needs no assumption on the faults:
`HeldRoomHasOwner` speaks of every state before the first fault (a handler that one cuts
short leaves the room held), and each step that cuts a handler short counts one
(`FaultCounts`). `ContractKept` maps each step to `Begin`, `Run`, `Close` or a stutter.

`SpeakerQueueProofs` proves, for any listeners, digits, operators, requests, calls and
limit:

| Theorem | Statement |
|---|---|
| `QueueTypeCorrect` | `Spec => []TypeOK` |
| `RequestsExclusive` | `Spec => []OneOpenRequest` |
| `AcceptedBeforeRecorded` | `Spec => []RecordedAfterAcceptance` |
| `OvershootBounded` | `Spec => []SpeakersBounded` |
| `FloorKept` | `Spec => RequestsKeepContract`: the refinement of `FloorContract` |
| `FloorSuffices` | `RequestsKeepContract => [](OneOpenRequest /\ SpeakersBounded)` |

It assumes that listeners and operators are finitely many, a positive limit and bounds
that are numbers. The invariant `QueueInv` adds to the properties: `CallsKnown` (digits,
requests and grants under way name calls that were placed and requests that were made),
`AcceptedFirst` (a handler about to record a speaker had its command accepted) and
`PlacesHeld`: the ACTIVE requests plus the grants between count and claim, plus one,
never exceed the limit plus the operators. The last is what makes `SpeakersBounded`
inductive: a grant that passes the count holds a place before the database shows it.
`FloorKept` uses it once more: the claim of a grant (`GrantFits`) turns the place its
operator holds into a speaker, so the speakers fit although nobody counts them then.
`HashClosesOne` gets from `OneOpenRequest` that the `UPDATE` of all open rows is the
withdrawal of one.

`SidecarProofs`, for any finite sets of calls and handlers, any commands and restarts:

| Theorem | Statement |
|---|---|
| `SidecarTypeCorrect` | `Spec => []TypeOK` |
| `EngineFirst` | `Spec => []RecordedAfterEngine` |
| `CounterFollowsTable` | `Spec => []CounterExact` |
| `CommandsKept` | `Spec => CommandsKeepContract`: the refinement of `CommandContract` |
| `ContractSuffices` | `CommandsKeepContract` implies that what is served was taken, and that nobody enters with a served command |

`SidecarInv` adds `Recorded` (handlers and poller know only what was accepted) and
`PollerOwns`: before the first drop only the poller ends a call, once a round.
`CommandsKept` follows each handler through the mapping: `ServingEnters` and
`ServingLeaves` say what a step does to the deliveries inside, `Recorded` that what is
served was taken. None of this bounds how often the engine applies a command: a command
is cached only when it was recorded.

`NodeLeasesProofs`, for any finite set of nodes, any legs and bounds:
`LeasesTypeCorrect` (`[]TypeOK`), `SteadyNodesKeepLegs` (`[]OnlyRestartedLoseLegs`) and
`LeastLoadedChosen` (`[]ChoiceIsLeast`): whatever order Redis lists the leases in, the
one scan of `chooseNode` ends with a fit node of the least load, or with none if no node
is fit. The loop invariant is `BestOf` of what was read so far, kept by each turn
(`ScanKeepsLeast`). `LeasesInv` says that nothing under
way or written down is ahead of its node's epoch (`EpochsBehind`), that a key holds
reports of its own node (`KeyedByNode`) and that an ended leg keeps its node
(`EndedWereDispatched`).

`SipDialogsProofs`, for any nodes, edges, dialogs, requests and bounds:
`DialogsTypeCorrect` (`[]TypeOK`), `AffinityKept` (`[]RoutedAsInvited`) and
`PeersRecover` (`[]AnsweredIsKnown`). `DialogsInv`: whatever is cached, stored or
carried was chosen for this dialog (`BindingsChosen`); who may remove a key serves a BYE
or CANCEL (`HandlersKnow`); the key is there from the answer of Redis to the end of the
dialog, unless a binding of it is past its two hours (`KeyStays`).

`RosterProofs`, for any participants, any finite set of requests, limits and imports:
`RosterTypeCorrect` (`[]TypeOK`), `LiveRoomsHaveHosts` (`[]LiveRoomHasHost`),
`LiveHostsFixed` (`HostFixed`, an action property) and `RosterStaysNearLimit`
(`[]RosterBounded`). The last rests on
`RosterFits`: the listeners of the roster together with the rows every request under way
would still bring (`Expected`) never exceed the highest limit by more than what all
requests but one may bring. A request that passes the check adds its rows to `Expected`,
the insert moves them to the roster, and what the other requests bring is bounded by
`UnionBound`. `RosterInv`: a start
that found the host row keeps it (`HostKept`), rows to be inserted are new to the table
and to each other (`RowsNew`).

`AccessProofs`, for any finite set of operators, any requests and sessions:
`AccessTypeCorrect` (`[]TypeOK`) and `AnAdministratorRemains` (`[]AdminRemains`). `AccessInv`: an account under creation is its
creator's alone (`CreationsApart`), and whoever may take an administrator away, alone in
changing, leaves another (`OthersRemain`, from the count by `CountedAnother`).

An abstract specification is worth the refinement only if it says enough:
`ContractExcludes`, `FloorSuffices` and `ContractSuffices` prove from the contracts
alone, with no word about handlers, the properties the detailed models were checked for.

`DataLemmas` holds what the others need of finite sets and functions. The provers cannot
instantiate the library's induction and recursion theorems, which take an operator as a
parameter, so they are stated here for sets and functions: `IntervalInduction` (a set
that has 0 and, with each i < n, i + 1, has all of 0..n) comes from the least element of
a well-founded order, `IntervalRecursion` says that a function given by its first value
and a step function exists, so that a LET recursive function such as `Scan` has the
equations it is written with, and `UnionBound` bounds the union of finitely many sets.

Every module states of its constants only what its ASSUMEs say (finite sets where a
cardinality is taken, bounds that are numbers, markers that are no members; a roster has
at least one request at work, whom its bound excepts).

Model-checked only: liveness (`StartResolves`, `RoomLeavesStarting`, `StopCloses`,
`TableConverges`, `DeadNodesLeave`), since fairness and ENABLED are out of the prover's
reach. Every invariant, action property and refinement that a passing run checks is proved, and
was checked by TLC on the runs' instances first, the inductive invariants included.

## Plan

Done, in this order: `RoomLifecycle` with `SessionContract`, `SpeakerQueue`, `Sidecar`,
`NodeLeases`, `SipDialogs`, `Roster`, `Access`, each with its runs, mutants and proofs.
A passing run answers one question of a component, a violation run tests one sentence of
the repository.

After the proofs of the parts came the abstract specifications `FloorContract` and
`CommandContract` with their refinements, and `DataLemmas`.

What could follow: the composition of `Sidecar` and `NodeLeases`, to relate the load of a
lease to the calls of the engine.

## Not modelled

- `editRosterParticipant`, `bridgeSettings`: contact data and region, read by no
  property.
- Workspaces, TFNs and room creation (1829-1908, 1933-1957, 2032-2074): single
  statements under unique and foreign keys.
- `normalizeDialNumber`, `canonicalE164`, `slugify`: rewriting of strings character by
  character.
- Read-only handlers (overview, lists, `me`, `sessionRows`, `roomStartChecks`, `volume`,
  `batchState`) and `runBatch`, which nothing calls.
- The advertisement of an edge and its discovery (sipgo-lb 247-289, control API
  530-549): the list of nodes is the same at every edge, as all read the same keys; an
  edge that is not found is a list that is not read.
- Durations: a timeout (the 90 s of the watcher, the leases of nodes, the two hours of a
  binding) is a step that may come at any time.
- The web dashboard, the probe and the scripts (I/O and presentation), and media, which
  the repository leaves to the engine.
