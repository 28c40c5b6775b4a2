---------------------------- MODULE RoomLifecycle ----------------------------
(***************************************************************************)
(* The life of one conference room in the control API: Start Room, the     *)
(* goroutine that waits for the host and fans out to the listeners, Stop   *)
(* Room, the call-state events of the PBX sidecar, the live dialer and the *)
(* operator's drop.                                                        *)
(*                                                                         *)
(* The handlers run concurrently and share nothing but PostgreSQL.  Every  *)
(* SQL statement, and every transaction, is one atomic action; between two *)
(* statements of a handler any other handler may run.  A handler is a      *)
(* program counter: starter[s] for startRoom and activateRoomAfterHost of  *)
(* session s, task[c] for dispatchExistingParticipant of call c, stop[k]   *)
(* for the k-th Stop Room request, finish[s] for finishHostSession.        *)
(*                                                                         *)
(* A call is a pair <<session, participant>>: a session dispatches each    *)
(* participant at most once; a call of NoSession was placed by the live    *)
(* dialer or by "add", which pass no session.  Call states are kept to     *)
(* what the handlers tell apart: RINGING counts as DISPATCHED, IN_BRIDGE   *)
(* as ANSWERED, and FAILED and DROPPED as ENDED.                           *)
(***************************************************************************)
EXTENDS Naturals, FiniteSets

CONSTANTS
    Sessions,       \* the room_sessions rows that may ever be created
    Listeners,      \* the LISTENER participants of the room
    Host,           \* its one HOST participant
    NoSession,      \* the empty session id the live dialer dispatches with
    Stoppers,       \* the Stop Room requests that may ever arrive
    Dialled,        \* the participants the live dialer or "add" may call
    SidecarErrors,  \* may a command to a sidecar be answered with an error?
    MaxEvents,      \* bound on the sidecar events in flight at a time
    MaxFaults       \* bound on process crashes and abandoned requests

ASSUME ParticipantAssumption ==
    Host \notin Listeners /\ Dialled \subseteq Listeners \union {Host}
ASSUME SessionAssumption == NoSession \notin Sessions
ASSUME FaultAssumption ==
    SidecarErrors \in BOOLEAN /\ MaxEvents \in Nat /\ MaxFaults \in Nat

Participants == Listeners \union {Host}
Calls == (Sessions \union {NoSession}) \X Participants
HostCall(s) == <<s, Host>>

VARIABLES
    room,     \* bridges.room_state
    session,  \* room_sessions.status; "NONE" before the row is inserted
    leg,      \* call_legs.state; "NONE" before the row is inserted
    joined,   \* the calls with a room_session_participants row
    starter,  \* per session: startRoom, then activateRoomAfterHost
    task,     \* per call: dispatchExistingParticipant
    stop,     \* per Stop Room request: stopRoom
    stopping, \* per Stop Room request: the session it found
    toDrop,   \* per Stop Room request: the calls it found and has yet to drop
    finish,   \* per session: finishHostSession, run by an event of the host call
    pbx,      \* per call: what the PBX engine is doing (external)
    events,   \* call-state events on their way to the API, unordered (external)
    answered, \* history: the calls the PBX ever connected
    faults    \* crashes and abandoned requests so far

database == <<room, session, leg, joined>>
stops    == <<stop, stopping, toDrop>>
handlers == <<starter, task, stops, finish>>
outside  == <<pbx, events, answered>>
vars == <<room, session, leg, joined, starter, task, stop, stopping,
          toDrop, finish, pbx, events, answered, faults>>

Active == {"STARTING", "RUNNING"}
Closed == {"ENDED", "FAILED"}
Live   == {"DISPATCHED", "ANSWERED"}

StarterState == {"idle", "checked", "started", "activate", "publish",
                 "fanout", "fail", "freeRoom", "done"}
TaskState == {"idle", "queued", "posting", "erred", "joining", "done", "refused"}
StopState == {"idle", "legs", "drop", "room", "done", "already"}
FinishState == {"idle", "select", "closeEnded", "closeFailed", "room"}

TypeOK ==
    /\ room \in {"READY", "STARTING", "RUNNING"}
    /\ session \in [Sessions -> {"NONE"} \union Active \union Closed]
    /\ leg \in [Calls -> {"NONE", "ENDED"} \union Live]
    /\ joined \subseteq Calls
    /\ starter \in [Sessions -> StarterState]
    /\ task \in [Calls -> TaskState]
    /\ stop \in [Stoppers -> StopState]
    /\ stopping \in [Stoppers -> Sessions \union {NoSession}]
    /\ toDrop \in [Stoppers -> SUBSET Calls]
    /\ finish \in [Sessions -> FinishState]
    /\ pbx \in [Calls -> {"NONE", "RINGING", "ANSWERED", "ENDED"}]
    /\ events \subseteq Calls \X (Live \union {"ENDED"})
    /\ answered \subseteq Calls
    /\ faults \in 0..MaxFaults

Init ==
    /\ room = "READY"
    /\ session = [s \in Sessions |-> "NONE"]
    /\ leg = [c \in Calls |-> "NONE"]
    /\ joined = {}
    /\ starter = [s \in Sessions |-> "idle"]
    /\ task = [c \in Calls |-> "idle"]
    /\ stop = [k \in Stoppers |-> "idle"]
    /\ stopping = [k \in Stoppers |-> NoSession]
    /\ toDrop = [k \in Stoppers |-> {}]
    /\ finish = [s \in Sessions |-> "idle"]
    /\ pbx = [c \in Calls |-> "NONE"]
    /\ events = {}
    /\ answered = {}
    /\ faults = 0

ActiveSessions == {s \in Sessions : session[s] \in Active}
GoTo(s, pc) == starter' = [starter EXCEPT ![s] = pc]
StopTo(k, pc) == stop' = [stop EXCEPT ![k] = pc]
TaskTo(c, pc) == task' = [task EXCEPT ![c] = pc]

-----------------------------------------------------------------------------
(* startRoom: one transaction.  Its SELECT takes no lock, so the check of  *)
(* room_state and the writes that rely on it are separate steps; a start   *)
(* whose prerequisites (host, TFN, limit) fail writes nothing.             *)

StartCheck(s) ==
    /\ starter[s] = "idle"
    /\ room = "READY"
    /\ GoTo(s, "checked")
    /\ UNCHANGED <<database, task, stops, finish, outside, faults>>

(* The unique index room_sessions_one_active_uq refuses a second active    *)
(* session: the request is answered 409 and the transaction rolled back.   *)
StartConflict(s) ==
    /\ starter[s] = "checked"
    /\ ActiveSessions # {}
    /\ GoTo(s, "done")
    /\ UNCHANGED <<database, task, stops, finish, outside, faults>>

(* A mutant: the database without the unique index.                       *)
StartCommit_NoIndex(s) ==
    /\ starter[s] = "checked"
    /\ session' = [session EXCEPT ![s] = "STARTING"]
    /\ room' = "STARTING"
    /\ GoTo(s, "started")
    /\ TaskTo(HostCall(s), "queued")
    /\ UNCHANGED <<leg, joined, stops, finish, outside, faults>>

StartCommit(s) ==
    /\ starter[s] = "checked"
    /\ ActiveSessions = {}
    /\ session' = [session EXCEPT ![s] = "STARTING"]
    /\ room' = "STARTING"
    /\ GoTo(s, "started")
    /\ TaskTo(HostCall(s), "queued")
    /\ UNCHANGED <<leg, joined, stops, finish, outside, faults>>

(* The host call could not be dispatched: the session is marked FAILED     *)
(* whatever its status has become, then the room is freed (FreeRoom).      *)
StartRefused(s) ==
    /\ starter[s] = "started"
    /\ task[HostCall(s)] = "refused"
    /\ session' = [session EXCEPT ![s] = "FAILED"]
    /\ GoTo(s, "freeRoom")
    /\ UNCHANGED <<room, leg, joined, task, stops, finish, outside, faults>>

-----------------------------------------------------------------------------
(* activateRoomAfterHost: the goroutine startRoom leaves behind once the   *)
(* host call is dispatched.  It polls the host leg until a 90 s deadline.  *)

Watching(s) == starter[s] = "started" /\ task[HostCall(s)] = "done"

(* A mutant: any live host leg is taken for an answered one.              *)
WatchAnswered_AnyLive(s) ==
    /\ Watching(s)
    /\ leg[HostCall(s)] \in Live
    /\ GoTo(s, "activate")
    /\ UNCHANGED <<database, task, stops, finish, outside, faults>>

WatchAnswered(s) ==
    /\ Watching(s)
    /\ leg[HostCall(s)] = "ANSWERED"
    /\ GoTo(s, "activate")
    /\ UNCHANGED <<database, task, stops, finish, outside, faults>>

(* The host leg is over, or the deadline has passed (Deadline).            *)
WatchEnded(s) ==
    /\ Watching(s)
    /\ leg[HostCall(s)] = "ENDED"
    /\ GoTo(s, "fail")
    /\ UNCHANGED <<database, task, stops, finish, outside, faults>>

(* A mutant: the wait has no deadline.                                    *)
Deadline_Never(s) ==
    /\ Watching(s)
    /\ leg[HostCall(s)] = "ENDED"
    /\ GoTo(s, "fail")
    /\ UNCHANGED <<database, task, stops, finish, outside, faults>>

Deadline(s) ==
    /\ Watching(s)
    /\ GoTo(s, "fail")
    /\ UNCHANGED <<database, task, stops, finish, outside, faults>>

(* A mutant: without AND status='STARTING' a stopped session comes back.  *)
Activate_Unguarded(s) ==
    /\ starter[s] = "activate"
    /\ session' = [session EXCEPT ![s] = "RUNNING"]
    /\ GoTo(s, "publish")
    /\ UNCHANGED <<room, leg, joined, task, stops, finish, outside, faults>>

Activate(s) ==
    /\ starter[s] = "activate"
    /\ IF session[s] = "STARTING"
       THEN session' = [session EXCEPT ![s] = "RUNNING"] /\ GoTo(s, "publish")
       ELSE UNCHANGED session /\ GoTo(s, "done")
    /\ UNCHANGED <<room, leg, joined, task, stops, finish, outside, faults>>

(* Mutants: a room_state that migration 004 retired, and no state guard.   *)
Publish_OldState(s) ==
    /\ starter[s] = "publish"
    /\ room' = IF room = "STARTING" THEN "ACTIVE" ELSE room
    /\ GoTo(s, "fanout")
    /\ UNCHANGED <<session, leg, joined, task, stops, finish, outside, faults>>

Publish_Unguarded(s) ==
    /\ starter[s] = "publish"
    /\ room' = "RUNNING"
    /\ GoTo(s, "fanout")
    /\ UNCHANGED <<session, leg, joined, task, stops, finish, outside, faults>>

(* Guarded by room_state, not by the session it publishes.                 *)
Publish(s) ==
    /\ starter[s] = "publish"
    /\ room' = IF room = "STARTING" THEN "RUNNING" ELSE room
    /\ GoTo(s, "fanout")
    /\ UNCHANGED <<session, leg, joined, task, stops, finish, outside, faults>>

(* Every listener is dispatched concurrently.                              *)
FanOut(s) ==
    /\ starter[s] = "fanout"
    /\ task' = [c \in Calls |->
                  IF c \in {s} \X Listeners THEN "queued" ELSE task[c]]
    /\ GoTo(s, "done")
    /\ UNCHANGED <<database, stops, finish, outside, faults>>

FailIfStarting(s) ==
    /\ starter[s] = "fail"
    /\ session' = IF session[s] = "STARTING"
                  THEN [session EXCEPT ![s] = "FAILED"] ELSE session
    /\ GoTo(s, "freeRoom")
    /\ UNCHANGED <<room, leg, joined, task, stops, finish, outside, faults>>

(* A mutant: the room is freed only if it was RUNNING.                    *)
FreeRoom_IfRunning(s) ==
    /\ starter[s] = "freeRoom"
    /\ room' = IF room = "RUNNING" THEN "READY" ELSE room
    /\ GoTo(s, "done")
    /\ UNCHANGED <<session, leg, joined, task, stops, finish, outside, faults>>

(* UPDATE bridges SET room_state='READY', tied to no session.              *)
FreeRoom(s) ==
    /\ starter[s] = "freeRoom"
    /\ room' = "READY"
    /\ GoTo(s, "done")
    /\ UNCHANGED <<session, leg, joined, task, stops, finish, outside, faults>>

-----------------------------------------------------------------------------
(* dispatchExistingParticipant.  The leg is inserted before the sidecar is *)
(* asked to place the call, and the session's participant row only after   *)
(* the sidecar has answered.                                               *)

(* No active TFN, an invalid number, no usable PBX: nothing is written.    *)
DispatchReject(c) ==
    /\ task[c] = "queued"
    /\ TaskTo(c, "refused")
    /\ UNCHANGED <<database, starter, stops, finish, outside, faults>>

DispatchInsert(c) ==
    /\ task[c] = "queued"
    /\ leg' = [leg EXCEPT ![c] = "DISPATCHED"]
    /\ TaskTo(c, "posting")
    /\ UNCHANGED <<room, session, joined, starter, stops, finish, outside, faults>>

OriginateOk(c) ==
    /\ task[c] = "posting"
    /\ pbx[c] # "NONE"
    /\ TaskTo(c, "joining")
    /\ UNCHANGED <<database, starter, stops, finish, outside, faults>>

(* An error says nothing about whether the engine placed the call.         *)
OriginateError(c) ==
    /\ SidecarErrors
    /\ task[c] = "posting"
    /\ TaskTo(c, "erred")
    /\ UNCHANGED <<database, starter, stops, finish, outside, faults>>

DispatchFailed(c) ==
    /\ task[c] = "erred"
    /\ leg' = [leg EXCEPT ![c] = "ENDED"]
    /\ TaskTo(c, "refused")
    /\ UNCHANGED <<room, session, joined, starter, stops, finish, outside, faults>>

DispatchJoin(c) ==
    /\ task[c] = "joining"
    /\ joined' = IF c[1] = NoSession THEN joined ELSE joined \union {c}
    /\ TaskTo(c, "done")
    /\ UNCHANGED <<room, session, leg, starter, stops, finish, outside, faults>>

(* A mutant: STARTING counts as live here too, as it does elsewhere.      *)
Add_Starting(p) ==
    /\ room # "READY"
    /\ task[<<NoSession, p>>] = "idle"
    /\ TaskTo(<<NoSession, p>>, "queued")
    /\ UNCHANGED <<database, starter, stops, finish, outside, faults>>

(* The live dialer and "add": the only check is that the room is RUNNING.  *)
Add(p) ==
    /\ room = "RUNNING"
    /\ task[<<NoSession, p>>] = "idle"
    /\ TaskTo(<<NoSession, p>>, "queued")
    /\ UNCHANGED <<database, starter, stops, finish, outside, faults>>

-----------------------------------------------------------------------------
(* The sidecar and its PBX engine, as the API sees them.  Events are sent  *)
(* by goroutines that neither wait for one another nor retry.              *)

Emit(c, state) ==
    /\ events' = events \union {<<c, state>>}
    /\ Cardinality(events') <= MaxEvents

PbxAccept(c) ==
    /\ task[c] = "posting"
    /\ pbx[c] = "NONE"
    /\ pbx' = [pbx EXCEPT ![c] = "RINGING"]
    /\ Emit(c, "DISPATCHED")
    /\ UNCHANGED <<database, handlers, answered, faults>>

(* ANSWERED is reported again whenever the volume or the mute changes.     *)
PbxAnswer(c) ==
    /\ pbx[c] \in {"RINGING", "ANSWERED"}
    /\ pbx' = [pbx EXCEPT ![c] = "ANSWERED"]
    /\ Emit(c, "ANSWERED")
    /\ answered' = answered \union {c}
    /\ UNCHANGED <<database, handlers, faults>>

PbxHangUp(c) ==
    /\ pbx[c] \in {"RINGING", "ANSWERED"}
    /\ pbx' = [pbx EXCEPT ![c] = "ENDED"]
    /\ Emit(c, "ENDED")
    /\ UNCHANGED <<database, handlers, answered, faults>>

EventLost(e) ==
    /\ e \in events
    /\ events' = events \ {e}
    /\ UNCHANGED <<database, handlers, pbx, answered, faults>>

(* events: the leg takes the reported state, whatever state it is in; a    *)
(* terminal one then runs finishHostSession, which concerns host calls of  *)
(* a session only.  The sidecar reports the end of a call once, so one     *)
(* finishHostSession at a time is enough for a session.                    *)
EventUpdate(e) ==
    /\ e \in events
    /\ \A s \in Sessions : e = <<HostCall(s), "ENDED">> => finish[s] = "idle"
    /\ leg' = [leg EXCEPT ![e[1]] = e[2]]
    /\ events' = events \ {e}
    /\ finish' = [s \in Sessions |->
                    IF e = <<HostCall(s), "ENDED">> THEN "select" ELSE finish[s]]
    /\ UNCHANGED <<room, session, joined, starter, task, stops, pbx, answered,
                   faults>>

FinishTo(s, pc) == finish' = [finish EXCEPT ![s] = pc]

FinishSelect(s) ==
    /\ finish[s] = "select"
    /\ FinishTo(s, CASE HostCall(s) \notin joined \/ session[s] \notin Active -> "idle"
                     [] HostCall(s) \in joined /\ session[s] = "STARTING" -> "closeFailed"
                     [] HostCall(s) \in joined /\ session[s] = "RUNNING" -> "closeEnded")
    /\ UNCHANGED <<database, starter, task, stops, outside, faults>>

(* The final status was chosen from the status read by FinishSelect.       *)
FinishClose(s) ==
    /\ finish[s] \in {"closeEnded", "closeFailed"}
    /\ session' = IF session[s] \in Active
                  THEN [session EXCEPT ![s] = IF finish[s] = "closeEnded"
                                              THEN "ENDED" ELSE "FAILED"]
                  ELSE session
    /\ FinishTo(s, "room")
    /\ UNCHANGED <<room, leg, joined, starter, task, stops, outside, faults>>

(* WHERE room_state IN ('STARTING','RUNNING'): READY is the only other one.*)
FinishRoom(s) ==
    /\ finish[s] = "room"
    /\ room' = "READY"
    /\ FinishTo(s, "idle")
    /\ UNCHANGED <<session, leg, joined, starter, task, stops, outside, faults>>

-----------------------------------------------------------------------------
(* stopRoom and the operator's drop of one call.                           *)

StopSelect(k) ==
    /\ stop[k] = "idle"
    /\ \E s \in ActiveSessions : stopping' = [stopping EXCEPT ![k] = s]
    /\ StopTo(k, "legs")
    /\ UNCHANGED <<database, starter, task, toDrop, finish, outside, faults>>

(* Answered {"status": "already_stopped", "room_state": "READY"}; nothing  *)
(* is written.                                                             *)
StopAlready(k) ==
    /\ stop[k] = "idle"
    /\ ActiveSessions = {}
    /\ StopTo(k, "already")
    /\ UNCHANGED <<database, starter, task, stopping, toDrop, finish, outside,
                   faults>>

StopLegs(k) ==
    /\ stop[k] = "legs"
    /\ toDrop' = [toDrop EXCEPT ![k] = {c \in Calls : leg[c] \in Live}]
    /\ StopTo(k, "drop")
    /\ UNCHANGED <<database, starter, task, stopping, finish, outside, faults>>

(* dropCall: the engine hangs up without a call-state event of its own,    *)
(* and only a command that succeeded is recorded.                          *)
HungUp(state) == IF state = "NONE" THEN "NONE" ELSE "ENDED"

Dropped(c) ==
    /\ pbx' = [pbx EXCEPT ![c] = HungUp(@)]
    /\ leg' = [leg EXCEPT ![c] = "ENDED"]

StopDrop(k, c) ==
    /\ stop[k] = "drop"
    /\ c \in toDrop[k]
    /\ Dropped(c)
    /\ toDrop' = [toDrop EXCEPT ![k] = @ \ {c}]
    /\ UNCHANGED <<room, session, joined, starter, task, stop, stopping, finish,
                   events, answered, faults>>

(* dropCall failed, whether or not the engine hung up; the error is        *)
(* ignored.                                                                *)
StopDropError(k, c) ==
    /\ SidecarErrors
    /\ stop[k] = "drop"
    /\ c \in toDrop[k]
    /\ toDrop' = [toDrop EXCEPT ![k] = @ \ {c}]
    /\ pbx' \in {pbx, [pbx EXCEPT ![c] = HungUp(@)]}
    /\ UNCHANGED <<database, starter, task, stop, stopping, finish, events,
                   answered, faults>>

(* A mutant: the guard of the watcher's update, copied.                   *)
StopClose_IfStarting(k) ==
    /\ stop[k] = "drop"
    /\ toDrop[k] = {}
    /\ session' = [session EXCEPT ![stopping[k]] =
                      IF @ = "STARTING" THEN "ENDED" ELSE @]
    /\ StopTo(k, "room")
    /\ UNCHANGED <<room, leg, joined, starter, task, stopping, toDrop, finish,
                   outside, faults>>

StopClose(k) ==
    /\ stop[k] = "drop"
    /\ toDrop[k] = {}
    /\ session' = [session EXCEPT ![stopping[k]] = "ENDED"]
    /\ StopTo(k, "room")
    /\ UNCHANGED <<room, leg, joined, starter, task, stopping, toDrop, finish,
                   outside, faults>>

StopRoom(k) ==
    /\ stop[k] = "room"
    /\ room' = "READY"
    /\ StopTo(k, "done")
    /\ UNCHANGED <<session, leg, joined, starter, task, stopping, toDrop, finish,
                   outside, faults>>

OperatorDrop(c) ==
    /\ leg[c] \in Live
    /\ Dropped(c)
    /\ UNCHANGED <<room, session, joined, handlers, events, answered, faults>>

(* The engine hung up, but the answer or the update of the leg was lost.   *)
OperatorDropError(c) ==
    /\ SidecarErrors
    /\ leg[c] \in Live
    /\ pbx' = [pbx EXCEPT ![c] = HungUp(@)]
    /\ UNCHANGED <<database, handlers, events, answered, faults>>

-----------------------------------------------------------------------------
(* Faults.  Request handlers run under the request's context: when the     *)
(* client goes away their remaining statements fail, and the errors are    *)
(* ignored.  The fan-out and the watcher are only lost with the process,   *)
(* and nothing is repaired when it comes back.                             *)

Fault == faults < MaxFaults /\ faults' = faults + 1

Abandoned(pc) ==
    CASE pc \in {"queued", "posting", "erred"} -> "refused"
      [] pc = "joining" -> "done"
      [] pc \in {"idle", "done", "refused"} -> pc

(* The transaction is rolled back.                                         *)
AbandonStart(s) ==
    /\ Fault
    /\ starter[s] = "checked"
    /\ GoTo(s, "done")
    /\ UNCHANGED <<database, task, stops, finish, outside>>

(* Once the sidecar has answered, the watcher is started all the same;     *)
(* before, startRoom returns without being able to undo its transaction.   *)
AbandonHostDispatch(s) ==
    /\ Fault
    /\ starter[s] = "started"
    /\ task[HostCall(s)] \in {"queued", "posting", "erred", "joining"}
    /\ TaskTo(HostCall(s), Abandoned(task[HostCall(s)]))
    /\ GoTo(s, IF task[HostCall(s)] = "joining" THEN "started" ELSE "done")
    /\ UNCHANGED <<database, stops, finish, outside>>

AbandonAdd(p) ==
    /\ Fault
    /\ task[<<NoSession, p>>] \notin {"idle", "done", "refused"}
    /\ TaskTo(<<NoSession, p>>, Abandoned(task[<<NoSession, p>>]))
    /\ UNCHANGED <<database, starter, stops, finish, outside>>

AbandonStop(k) ==
    /\ Fault
    /\ stop[k] \in {"legs", "drop", "room"}
    /\ StopTo(k, "done")
    /\ UNCHANGED <<database, starter, task, stopping, toDrop, finish, outside>>

AbandonEvent(s) ==
    /\ Fault
    /\ finish[s] # "idle"
    /\ FinishTo(s, "idle")
    /\ UNCHANGED <<database, starter, task, stops, outside>>

Crash ==
    /\ Fault
    /\ starter' = [s \in Sessions |->
                      IF starter[s] = "idle" THEN "idle" ELSE "done"]
    /\ task' = [c \in Calls |-> Abandoned(task[c])]
    /\ stop' = [k \in Stoppers |->
                   IF stop[k] \in {"legs", "drop", "room"} THEN "done" ELSE stop[k]]
    /\ finish' = [s \in Sessions |-> "idle"]
    /\ UNCHANGED <<database, stopping, toDrop, outside>>

-----------------------------------------------------------------------------
StarterStep(s) ==
    \/ StartConflict(s) \/ StartCommit(s) \/ StartRefused(s)
    \/ WatchAnswered(s) \/ WatchEnded(s) \/ Deadline(s)
    \/ Activate(s) \/ Publish(s) \/ FanOut(s)
    \/ FailIfStarting(s) \/ FreeRoom(s)

TaskStep(c) ==
    \/ DispatchReject(c) \/ DispatchInsert(c)
    \/ OriginateOk(c) \/ OriginateError(c)
    \/ DispatchFailed(c) \/ DispatchJoin(c)

StopStep(k) ==
    \/ StopLegs(k) \/ StopClose(k) \/ StopRoom(k)
    \/ \E c \in Calls : StopDrop(k, c) \/ StopDropError(k, c)

FinishStep(s) == FinishSelect(s) \/ FinishClose(s) \/ FinishRoom(s)

PbxStep(c) == PbxAccept(c) \/ PbxAnswer(c) \/ PbxHangUp(c)

Next ==
    \/ \E s \in Sessions : StartCheck(s) \/ StarterStep(s) \/ FinishStep(s)
    \/ \E c \in Calls : TaskStep(c) \/ PbxStep(c)
                        \/ OperatorDrop(c) \/ OperatorDropError(c)
    \/ \E p \in Dialled : Add(p)
    \/ \E k \in Stoppers : StopSelect(k) \/ StopAlready(k) \/ StopStep(k)
    \/ \E e \in events : EventUpdate(e) \/ EventLost(e)
    \/ \E s \in Sessions : AbandonStart(s) \/ AbandonHostDispatch(s)
                           \/ AbandonEvent(s)
    \/ \E p \in Dialled : AbandonAdd(p)
    \/ \E k \in Stoppers : AbandonStop(k)
    \/ Crash

(* The code's own steps are taken: a goroutine that can run does run, and  *)
(* a sidecar answers, if only with an error after its 10 s engine timeout. *)
(* Nothing is assumed of operators, callers, events or faults.             *)
Fairness ==
    /\ \A s \in Sessions : WF_vars(StarterStep(s)) /\ WF_vars(FinishStep(s))
    /\ \A c \in Calls : WF_vars(TaskStep(c))
    /\ \A k \in Stoppers : WF_vars(StopStep(k))

Spec == Init /\ [][Next]_vars
FairSpec == Spec /\ Fairness

-----------------------------------------------------------------------------
(* Safety.                                                                 *)

(* startRoom never opens a second session, although its check of           *)
(* room_state is stale by the time it writes: the unique index does it.    *)
OneActiveSession == \A s, t \in ActiveSessions : s = t

(* Host first: a session runs, and a listener of it is dialled, only after *)
(* the PBX connected that session's own host (activateRoomAfterHost),      *)
(* whatever order the call-state events arrive in.                         *)
HostAnsweredFirst ==
    \A s \in Sessions :
        \/ HostCall(s) \in answered
        \/ /\ session[s] # "RUNNING"
           /\ \A l \in Listeners : leg[<<s, l>>] = "NONE"

(* The live dialer comes after a host, too: no participant is called with  *)
(* it before the PBX connected a host call of the room, as room_state,     *)
(* which is all it looks at, becomes RUNNING only through a watcher that   *)
(* saw its host answered, whatever stops and restarts overtake it.         *)
HostConnected == \E s \in Sessions : HostCall(s) \in answered
AddedAfterHost ==
    \A p \in Participants : leg[<<NoSession, p>>] # "NONE" => HostConnected

(* A room that is not READY has an open session, or a handler that closed  *)
(* one is about to free it.                                                *)
Owned ==
    \/ room = "READY"
    \/ ActiveSessions # {}
    \/ \E s \in Sessions : starter[s] = "freeRoom" \/ finish[s] = "room"
    \/ \E k \in Stoppers : stop[k] = "room"

(* Whoever closes a session writes READY next (startRoom 1131,             *)
(* activateRoomAfterHost 1184 and 1191, stopRoom 1216, finishHostSession   *)
(* 2459), so as long as no handler was cut short no room is stuck.         *)
HeldRoomHasOwner == faults = 0 => Owned

(* The sessions keep the promises of SessionContract: one at a time, and   *)
(* none is resurrected by the watcher, a late event or an unguarded write. *)
Contract == INSTANCE SessionContract WITH status <- session
SessionsKeepContract == Contract!Spec

-----------------------------------------------------------------------------
(* Liveness, with no handler cut short.                                    *)

(* A session does not stay STARTING: the host answers, the call ends, the  *)
(* dispatch is refused or the deadline of activateRoomAfterHost passes.    *)
StartResolves ==
    \A s \in Sessions : session[s] = "STARTING" ~> session[s] # "STARTING"

(* Nor does the room, whatever sessions overlap on it.                     *)
RoomLeavesStarting == room = "STARTING" ~> room # "STARTING"

(* A Stop Room that found a session closes it, even if commands to the     *)
(* sidecars fail and its calls end or fan out meanwhile.                   *)
StopCloses ==
    \A s \in Sessions, k \in Stoppers :
        stop[k] # "idle" /\ stopping[k] = s ~> session[s] \in Closed

-----------------------------------------------------------------------------
(* What the documentation says of the room and the code does not ensure.   *)

Quiet ==
    /\ events = {}
    /\ \A s \in Sessions : starter[s] \in {"idle", "done"} /\ finish[s] = "idle"
    /\ \A c \in Calls : task[c] \in {"idle", "done", "refused"}
    /\ \A k \in Stoppers : stop[k] \in {"idle", "done", "already"}

(* "Stop Room releases active calls": when Stop Room has finished and all  *)
(* is quiet, no call of the session it stopped is still up at the PBX.     *)
StopReleasesCalls ==
    Quiet => \A k \in Stoppers : stop[k] = "done" =>
                \A p \in Participants :
                    pbx[<<stopping[k], p>>] \in {"NONE", "ENDED"}

=============================================================================
