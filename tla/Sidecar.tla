------------------------------- MODULE Sidecar -------------------------------
(***************************************************************************)
(* One PBX sidecar and the engine beside it: the table of calls, the cache *)
(* of served commands and the counter of active calls (store), the command *)
(* handlers (originate, participantAction, roomMediaAction) and the poller *)
(* of call states (pollStates).                                            *)
(*                                                                         *)
(* Every stretch under the store's lock, every request to the engine and   *)
(* every use of the atomic counter is one step.  A command is delivered    *)
(* any number of times: the control API names it in an Idempotency-Key, on *)
(* which Go's HTTP transport repeats a request whose connection broke.  A  *)
(* restart loses the store; the engine is a process of its own and keeps   *)
(* its calls.  Events to the control API are left out: they carry what the *)
(* table holds (RoomLifecycle has their reordering and loss).              *)
(***************************************************************************)
EXTENDS Integers, FiniteSets

CONSTANTS
    Calls,          \* call ids
    PartyOf,        \* the participant a call was placed for
    Commands,       \* commands of the control API: [id, kind, call]
    Handlers,       \* HTTP requests served at a time
    MaxRestarts     \* bound on the restarts of the sidecar

Kinds == {"originate", "mute", "unmute", "drop", "room"}

(* The control API makes a fresh call id for every originate.              *)
ASSUME SidecarAssumption ==
    /\ IsFiniteSet(Calls) /\ IsFiniteSet(Handlers)
    /\ \A cmd \in Commands : cmd.kind \in Kinds /\ cmd.call \in Calls
    /\ \A a, b \in Commands :
          a.kind = "originate" /\ b.kind = "originate" /\ a.call = b.call => a = b
    /\ MaxRestarts \in Nat

VARIABLES
    table,      \* store.calls; state NONE where there is no entry
    cached,     \* the commands in store.commands
    active,     \* store.active
    restarts,   \* how often store.epoch was renewed
    pc,         \* per request: where its handler is
    cmd,        \* per request: its command
    poll,       \* where pollStates is
    listed,     \* its copies of the live calls; NONE where there is none left
    answer,     \* the call it is about to write back, and as what
    engine,     \* the calls of the engine
    ringing,    \* the calls whose progress the engine has yet to report
    accepted,   \* history: commands of this instance the engine accepted
    applied     \* history: how often this instance recorded a command

store == <<table, cached, active>>
poller == <<poll, listed, answer>>
media == <<engine, ringing>>
history == <<accepted, applied>>
vars == <<table, cached, active, restarts, pc, cmd, poll, listed, answer,
          engine, ringing, accepted, applied>>

Live(call) == call.state \in {"DISPATCHED", "ANSWERED"}
CallState == [state : {"NONE", "DISPATCHED", "ANSWERED", "ENDED", "DROPPED"},
              muted : BOOLEAN]
Absent == [state |-> "NONE", muted |-> TRUE]
LiveCalls == {c \in Calls : Live(table[c])}
At(point) == {h \in Handlers : pc[h] = point}

TypeOK ==
    /\ table \in [Calls -> CallState]
    /\ cached \subseteq Commands
    /\ active \in Int
    /\ restarts \in 0..MaxRestarts
    /\ pc \in [Handlers -> {"idle", "post", "record", "count"}]
    /\ cmd \in [Handlers -> Commands]
    /\ poll \in {"idle", "list", "write", "count"}
    /\ listed \in [Calls -> CallState]
    /\ answer \in Calls \X CallState
    /\ engine \in [Calls -> CallState]
    /\ ringing \subseteq Calls
    /\ accepted \subseteq Commands
    /\ applied \in [Commands -> Nat]

(* The store of a new process, its handlers and its poller.                *)
Fresh(t, done, n, q, p, copies, taken, count) ==
    /\ t = [c \in Calls |-> Absent]
    /\ done = {}
    /\ n = 0
    /\ q = [h \in Handlers |-> "idle"]
    /\ p = "idle"
    /\ copies = [c \in Calls |-> Absent]
    /\ taken = {}
    /\ count = [k \in Commands |-> 0]

Init ==
    /\ Fresh(table, cached, active, pc, poll, listed, accepted, applied)
    /\ restarts = 0
    /\ cmd \in [Handlers -> Commands]
    /\ answer \in Calls \X {Absent}
    /\ engine = [c \in Calls |-> Absent]
    /\ ringing = {}

Goto(h, point) == pc' = [pc EXCEPT ![h] = point]

-----------------------------------------------------------------------------
(* The engine.                                                             *)

(* What a command does to its call; a command for a room touches none.     *)
Effect(k, call) ==
    CASE k.kind = "originate" -> [state |-> "DISPATCHED", muted |-> TRUE]
      [] k.kind = "drop" -> [call EXCEPT !.state = "ENDED"]
      [] k.kind = "room" -> call
      [] OTHER -> [call EXCEPT !.muted = (k.kind = "mute")]

EngineEffect(k) ==
    /\ engine' = [engine EXCEPT ![k.call] = Effect(k, @)]
    /\ ringing' = IF k.kind = "originate" THEN ringing \union {k.call} ELSE ringing

(* A call is answered; a report that was under way when the call ended     *)
(* still overwrites its state.                                             *)
Progress(c) ==
    /\ c \in ringing
    /\ ringing' \in {ringing, ringing \ {c}}
    /\ engine' = [engine EXCEPT ![c].state = "ANSWERED"]
    /\ UNCHANGED <<store, restarts, pc, cmd, poller, history>>

(* The far end hangs up.                                                   *)
Hangup(c) ==
    /\ Live(engine[c])
    /\ engine' = [engine EXCEPT ![c].state = "ENDED"]
    /\ UNCHANGED <<store, restarts, pc, cmd, poller, ringing, history>>

-----------------------------------------------------------------------------
(* The command handlers.  A command in the cache is answered from it and   *)
(* changes nothing; the lock is released before the engine is asked.       *)

Receive(h, k) ==
    /\ pc[h] = "idle"
    /\ k \notin cached
    /\ cmd' = [cmd EXCEPT ![h] = k]
    /\ Goto(h, "post")
    /\ UNCHANGED <<store, restarts, poller, media, history>>

EngineAccepts(h) ==
    /\ pc[h] = "post"
    /\ EngineEffect(cmd[h])
    /\ accepted' = accepted \union {cmd[h]}
    /\ Goto(h, "record")
    /\ UNCHANGED <<store, restarts, cmd, poller, applied>>

(* A mutant: the answer is recorded although it is an error.               *)
EngineFails_Recorded(h) ==
    /\ pc[h] = "post"
    /\ Goto(h, "record")
    /\ UNCHANGED <<store, restarts, cmd, poller, media, history>>

(* 502 to the caller; an answer that came too late hides an effect.        *)
EngineFails(h) ==
    /\ pc[h] = "post"
    /\ EngineEffect(cmd[h]) \/ UNCHANGED <<engine, ringing>>
    /\ Goto(h, "idle")
    /\ UNCHANGED <<store, restarts, cmd, poller, history>>

(* A mutant: the command is not put into the cache.                        *)
Record_Forgotten(h) ==
    /\ pc[h] = "record"
    /\ applied' = [applied EXCEPT ![cmd[h]] = @ + 1]
    /\ UNCHANGED <<cached, restarts, cmd, poller, media, accepted>>

Record(h) ==
    /\ pc[h] = "record"
    /\ cached' = cached \union {cmd[h]}
    /\ applied' = [applied EXCEPT ![cmd[h]] = @ + 1]
    /\ UNCHANGED <<restarts, cmd, poller, media, accepted>>

(* The entry is made new, whatever it was; the counter is raised after the *)
(* lock is released.                                                       *)
RecordOriginate(h) ==
    /\ Record(h)
    /\ cmd[h].kind = "originate"
    /\ table' = [table EXCEPT ![cmd[h].call] = [state |-> "DISPATCHED", muted |-> TRUE]]
    /\ Goto(h, "count")
    /\ UNCHANGED active

(* Every call of the participant, ended ones included; a command for a     *)
(* room touches no call.                                                   *)
Touched(k) == {c \in Calls : /\ k.kind # "room"
                             /\ PartyOf[c] = PartyOf[k.call]
                             /\ table[c].state # "NONE"}

(* A mutant: the action is written where its state belongs.                *)
Acted_Name(k, call) == IF k.kind = "drop" THEN [call EXCEPT !.state = k.kind]
                       ELSE [call EXCEPT !.muted = (k.kind = "mute")]

Acted(k, call) == IF k.kind = "drop" THEN [call EXCEPT !.state = "DROPPED"]
                  ELSE [call EXCEPT !.muted = (k.kind = "mute")]

RecordAction(h) ==
    LET k == cmd[h] IN
    /\ Record(h)
    /\ k.kind # "originate"
    /\ table' = [c \in Calls |-> IF c \in Touched(k) THEN Acted(k, table[c]) ELSE table[c]]
    /\ active' = IF k.kind = "drop" THEN active - Cardinality(Touched(k)) ELSE active
    /\ Goto(h, "idle")

CountOriginate(h) ==
    /\ pc[h] = "count"
    /\ active' = active + 1
    /\ Goto(h, "idle")
    /\ UNCHANGED <<table, cached, restarts, cmd, poller, media, history>>

-----------------------------------------------------------------------------
(* pollStates.  The live calls are copied under the lock, the engine is    *)
(* asked about each without it, and what it says is written back over      *)
(* whatever the entry has become.                                          *)

(* A mutant: a call is polled only once it was seen answered.              *)
PollList_Answered ==
    /\ poll = "idle"
    /\ listed' = [c \in Calls |-> IF table[c].state = "ANSWERED" THEN table[c] ELSE Absent]
    /\ poll' = "list"
    /\ UNCHANGED <<store, restarts, pc, cmd, answer, media, history>>

PollList ==
    /\ poll = "idle"
    /\ listed' = [c \in Calls |-> IF Live(table[c]) THEN table[c] ELSE Absent]
    /\ poll' = "list"
    /\ UNCHANGED <<store, restarts, pc, cmd, answer, media, history>>

Unlist(c) == listed' = [listed EXCEPT ![c] = Absent]

PollGet(c) ==
    /\ poll = "list"
    /\ Live(listed[c])
    /\ engine[c].state # "NONE"
    /\ Unlist(c)
    /\ IF engine[c] = listed[c]
       THEN UNCHANGED <<poll, answer>>
       ELSE poll' = "write" /\ answer' = <<c, engine[c]>>
    /\ UNCHANGED <<store, restarts, pc, cmd, media, history>>

(* The engine does not know the call, or does not answer.                  *)
PollMiss(c) ==
    /\ poll = "list"
    /\ Live(listed[c])
    /\ Unlist(c)
    /\ UNCHANGED <<store, restarts, pc, cmd, poll, answer, media, history>>

(* A mutant: every changed state lowers the counter.                       *)
PollWrite_Any ==
    LET c == answer[1] IN
    /\ poll = "write"
    /\ table' = [table EXCEPT ![c] = answer[2]]
    /\ poll' = IF Live(table[c]) THEN "count" ELSE "list"
    /\ UNCHANGED <<cached, active, restarts, pc, cmd, listed, answer, media, history>>

PollWrite ==
    LET c == answer[1] IN
    /\ poll = "write"
    /\ table' = [table EXCEPT ![c] = answer[2]]
    /\ poll' = IF Live(table[c]) /\ ~Live(answer[2]) THEN "count" ELSE "list"
    /\ UNCHANGED <<cached, active, restarts, pc, cmd, listed, answer, media, history>>

PollCount ==
    /\ poll = "count"
    /\ active' = active - 1
    /\ poll' = "list"
    /\ UNCHANGED <<table, cached, restarts, pc, cmd, listed, answer, media, history>>

PollDone ==
    /\ poll = "list"
    /\ \A c \in Calls : ~Live(listed[c])
    /\ poll' = "idle"
    /\ UNCHANGED <<store, restarts, pc, cmd, listed, answer, media, history>>

-----------------------------------------------------------------------------
(* The process ends, with its handlers, and is started again.              *)
Restart ==
    /\ restarts < MaxRestarts
    /\ restarts' = restarts + 1
    /\ Fresh(table', cached', active', pc', poll', listed', accepted', applied')
    /\ UNCHANGED <<cmd, answer, media>>

HandlerStep(h) ==
    \/ EngineAccepts(h) \/ EngineFails(h)
    \/ RecordOriginate(h) \/ RecordAction(h) \/ CountOriginate(h)

Next ==
    \/ \E c \in Calls : Progress(c) \/ Hangup(c) \/ PollGet(c) \/ PollMiss(c)
    \/ \E h \in Handlers, k \in Commands : Receive(h, k)
    \/ \E h \in Handlers : HandlerStep(h)
    \/ PollList \/ PollWrite \/ PollCount \/ PollDone
    \/ Restart

Spec == Init /\ [][Next]_vars

(* The poller is one loop on a ticker; the engine is a local process that  *)
(* answers in the end when it is asked for ever.                           *)
FairSpec ==
    /\ Spec
    /\ WF_vars(PollList) /\ WF_vars(PollWrite)
    /\ WF_vars(PollCount) /\ WF_vars(PollDone)
    /\ \A c \in Calls : SF_vars(PollGet(c))

-----------------------------------------------------------------------------
(* A command is answered from the cache only if the engine took it, and an *)
(* entry of the table is a call the engine was asked to place.             *)
RecordedAfterEngine ==
    /\ cached \subseteq accepted
    /\ \A c \in Calls :
          table[c].state # "NONE" =>
              \E k \in accepted : k.kind = "originate" /\ k.call = c

(* The load a heartbeat reports: until an instance serves its first drop,  *)
(* and unless deliveries of an originate overlapped, the counter of active *)
(* calls is what the table holds, but for what is between the table and    *)
(* the counter.                                                            *)
CounterExact ==
    (\A k \in Commands : applied[k] <= IF k.kind = "drop" THEN 0 ELSE 1) =>
        active + Cardinality(At("count"))
            = Cardinality(LiveCalls) + (IF poll = "count" THEN 1 ELSE 0)

(* The requests past the look at the cache with command k.                 *)
Serving(k) == {h \in Handlers : pc[h] \in {"post", "record"} /\ cmd[h] = k}

(* The handlers keep the promises of CommandContract (originate 233-272,   *)
(* participantAction 302-343): the lock is released between the look at    *)
(* the cache and the record, and still nobody enters with a served command *)
(* and none is served that no engine took.                                 *)
Served == INSTANCE CommandContract WITH
    Deliveries <- Handlers, inside <- [k \in Commands |-> Serving(k)],
    taken <- accepted, served <- cached, times <- applied
CommandsKeepContract == Served!Spec

(* Once the engine is at rest the table comes to say what it says of every *)
(* call it holds as live, whatever stale copies were written back.         *)
TableConverges ==
    <>[][FALSE]_engine =>
        <>[](\A c \in Calls : Live(table[c]) => table[c] = engine[c])

=============================================================================
