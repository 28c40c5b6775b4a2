---------------------------- MODULE SidecarProofs ----------------------------
(***************************************************************************)
(* Safety of Sidecar for any calls, participants, commands, number of      *)
(* requests served at a time and number of restarts.                       *)
(***************************************************************************)
EXTENDS Sidecar, FiniteSetTheorems, TLAPS

PlacedFor(c) == \E k \in Commands : k.kind = "originate" /\ k.call = c /\ applied[k] > 0

(* What the handlers record was accepted, and the poller only knows calls  *)
(* of the table.                                                           *)
Recorded ==
    /\ \A k \in Commands : applied[k] > 0 => k \in accepted
    /\ cached \subseteq accepted
    /\ \A h \in Handlers : pc[h] = "record" => cmd[h] \in accepted
    /\ \A c \in Calls : table[c].state # "NONE" => PlacedFor(c)
    /\ \A c \in Calls : Live(listed[c]) => PlacedFor(c)
    /\ poll = "write" => PlacedFor(answer[1])

(* No drop was served and no originate twice.                              *)
Undisturbed == \A k \in Commands : applied[k] <= IF k.kind = "drop" THEN 0 ELSE 1

(* Then only the poller ends a call of the table, each call once a round.  *)
PollerOwns ==
    Undisturbed =>
        /\ \A c \in Calls : Live(listed[c]) => Live(table[c])
        /\ poll = "write" => Live(table[answer[1]]) /\ ~Live(listed[answer[1]])

SidecarInv ==
    /\ TypeOK
    /\ Recorded
    /\ PollerOwns
    /\ CounterExact

LEMMA EffectType ==
    ASSUME TypeOK, NEW k \in Commands, EngineEffect(k)
    PROVE  engine' \in [Calls -> CallState] /\ ringing' \subseteq Calls
<1>1. engine[k.call] \in CallState
  BY SidecarAssumption DEF TypeOK
<1>2. Effect(k, engine[k.call]) \in CallState
  BY <1>1 DEF Effect, CallState
<1> QED
  BY <1>2, SidecarAssumption DEF TypeOK, EngineEffect

LEMMA AbsentType == Absent \in CallState
  BY DEF Absent, CallState

(* Type correctness.                                                       *)
LEMMA TypeStep == TypeOK /\ [Next]_vars => TypeOK'
<1> SUFFICES ASSUME TypeOK, [Next]_vars PROVE TypeOK'
  OBVIOUS
<1> USE SidecarAssumption
<1> USE DEF TypeOK, store, poller, media, history, Goto
<1>1. ASSUME NEW c \in Calls, Progress(c) PROVE TypeOK'
  BY <1>1 DEF Progress, CallState
<1>2. ASSUME NEW c \in Calls, Hangup(c) PROVE TypeOK'
  BY <1>2 DEF Hangup, CallState
<1>3. ASSUME NEW c \in Calls, PollGet(c) PROVE TypeOK'
  BY <1>3, AbsentType DEF PollGet, Unlist
<1>4. ASSUME NEW c \in Calls, PollMiss(c) PROVE TypeOK'
  BY <1>4, AbsentType DEF PollMiss, Unlist
<1>5. ASSUME NEW h \in Handlers, NEW k \in Commands, Receive(h, k) PROVE TypeOK'
  BY <1>5 DEF Receive
<1>6. ASSUME NEW h \in Handlers, EngineAccepts(h) PROVE TypeOK'
  BY <1>6, EffectType DEF EngineAccepts
<1>7. ASSUME NEW h \in Handlers, EngineFails(h) PROVE TypeOK'
  BY <1>7, EffectType DEF EngineFails
<1>8. ASSUME NEW h \in Handlers, RecordOriginate(h) PROVE TypeOK'
  <2>1. [state |-> "DISPATCHED", muted |-> TRUE] \in CallState
    BY DEF CallState
  <2> QED BY <1>8, <2>1 DEF RecordOriginate, Record
<1>9. ASSUME NEW h \in Handlers, RecordAction(h) PROVE TypeOK'
  <2>1. cmd[h] \in Commands
    OBVIOUS
  <2>2. \A c \in Calls : Acted(cmd[h], table[c]) \in CallState
    BY <2>1 DEF Acted, CallState
  <2>3. table' \in [Calls -> CallState]
    BY <1>9, <2>2 DEF RecordAction
  <2>4. Cardinality(Touched(cmd[h])) \in Nat
    BY FS_Subset, FS_CardinalityType DEF Touched
  <2>5. active' \in Int
    BY <1>9, <2>4 DEF RecordAction
  <2> QED BY <1>9, <2>1, <2>3, <2>5 DEF RecordAction, Record
<1>10. ASSUME NEW h \in Handlers, CountOriginate(h) PROVE TypeOK'
  BY <1>10 DEF CountOriginate
<1>11. ASSUME PollList PROVE TypeOK'
  BY <1>11, AbsentType DEF PollList
<1>12. ASSUME PollWrite PROVE TypeOK'
  BY <1>12 DEF PollWrite
<1>13. ASSUME PollCount PROVE TypeOK'
  BY <1>13 DEF PollCount
<1>14. ASSUME PollDone PROVE TypeOK'
  BY <1>14 DEF PollDone
<1>15. ASSUME Restart PROVE TypeOK'
  BY <1>15, AbsentType DEF Restart, Fresh
<1>16. CASE UNCHANGED vars
  BY <1>16 DEF vars
<1> QED
  BY <1>1, <1>2, <1>3, <1>4, <1>5, <1>6, <1>7, <1>8, <1>9, <1>10, <1>11, <1>12, <1>13,
     <1>14, <1>15, <1>16 DEF Next, HandlerStep

(* Histories only grow while the instance lives.                           *)
LEMMA PlacedKept ==
    ASSUME TypeOK, TypeOK', \A k \in Commands : applied'[k] >= applied[k], NEW c, PlacedFor(c)
    PROVE  PlacedFor(c)'
  BY DEF PlacedFor, TypeOK

LEMMA Grows ==
    ASSUME TypeOK, [Next]_vars, ~Restart
    PROVE  /\ \A k \in Commands : applied'[k] >= applied[k]
           /\ accepted \subseteq accepted'
<1>1. CASE \/ \E h \in Handlers : RecordOriginate(h) \/ RecordAction(h)
  BY <1>1 DEF RecordOriginate, RecordAction, Record, TypeOK
<1>2. CASE applied' = applied /\ accepted \subseteq accepted'
  BY <1>2 DEF TypeOK
<1> QED
  BY <1>1, <1>2 DEF Next, HandlerStep, Progress, Hangup, PollGet, PollMiss, Receive, EngineAccepts,
     EngineFails, CountOriginate, PollList, PollWrite, PollCount, PollDone, history, vars

LEMMA RecordedStep == TypeOK /\ TypeOK' /\ Recorded /\ [Next]_vars => Recorded'
<1> SUFFICES ASSUME TypeOK, TypeOK', Recorded, [Next]_vars PROVE Recorded'
  OBVIOUS
<1> USE SidecarAssumption
<1>1. CASE Restart
  BY <1>1 DEF Restart, Fresh, Recorded, Absent, Live
<1> SUFFICES ASSUME ~Restart PROVE Recorded'
  BY <1>1
<1>2. \A c \in Calls : PlacedFor(c) => PlacedFor(c)'
  BY PlacedKept, Grows
<1>3. accepted \subseteq accepted'
  BY Grows
<1>4. CASE \/ \E c \in Calls : Progress(c) \/ Hangup(c) \/ PollMiss(c)
           \/ \E h \in Handlers, k \in Commands : Receive(h, k)
           \/ \E h \in Handlers : EngineFails(h) \/ CountOriginate(h)
           \/ PollCount \/ PollDone
           \/ UNCHANGED vars
  <2>1. table' = table /\ applied' = applied /\ cached' = cached /\ accepted' = accepted
    BY <1>4 DEF Progress, Hangup, PollMiss, Receive, EngineFails, CountOriginate, PollCount,
                PollDone, store, history, vars
  <2>2. \A h \in Handlers : pc'[h] = "record" => pc[h] = "record" /\ cmd'[h] = cmd[h]
    BY <1>4 DEF Progress, Hangup, PollMiss, Receive, EngineFails, CountOriginate, PollCount,
                PollDone, Goto, TypeOK, vars
  <2>3. /\ answer' = answer
        /\ poll' = "write" => poll = "write"
    BY <1>4 DEF Progress, Hangup, PollMiss, Receive, EngineFails, CountOriginate, PollCount,
                PollDone, poller, vars
  <2>4. \A c \in Calls : Live(listed'[c]) => Live(listed[c])
    BY <1>4 DEF Progress, Hangup, PollMiss, Receive, EngineFails, CountOriginate, PollCount,
                PollDone, poller, vars, Unlist, Live, Absent, TypeOK
  <2> QED BY <1>2, <2>1, <2>2, <2>3, <2>4 DEF Recorded, TypeOK
<1>5. ASSUME NEW h \in Handlers, EngineAccepts(h) PROVE Recorded'
  BY <1>2, <1>5 DEF EngineAccepts, Goto, Recorded, TypeOK, store, poller, PlacedFor
<1>6. ASSUME NEW h \in Handlers, RecordOriginate(h) PROVE Recorded'
  <2>1. cmd[h] \in Commands /\ cmd[h] \in accepted
    BY <1>6 DEF RecordOriginate, Record, Recorded, TypeOK
  <2>2. PlacedFor(cmd[h].call)'
    BY <1>6, <2>1 DEF RecordOriginate, Record, PlacedFor, TypeOK
  <2>3. \A c \in Calls : c # cmd[h].call => table'[c] = table[c]
    BY <1>6 DEF RecordOriginate, TypeOK
  <2> QED BY <1>2, <1>6, <2>1, <2>2, <2>3 DEF RecordOriginate, Record, Recorded, Goto, TypeOK,
             poller
<1>7. ASSUME NEW h \in Handlers, RecordAction(h) PROVE Recorded'
  <2>1. cmd[h] \in Commands /\ cmd[h] \in accepted
    BY <1>7 DEF RecordAction, Record, Recorded, TypeOK
  <2>2. \A c \in Calls : table'[c].state # "NONE" => table[c].state # "NONE"
    BY <1>7 DEF RecordAction, Touched
  <2> QED BY <1>2, <1>7, <2>1, <2>2 DEF RecordAction, Record, Recorded, Goto, TypeOK, poller
<1>8. CASE PollList
  BY <1>2, <1>8 DEF PollList, Recorded, Live, Absent, store, history
<1>9. ASSUME NEW c \in Calls, PollGet(c) PROVE Recorded'
  <2>1. \A d \in Calls : Live(listed'[d]) => Live(listed[d])
    BY <1>9 DEF PollGet, Unlist, Live, Absent, TypeOK
  <2>2. poll' = "write" => answer'[1] = c
    BY <1>9 DEF PollGet
  <2> QED BY <1>2, <1>9, <2>1, <2>2 DEF PollGet, Recorded, store, history
<1>10. CASE PollWrite
  <2>1. answer[1] \in Calls /\ PlacedFor(answer[1])
    BY <1>10 DEF PollWrite, Recorded, TypeOK
  <2>2. \A c \in Calls : c # answer[1] => table'[c] = table[c]
    BY <1>10 DEF PollWrite, TypeOK
  <2>3. poll' # "write"
    BY <1>10 DEF PollWrite
  <2> QED BY <1>2, <1>10, <2>1, <2>2, <2>3 DEF PollWrite, Recorded, history
<1> QED
  BY <1>4, <1>5, <1>6, <1>7, <1>8, <1>9, <1>10 DEF Next, HandlerStep

LEMMA StaysUndisturbed ==
    ASSUME TypeOK, TypeOK', [Next]_vars, ~Restart, Undisturbed'
    PROVE  Undisturbed
  BY Grows DEF Undisturbed, TypeOK

(* An originate that is recorded for the first time finds no entry.        *)
LEMMA OriginateNew ==
    ASSUME TypeOK, Recorded, NEW h \in Handlers, RecordOriginate(h), Undisturbed'
    PROVE  table[cmd[h].call].state = "NONE"
<1>1. cmd[h] \in Commands /\ cmd[h].kind = "originate" /\ cmd[h].call \in Calls
  BY SidecarAssumption DEF RecordOriginate, TypeOK
<1>2. applied[cmd[h]] = 0
  <2>1. applied \in [Commands -> Nat] /\ applied[cmd[h]] \in Nat
    BY <1>1 DEF TypeOK
  <2>2. applied' = [applied EXCEPT ![cmd[h]] = @ + 1]
    BY DEF RecordOriginate, Record
  <2>3. applied'[cmd[h]] = applied[cmd[h]] + 1
    BY <1>1, <2>1, <2>2
  <2>4. applied'[cmd[h]] <= 1
    BY <1>1 DEF Undisturbed
  <2> QED BY <2>1, <2>3, <2>4
<1>3. ~PlacedFor(cmd[h].call)
  BY <1>1, <1>2, SidecarAssumption DEF PlacedFor
<1> QED
  BY <1>1, <1>3 DEF Recorded

(* Without drops an action leaves the state of every entry.                *)
LEMMA ActionKeepsState ==
    ASSUME TypeOK, NEW h \in Handlers, RecordAction(h), Undisturbed'
    PROVE  /\ \A c \in Calls : table'[c].state = table[c].state
           /\ active' = active
<1>1. cmd[h] \in Commands
  BY DEF TypeOK
<1>2. applied'[cmd[h]] = applied[cmd[h]] + 1 /\ applied[cmd[h]] \in Nat
  BY <1>1 DEF RecordAction, Record, TypeOK
<1>3. cmd[h].kind # "drop"
  BY <1>1, <1>2 DEF Undisturbed
<1>4. \A c \in Calls : Acted(cmd[h], table[c]).state = table[c].state
  BY <1>3 DEF Acted, TypeOK, CallState
<1> QED
  BY <1>3, <1>4 DEF RecordAction

LEMMA PollerStep == TypeOK /\ TypeOK' /\ Recorded /\ PollerOwns /\ [Next]_vars => PollerOwns'
<1> SUFFICES ASSUME TypeOK, TypeOK', Recorded, PollerOwns, [Next]_vars PROVE PollerOwns'
  OBVIOUS
<1>1. CASE Restart
  BY <1>1 DEF Restart, Fresh, PollerOwns, Absent, Live
<1> SUFFICES ASSUME ~Restart, Undisturbed'
             PROVE  /\ \A c \in Calls : Live(listed'[c]) => Live(table'[c])
                    /\ poll' = "write" => Live(table'[answer'[1]]) /\ ~Live(listed'[answer'[1]])
  BY <1>1 DEF PollerOwns, Live
<1>2. /\ \A c \in Calls : Live(listed[c]) => Live(table[c])
      /\ poll = "write" => Live(table[answer[1]]) /\ ~Live(listed[answer[1]])
  BY StaysUndisturbed DEF PollerOwns
<1>3. answer[1] \in Calls
  BY DEF TypeOK
<1>4. CASE \/ \E c \in Calls : Progress(c) \/ Hangup(c)
           \/ \E h \in Handlers, k \in Commands : Receive(h, k)
           \/ \E h \in Handlers : EngineAccepts(h) \/ EngineFails(h) \/ CountOriginate(h)
           \/ PollCount \/ PollDone
           \/ UNCHANGED vars
  <2>1. table' = table /\ listed' = listed /\ answer' = answer /\ (poll' = "write" => poll = "write")
    BY <1>4 DEF Progress, Hangup, Receive, EngineAccepts, EngineFails, CountOriginate,
                PollCount, PollDone, store, poller, vars
  <2> QED BY <1>2, <2>1
<1>5. ASSUME NEW h \in Handlers, RecordOriginate(h) \/ RecordAction(h)
      PROVE  /\ \A c \in Calls : Live(listed'[c]) => Live(table'[c])
             /\ poll' = "write" => Live(table'[answer'[1]]) /\ ~Live(listed'[answer'[1]])
  <2>1. listed' = listed /\ answer' = answer /\ poll' = poll
    BY <1>5 DEF RecordOriginate, RecordAction, Record, poller
  <2>2. \A c \in Calls : Live(table[c]) => Live(table'[c])
    BY <1>5, ActionKeepsState DEF RecordOriginate, Live, TypeOK
  <2> QED BY <1>2, <1>3, <2>1, <2>2
<1>6. ASSUME NEW c \in Calls, PollGet(c) \/ PollMiss(c)
      PROVE  /\ \A d \in Calls : Live(listed'[d]) => Live(table'[d])
             /\ poll' = "write" => Live(table'[answer'[1]]) /\ ~Live(listed'[answer'[1]])
  <2>1. table' = table /\ Live(listed[c]) /\ listed' = [listed EXCEPT ![c] = Absent]
    BY <1>6 DEF PollGet, PollMiss, Unlist, store
  <2>2. \A d \in Calls : Live(listed'[d]) => Live(listed[d])
    BY <2>1 DEF Live, Absent, TypeOK
  <2>3. poll' = "write" => answer'[1] = c /\ ~Live(listed'[c])
    BY <1>6, <2>1 DEF PollGet, PollMiss, Live, Absent, TypeOK
  <2> QED BY <1>2, <2>1, <2>2, <2>3
<1>7. CASE PollList
  BY <1>7 DEF PollList, Live, Absent, store
<1>8. CASE PollWrite
  BY <1>2, <1>3, <1>8 DEF PollWrite, Live, TypeOK
<1> QED
  BY <1>4, <1>5, <1>6, <1>7, <1>8 DEF Next, HandlerStep

(* The terms of CounterExact.                                              *)
LEMMA CountsFinite ==
    /\ IsFiniteSet(Handlers) /\ IsFiniteSet(At("count")) /\ Cardinality(At("count")) \in Nat
    /\ IsFiniteSet(Calls) /\ IsFiniteSet(LiveCalls) /\ Cardinality(LiveCalls) \in Nat
  BY SidecarAssumption, FS_Subset, FS_CardinalityType DEF At, LiveCalls

LEMMA CounterStep ==
    TypeOK /\ TypeOK' /\ Recorded /\ PollerOwns /\ CounterExact /\ [Next]_vars => CounterExact'
<1> SUFFICES ASSUME TypeOK, TypeOK', Recorded, PollerOwns, CounterExact, [Next]_vars
             PROVE  CounterExact'
  OBVIOUS
<1> DEFINE Pending == IF poll = "count" THEN 1 ELSE 0
<1>1. CASE Restart
  <2>1. active' = 0 /\ poll' = "idle" /\ At("count")' = {} /\ LiveCalls' = {}
    BY <1>1 DEF Restart, Fresh, At, LiveCalls, Live, Absent
  <2> QED BY <2>1, FS_EmptySet DEF CounterExact
<1> SUFFICES ASSUME ~Restart, Undisturbed'
             PROVE  active' + Cardinality(At("count")') = Cardinality(LiveCalls') + Pending'
  BY <1>1 DEF CounterExact, Undisturbed
<1>2. active + Cardinality(At("count")) = Cardinality(LiveCalls) + Pending
  BY StaysUndisturbed DEF CounterExact, Undisturbed
<1>3. active \in Int /\ Pending \in Nat
  BY DEF TypeOK
<1>4. CASE \/ \E c \in Calls : Progress(c) \/ Hangup(c) \/ PollGet(c) \/ PollMiss(c)
           \/ \E h \in Handlers, k \in Commands : Receive(h, k)
           \/ \E h \in Handlers : EngineAccepts(h) \/ EngineFails(h)
           \/ PollList \/ PollDone
           \/ UNCHANGED vars
  <2>1. table' = table /\ active' = active /\ (poll' = "count" <=> poll = "count")
    BY <1>4 DEF Progress, Hangup, PollGet, PollMiss, Receive, EngineAccepts, EngineFails,
                PollList, PollDone, store, poller, vars, TypeOK
  <2>2. \A h \in Handlers : pc'[h] = "count" <=> pc[h] = "count"
    BY <1>4 DEF Progress, Hangup, PollGet, PollMiss, Receive, EngineAccepts, EngineFails,
                PollList, PollDone, Goto, vars, TypeOK
  <2> QED BY <1>2, <2>1, <2>2 DEF At, LiveCalls
<1>5. ASSUME NEW h \in Handlers, RecordOriginate(h)
      PROVE  active' + Cardinality(At("count")') = Cardinality(LiveCalls') + Pending'
  <2>1. cmd[h].call \in Calls /\ cmd[h].call \notin LiveCalls
    BY <1>5, OriginateNew, SidecarAssumption DEF LiveCalls, Live, TypeOK
  <2>2. LiveCalls' = LiveCalls \union {cmd[h].call}
    BY <1>5, <2>1 DEF RecordOriginate, LiveCalls, Live, TypeOK
  <2>3. At("count")' = At("count") \union {h} /\ h \notin At("count")
    BY <1>5 DEF RecordOriginate, Record, Goto, At, TypeOK
  <2>4. active' = active /\ poll' = poll
    BY <1>5 DEF RecordOriginate, Record, poller
  <2>5. /\ Cardinality(LiveCalls') = Cardinality(LiveCalls) + 1
        /\ Cardinality(At("count")') = Cardinality(At("count")) + 1
    BY <2>1, <2>2, <2>3, CountsFinite, FS_AddElement
  <2> QED BY <1>2, <1>3, <2>4, <2>5, CountsFinite
<1>6. ASSUME NEW h \in Handlers, RecordAction(h)
      PROVE  active' + Cardinality(At("count")') = Cardinality(LiveCalls') + Pending'
  <2>1. LiveCalls' = LiveCalls /\ active' = active
    BY <1>6, ActionKeepsState DEF LiveCalls, Live
  <2>2. At("count")' = At("count") /\ poll' = poll
    BY <1>6 DEF RecordAction, Record, Goto, At, TypeOK, poller
  <2> QED BY <1>2, <2>1, <2>2
<1>7. ASSUME NEW h \in Handlers, CountOriginate(h)
      PROVE  active' + Cardinality(At("count")') = Cardinality(LiveCalls') + Pending'
  <2>1. At("count")' = At("count") \ {h} /\ h \in At("count")
    BY <1>7 DEF CountOriginate, Goto, At, TypeOK
  <2>2. active' = active + 1 /\ poll' = poll /\ LiveCalls' = LiveCalls
    BY <1>7 DEF CountOriginate, poller, LiveCalls
  <2>3. Cardinality(At("count")') = Cardinality(At("count")) - 1
    BY <2>1, CountsFinite, FS_RemoveElement
  <2> QED BY <1>2, <1>3, <2>2, <2>3, CountsFinite
<1>8. CASE PollWrite
  <2> DEFINE c == answer[1]
  <2>1. c \in Calls /\ c \in LiveCalls
    BY <1>8, StaysUndisturbed DEF PollWrite, PollerOwns, LiveCalls, TypeOK
  <2>2. active' = active /\ At("count")' = At("count") /\ poll = "write"
    BY <1>8 DEF PollWrite, At
  <2>3. CASE Live(answer[2])
    <3>1. LiveCalls' = LiveCalls /\ poll' = "list"
      BY <1>8, <2>1, <2>3 DEF PollWrite, LiveCalls, Live, TypeOK
    <3> QED BY <1>2, <2>2, <3>1
  <2>4. CASE ~Live(answer[2])
    <3>1. LiveCalls' = LiveCalls \ {c} /\ poll' = "count"
      BY <1>8, <2>1, <2>4 DEF PollWrite, LiveCalls, Live, TypeOK
    <3>2. Cardinality(LiveCalls') = Cardinality(LiveCalls) - 1
      BY <2>1, <3>1, CountsFinite, FS_RemoveElement
    <3> QED BY <1>2, <1>3, <2>2, <3>1, <3>2, CountsFinite
  <2> QED BY <2>3, <2>4
<1>9. CASE PollCount
  <2>1. active' = active - 1 /\ poll = "count" /\ poll' = "list"
    BY <1>9 DEF PollCount
  <2>2. At("count")' = At("count") /\ LiveCalls' = LiveCalls
    BY <1>9 DEF PollCount, At, LiveCalls
  <2> QED BY <1>2, <1>3, <2>1, <2>2, CountsFinite
<1> QED
  BY <1>4, <1>5, <1>6, <1>7, <1>8, <1>9 DEF Next, HandlerStep

LEMMA InitInv == Init => SidecarInv
<1> SUFFICES ASSUME Init PROVE SidecarInv
  OBVIOUS
<1> USE SidecarAssumption
<1>1. TypeOK
  BY AbsentType DEF Init, Fresh, TypeOK
<1>3. Recorded /\ PollerOwns
  BY DEF Init, Fresh, Recorded, PollerOwns, Live, Absent
<1>4. CounterExact
  <2>1. active = 0 /\ poll = "idle" /\ At("count") = {} /\ LiveCalls = {}
    BY DEF Init, Fresh, At, LiveCalls, Live, Absent
  <2> QED BY <2>1, FS_EmptySet DEF CounterExact
<1> QED
  BY <1>1, <1>3, <1>4 DEF SidecarInv

LEMMA InvStep == SidecarInv /\ [Next]_vars => SidecarInv'
  BY TypeStep, RecordedStep, PollerStep, CounterStep DEF SidecarInv

LEMMA InvHolds == Spec => []SidecarInv
  BY InitInv, InvStep, PTL DEF Spec

(* Every variable keeps its type.                                          *)
THEOREM SidecarTypeCorrect == Spec => []TypeOK
<1>1. SidecarInv => TypeOK
  BY DEF SidecarInv
<1> QED BY <1>1, InvHolds, PTL

(* The cache and the table hold only what the engine was asked for and     *)
(* took.                                                                   *)
THEOREM EngineFirst == Spec => []RecordedAfterEngine
<1>1. SidecarInv => RecordedAfterEngine
  BY DEF SidecarInv, Recorded, PlacedFor, RecordedAfterEngine
<1> QED BY <1>1, InvHolds, PTL

(* The counter of active calls is exact until the first drop.              *)
THEOREM CounterFollowsTable == Spec => []CounterExact
<1>1. SidecarInv => CounterExact
  BY DEF SidecarInv
<1> QED BY <1>1, InvHolds, PTL

(* What the actions do to the deliveries past the cache.                   *)
LEMMA ServingEnters ==
    ASSUME TypeOK, NEW h \in Handlers, NEW k \in Commands, Receive(h, k)
    PROVE  /\ \A j \in Commands : h \notin Serving(j)
           /\ \A j \in Commands :
                 Serving(j)' = IF j = k THEN Serving(j) \union {h} ELSE Serving(j)
<1>1. /\ pc[h] = "idle"
      /\ pc' = [pc EXCEPT ![h] = "post"] /\ cmd' = [cmd EXCEPT ![h] = k]
  BY DEF Receive, Goto
<1>2. \A g \in Handlers : /\ pc'[g] = IF g = h THEN "post" ELSE pc[g]
                          /\ cmd'[g] = IF g = h THEN k ELSE cmd[g]
  BY <1>1 DEF TypeOK
<1> QED
  BY <1>1, <1>2 DEF Serving

LEMMA ServingLeaves ==
    ASSUME TypeOK, NEW h \in Handlers, pc[h] \in {"post", "record"}, cmd' = cmd,
           NEW point \in {"idle", "count"}, Goto(h, point)
    PROVE  \A j \in Commands :
              Serving(j)' = IF j = cmd[h] THEN Serving(j) \ {h} ELSE Serving(j)
<1>1. \A g \in Handlers : pc'[g] = IF g = h THEN point ELSE pc[g]
  BY DEF TypeOK, Goto
<1> QED
  BY <1>1 DEF Serving

(* A step of the sidecar is a step of the contract, or none.               *)
LEMMA ContractStep == SidecarInv /\ [Next]_vars => [Served!Next]_(Served!vars)
<1> SUFFICES ASSUME SidecarInv, [Next]_vars PROVE [Served!Next]_(Served!vars)
  OBVIOUS
<1> USE DEF SidecarInv, store, poller, media, history
<1>t. TypeOK /\ \A h \in Handlers : cmd[h] \in Commands
  BY DEF TypeOK
<1> DEFINE Past == [k \in Commands |-> Serving(k)]
<1>1. ASSUME NEW h \in Handlers, NEW k \in Commands, Receive(h, k)
      PROVE  Served!Enter(h, k)
  <2>1. /\ \A j \in Commands : h \notin Past[j]
        /\ Past' = [Past EXCEPT ![k] = @ \union {h}]
    BY <1>1, <1>t, ServingEnters
  <2>2. k \notin cached /\ UNCHANGED <<accepted, cached, applied>>
    BY <1>1 DEF Receive
  <2> QED BY <2>1, <2>2 DEF Served!Enter
<1>2. ASSUME NEW h \in Handlers, EngineAccepts(h)
      PROVE  Served!Take(cmd[h])
  <2>1. h \in Past[cmd[h]]
    BY <1>2, <1>t DEF EngineAccepts, Serving
  <2>2. \A j \in Commands : Serving(j)' = Serving(j)
    <3>1. pc[h] = "post" /\ cmd' = cmd /\ pc' = [pc EXCEPT ![h] = "record"]
      BY <1>2 DEF EngineAccepts, Goto
    <3>2. \A g \in Handlers : pc'[g] = IF g = h THEN "record" ELSE pc[g]
      BY <1>t, <3>1 DEF TypeOK
    <3> QED BY <3>1, <3>2 DEF Serving
  <2>3. Past' = Past
    BY <2>2
  <2>4. accepted' = accepted \union {cmd[h]} /\ UNCHANGED <<cached, applied>>
    BY <1>2 DEF EngineAccepts
  <2> QED BY <2>1, <2>3, <2>4 DEF Served!Take
<1>3. ASSUME NEW h \in Handlers, EngineFails(h)
      PROVE  Served!Fail(h, cmd[h])
  <2>1. pc[h] = "post" /\ cmd' = cmd /\ Goto(h, "idle")
    BY <1>3 DEF EngineFails
  <2>2. h \in Past[cmd[h]]
    BY <1>t, <2>1 DEF Serving
  <2>3. Past' = [Past EXCEPT ![cmd[h]] = @ \ {h}]
    BY <1>t, <2>1, ServingLeaves
  <2>4. UNCHANGED <<accepted, cached, applied>>
    BY <1>3 DEF EngineFails
  <2> QED BY <2>2, <2>3, <2>4 DEF Served!Fail, Served!Leave
<1>4. ASSUME NEW h \in Handlers, RecordOriginate(h) \/ RecordAction(h)
      PROVE  Served!Serve(h, cmd[h])
  <2>1. Record(h) /\ (Goto(h, "idle") \/ Goto(h, "count"))
    BY <1>4 DEF RecordOriginate, RecordAction
  <2>2. pc[h] = "record" /\ cmd' = cmd
    BY <2>1 DEF Record
  <2>3. h \in Past[cmd[h]]
    BY <1>t, <2>2 DEF Serving
  <2>4. Past' = [Past EXCEPT ![cmd[h]] = @ \ {h}]
    BY <1>t, <2>1, <2>2, ServingLeaves
  <2>5. cmd[h] \in accepted
    BY <2>2 DEF Recorded
  <2>6. /\ cached' = cached \union {cmd[h]}
        /\ applied' = [applied EXCEPT ![cmd[h]] = @ + 1]
        /\ accepted' = accepted
    BY <2>1 DEF Record
  <2> QED BY <2>3, <2>4, <2>5, <2>6 DEF Served!Serve, Served!Leave
<1>5. ASSUME Restart PROVE Served!Forget
  <2>1. \A k \in Commands : Serving(k)' = {}
    BY <1>5 DEF Restart, Fresh, Serving
  <2> QED BY <1>5, <2>1 DEF Restart, Fresh, Served!Forget
<1>6. ASSUME NEW h \in Handlers, CountOriginate(h) PROVE UNCHANGED Served!vars
  <2>1. pc[h] = "count" /\ cmd' = cmd /\ pc' = [pc EXCEPT ![h] = "idle"]
    BY <1>6 DEF CountOriginate, Goto
  <2>2. \A g \in Handlers : pc'[g] = IF g = h THEN "idle" ELSE pc[g]
    BY <1>t, <2>1 DEF TypeOK
  <2>3. \A k \in Commands : Serving(k)' = Serving(k)
    BY <2>1, <2>2 DEF Serving
  <2> QED BY <1>6, <2>3 DEF CountOriginate, Served!vars
<1>7. ASSUME \/ \E c \in Calls : Progress(c) \/ Hangup(c) \/ PollGet(c) \/ PollMiss(c)
             \/ PollList \/ PollWrite \/ PollCount \/ PollDone
             \/ UNCHANGED vars
      PROVE  UNCHANGED Served!vars
  <2>1. UNCHANGED <<pc, cmd, accepted, cached, applied>>
    BY <1>7 DEF Progress, Hangup, PollGet, PollMiss, PollList, PollWrite, PollCount, PollDone,
                vars
  <2> QED BY <2>1 DEF Serving, Served!vars
<1> QED
  BY <1>t, <1>1, <1>2, <1>3, <1>4, <1>5, <1>6, <1>7 DEF Next, HandlerStep, Served!Next

(* The sidecar implements CommandContract: whatever handlers overlap and   *)
(* whenever the process is started again, a command that was served lets   *)
(* no further delivery in, and none is served that no engine took.         *)
THEOREM CommandsKept == Spec => CommandsKeepContract
<1>1. Init => Served!Init
  <2>1. Init => \A k \in Commands : Serving(k) = {}
    BY DEF Init, Fresh, Serving
  <2> QED BY <2>1 DEF Init, Fresh, Served!Init
<1>2. SidecarInv /\ [Next]_vars => [Served!Next]_(Served!vars)
  BY ContractStep
<1> QED BY <1>1, <1>2, InvHolds, PTL DEF Spec, CommandsKeepContract, Served!Spec

(* The contract alone closes a command that was served: no delivery that   *)
(* comes later gets past the cache with it, until the process forgets, and *)
(* what is answered from the cache was taken by the engine.                *)
THEOREM ContractSuffices ==
    CommandsKeepContract =>
        /\ [](cached \subseteq accepted)
        /\ [][\A k \in cached : Serving(k)' \subseteq Serving(k)]_(Served!vars)
<1> DEFINE Past == [k \in Commands |-> Serving(k)]
           Closed == \A k \in cached : Serving(k)' \subseteq Serving(k)
           Inv == cached \subseteq Commands /\ cached \subseteq accepted
<1>f. \A k \in Commands : Past[k] = Serving(k) /\ Past'[k] = Serving(k)'
  OBVIOUS
<1>1. Served!Init => Inv
  BY DEF Served!Init
<1>2. Inv /\ [Served!Next]_(Served!vars) => Inv' /\ (Closed \/ UNCHANGED Served!vars)
  <2> SUFFICES ASSUME Inv, [Served!Next]_(Served!vars)
               PROVE  Inv' /\ (Closed \/ UNCHANGED Served!vars)
    OBVIOUS
  <2> HIDE DEF Past
  <2>1. ASSUME NEW d \in Handlers, NEW k \in Commands, Served!Enter(d, k)
        PROVE  Inv' /\ Closed
    BY <1>f, <2>1 DEF Served!Enter, Past
  <2>2. ASSUME NEW d \in Handlers, NEW k \in Commands, Served!Serve(d, k)
        PROVE  Inv' /\ Closed
    BY <1>f, <2>2 DEF Served!Serve, Served!Leave, Past
  <2>3. ASSUME NEW d \in Handlers, NEW k \in Commands, Served!Fail(d, k)
        PROVE  Inv' /\ Closed
    BY <1>f, <2>3 DEF Served!Fail, Served!Leave, Past
  <2>4. ASSUME NEW k \in Commands, Served!Take(k) PROVE Inv' /\ Closed
    BY <1>f, <2>4 DEF Served!Take, Past
  <2>5. CASE Served!Forget
    BY <1>f, <2>5 DEF Served!Forget, Past
  <2>6. CASE UNCHANGED Served!vars
    BY <2>6 DEF Served!vars
  <2> QED BY <2>1, <2>2, <2>3, <2>4, <2>5, <2>6 DEF Served!Next
<1> QED BY <1>1, <1>2, PTL DEF CommandsKeepContract, Served!Spec

=============================================================================
