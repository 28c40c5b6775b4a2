------------------------- MODULE RoomLifecycleProofs -------------------------
(***************************************************************************)
(* Safety of RoomLifecycle for any number of sessions, listeners, stop     *)
(* requests, events and faults.                                            *)
(***************************************************************************)
EXTENDS RoomLifecycle, TLAPS

(* A session exists from the commit of its transaction on, and a handler   *)
(* works on a session that exists.                                         *)
SessionsExist ==
    /\ \A s \in Sessions : starter[s] \in {"idle", "checked"} => session[s] = "NONE"
    /\ \A s \in Sessions : starter[s] = "started" => session[s] # "NONE"
    /\ \A k \in Stoppers : stop[k] \in {"legs", "drop"} =>
          stopping[k] \in Sessions /\ session[stopping[k]] # "NONE"

(* Whatever names a call names one whose leg is in the database, and a     *)
(* leg is inserted by a dispatch.                                          *)
LegsExist ==
    /\ \A c \in Calls : leg[c] = "NONE" =>
          pbx[c] = "NONE" /\ task[c] # "posting"
    /\ \A c \in Calls : task[c] = "idle" => leg[c] = "NONE"
    /\ \A e \in events : leg[e[1]] # "NONE"
    /\ \A k \in Stoppers, c \in Calls : c \in toDrop[k] => leg[c] # "NONE"

(* What the API believes answered was answered, and what follows from it   *)
(* came after it.                                                          *)
HostCameFirst ==
    /\ \A c \in Calls : leg[c] = "ANSWERED" => c \in answered
    /\ \A c \in Calls : <<c, "ANSWERED">> \in events => c \in answered
    /\ \A s \in Sessions : starter[s] \in {"activate", "publish", "fanout"} =>
          HostCall(s) \in answered
    /\ \A s \in Sessions : session[s] = "RUNNING" => HostCall(s) \in answered
    /\ \A s \in Sessions, l \in Listeners :
          task[<<s, l>>] # "idle" => HostCall(s) \in answered

(* Before a host is connected the room is not RUNNING, and no participant  *)
(* is called outside of a session.                                         *)
AddedLater ==
    HostConnected \/ /\ room # "RUNNING"
                     /\ \A p \in Participants : task[<<NoSession, p>>] = "idle"

RoomInv ==
    /\ TypeOK
    /\ SessionsExist
    /\ LegsExist
    /\ HostCameFirst
    /\ AddedLater
    /\ OneActiveSession

(* Abandoning a dispatch leaves it where it was, refused or done.          *)
LEMMA AbandonedTask ==
    ASSUME NEW pc \in TaskState
    PROVE  /\ Abandoned(pc) \in TaskState
           /\ Abandoned(pc) = "idle" <=> pc = "idle"
           /\ Abandoned(pc) # "posting"
  BY DEF TaskState, Abandoned

LEMMA TypeStep == TypeOK /\ [Next]_vars => TypeOK'
<1> SUFFICES ASSUME TypeOK, [Next]_vars PROVE TypeOK'
  OBVIOUS
<1> USE FaultAssumption, SessionAssumption, ParticipantAssumption
<1> USE DEF TypeOK, StarterState, TaskState, StopState, FinishState, Active, Closed,
            Live, Calls, Participants, GoTo, StopTo, TaskTo, stops, database, handlers, outside
<1>1. ASSUME NEW s \in Sessions, StartCheck(s) PROVE TypeOK'
  BY <1>1 DEF StartCheck
<1>2. ASSUME NEW s \in Sessions, StartConflict(s) PROVE TypeOK'
  BY <1>2 DEF StartConflict
<1>3. ASSUME NEW s \in Sessions, StartCommit(s) PROVE TypeOK'
  BY <1>3 DEF StartCommit, HostCall
<1>4. ASSUME NEW s \in Sessions, StartRefused(s) PROVE TypeOK'
  BY <1>4 DEF StartRefused, HostCall
<1>5. ASSUME NEW s \in Sessions, WatchAnswered(s) PROVE TypeOK'
  BY <1>5 DEF WatchAnswered, Watching, HostCall
<1>6. ASSUME NEW s \in Sessions, WatchEnded(s) PROVE TypeOK'
  BY <1>6 DEF WatchEnded, Watching, HostCall
<1>7. ASSUME NEW s \in Sessions, Deadline(s) PROVE TypeOK'
  BY <1>7 DEF Deadline, Watching, HostCall
<1>8. ASSUME NEW s \in Sessions, Activate(s) PROVE TypeOK'
  <2>1. CASE session[s] = "STARTING"
    BY <1>8, <2>1 DEF Activate
  <2>2. CASE session[s] # "STARTING"
    BY <1>8, <2>2 DEF Activate
  <2> QED BY <2>1, <2>2
<1>9. ASSUME NEW s \in Sessions, Publish(s) PROVE TypeOK'
  BY <1>9 DEF Publish
<1>10. ASSUME NEW s \in Sessions, FanOut(s) PROVE TypeOK'
  BY <1>10 DEF FanOut
<1>11. ASSUME NEW s \in Sessions, FailIfStarting(s) PROVE TypeOK'
  BY <1>11 DEF FailIfStarting
<1>12. ASSUME NEW s \in Sessions, FreeRoom(s) PROVE TypeOK'
  BY <1>12 DEF FreeRoom
<1>13. ASSUME NEW s \in Sessions, FinishSelect(s) PROVE TypeOK'
  BY <1>13 DEF FinishSelect, FinishTo, HostCall
<1>14. ASSUME NEW s \in Sessions, FinishClose(s) PROVE TypeOK'
  BY <1>14 DEF FinishClose, FinishTo
<1>15. ASSUME NEW s \in Sessions, FinishRoom(s) PROVE TypeOK'
  BY <1>15 DEF FinishRoom, FinishTo
<1>16. ASSUME NEW s \in Sessions, AbandonStart(s) PROVE TypeOK'
  BY <1>16 DEF AbandonStart, Fault
<1>42. ASSUME NEW s \in Sessions, AbandonHostDispatch(s) PROVE TypeOK'
  <2>1. HostCall(s) \in Calls
    BY DEF HostCall
  <2>2. Abandoned(task[HostCall(s)]) \in TaskState
    BY <2>1, AbandonedTask
  <2> QED BY <1>42, <2>1, <2>2 DEF AbandonHostDispatch, Fault
<1>17. ASSUME NEW s \in Sessions, AbandonEvent(s) PROVE TypeOK'
  BY <1>17 DEF AbandonEvent, Fault, FinishTo
<1>18. ASSUME NEW c \in Calls, DispatchReject(c) PROVE TypeOK'
  BY <1>18 DEF DispatchReject
<1>19. ASSUME NEW c \in Calls, DispatchInsert(c) PROVE TypeOK'
  BY <1>19 DEF DispatchInsert
<1>20. ASSUME NEW c \in Calls, OriginateOk(c) PROVE TypeOK'
  BY <1>20 DEF OriginateOk
<1>21. ASSUME NEW c \in Calls, OriginateError(c) PROVE TypeOK'
  BY <1>21 DEF OriginateError
<1>22. ASSUME NEW c \in Calls, DispatchFailed(c) PROVE TypeOK'
  BY <1>22 DEF DispatchFailed
<1>23. ASSUME NEW c \in Calls, DispatchJoin(c) PROVE TypeOK'
  BY <1>23 DEF DispatchJoin
<1>24. ASSUME NEW c \in Calls, PbxAccept(c) PROVE TypeOK'
  BY <1>24 DEF PbxAccept, Emit
<1>25. ASSUME NEW c \in Calls, PbxAnswer(c) PROVE TypeOK'
  BY <1>25 DEF PbxAnswer, Emit
<1>26. ASSUME NEW c \in Calls, PbxHangUp(c) PROVE TypeOK'
  BY <1>26 DEF PbxHangUp, Emit
<1>27. ASSUME NEW c \in Calls, OperatorDrop(c) \/ OperatorDropError(c)
     PROVE TypeOK'
  BY <1>27 DEF OperatorDrop, OperatorDropError, Dropped, HungUp
<1>28. ASSUME NEW p \in Dialled, Add(p) PROVE TypeOK'
  BY <1>28 DEF Add
<1>29. ASSUME NEW p \in Dialled, AbandonAdd(p) PROVE TypeOK'
  <2>1. <<NoSession, p>> \in Calls
    BY DEF Calls, Participants
  <2>2. Abandoned(task[<<NoSession, p>>]) \in TaskState
    BY <2>1, AbandonedTask
  <2>3. task' \in [Calls -> TaskState]
    BY <1>29, <2>1, <2>2 DEF AbandonAdd
  <2>4. faults' \in 0..MaxFaults
    BY <1>29 DEF AbandonAdd, Fault
  <2> QED BY <1>29, <2>3, <2>4 DEF AbandonAdd
<1>30. ASSUME NEW k \in Stoppers, StopSelect(k) PROVE TypeOK'
  BY <1>30 DEF StopSelect, ActiveSessions
<1>31. ASSUME NEW k \in Stoppers, StopAlready(k) PROVE TypeOK'
  BY <1>31 DEF StopAlready
<1>32. ASSUME NEW k \in Stoppers, StopLegs(k) PROVE TypeOK'
  BY <1>32 DEF StopLegs
<1>33. ASSUME NEW k \in Stoppers, StopClose(k) PROVE TypeOK'
  BY <1>33 DEF StopClose
<1>34. ASSUME NEW k \in Stoppers, StopRoom(k) PROVE TypeOK'
  BY <1>34 DEF StopRoom
<1>35. ASSUME NEW k \in Stoppers, AbandonStop(k) PROVE TypeOK'
  BY <1>35 DEF AbandonStop, Fault
<1>36. ASSUME NEW k \in Stoppers, NEW c \in Calls, StopDrop(k, c) PROVE TypeOK'
  BY <1>36 DEF StopDrop, Dropped, HungUp
<1>37. ASSUME NEW k \in Stoppers, NEW c \in Calls, StopDropError(k, c) PROVE TypeOK'
  BY <1>37 DEF StopDropError, Dropped, HungUp
<1>38. ASSUME NEW e \in events, EventUpdate(e) PROVE TypeOK'
  BY <1>38 DEF EventUpdate, HostCall
<1>39. ASSUME NEW e \in events, EventLost(e) PROVE TypeOK'
  BY <1>39 DEF EventLost
<1>40. CASE Crash
  <2>1. \A c \in Calls : Abandoned(task[c]) \in TaskState
    BY AbandonedTask
  <2> QED BY <1>40, <2>1 DEF Crash, Fault
<1>41. CASE UNCHANGED vars
  BY <1>41 DEF vars
<1> QED
  BY <1>1, <1>2, <1>3, <1>4, <1>5, <1>6, <1>7, <1>8, <1>9, <1>10, <1>11,
     <1>12, <1>13, <1>14, <1>15, <1>16, <1>17, <1>18, <1>19, <1>20, <1>21,
     <1>22, <1>23, <1>24, <1>25, <1>26, <1>27, <1>28, <1>29, <1>30, <1>31,
     <1>32, <1>33, <1>34, <1>35, <1>36, <1>37, <1>38, <1>39, <1>40, <1>41,
     <1>42
  DEF Next, StarterStep, FinishStep, TaskStep, PbxStep, StopStep

(* A session row is only ever inserted, and its handlers come after it.    *)
LEMMA SessionsExistStep == TypeOK /\ SessionsExist /\ [Next]_vars => SessionsExist'
<1> SUFFICES ASSUME TypeOK, SessionsExist, [Next]_vars PROVE SessionsExist'
  OBVIOUS
<1> USE DEF SessionsExist, TypeOK, StopState, StarterState, Active, Closed,
            GoTo, StopTo, TaskTo, stops, database, handlers, outside
<1>1. CASE UNCHANGED <<session, starter, stop, stopping>>
  BY <1>1
<1>2. ASSUME NEW s \in Sessions, StartCheck(s) PROVE SessionsExist'
  BY <1>2 DEF StartCheck
<1>3. ASSUME NEW s \in Sessions, StartConflict(s) PROVE SessionsExist'
  BY <1>3 DEF StartConflict
<1>4. ASSUME NEW s \in Sessions, StartCommit(s) PROVE SessionsExist'
  BY <1>4 DEF StartCommit
<1>5. ASSUME NEW s \in Sessions, StartRefused(s) PROVE SessionsExist'
  BY <1>5 DEF StartRefused
<1>6. ASSUME NEW s \in Sessions, WatchAnswered(s) PROVE SessionsExist'
  BY <1>6 DEF WatchAnswered
<1>7. ASSUME NEW s \in Sessions, WatchEnded(s) PROVE SessionsExist'
  BY <1>7 DEF WatchEnded
<1>8. ASSUME NEW s \in Sessions, Deadline(s) PROVE SessionsExist'
  BY <1>8 DEF Deadline
<1>9. ASSUME NEW s \in Sessions, Activate(s) PROVE SessionsExist'
  BY <1>9 DEF Activate
<1>10. ASSUME NEW s \in Sessions, Publish(s) PROVE SessionsExist'
  BY <1>10 DEF Publish
<1>11. ASSUME NEW s \in Sessions, FanOut(s) PROVE SessionsExist'
  BY <1>11 DEF FanOut
<1>12. ASSUME NEW s \in Sessions, FailIfStarting(s) PROVE SessionsExist'
  BY <1>12 DEF FailIfStarting
<1>13. ASSUME NEW s \in Sessions, FreeRoom(s) PROVE SessionsExist'
  BY <1>13 DEF FreeRoom
<1>14. ASSUME NEW s \in Sessions, FinishClose(s) PROVE SessionsExist'
  BY <1>14 DEF FinishClose
<1>15. ASSUME NEW s \in Sessions, AbandonStart(s) PROVE SessionsExist'
  BY <1>15 DEF AbandonStart
<1>16. ASSUME NEW s \in Sessions, AbandonHostDispatch(s) PROVE SessionsExist'
  BY <1>16 DEF AbandonHostDispatch
<1>17. ASSUME NEW k \in Stoppers, StopSelect(k) PROVE SessionsExist'
  BY <1>17 DEF StopSelect, ActiveSessions
<1>18. ASSUME NEW k \in Stoppers, StopAlready(k) PROVE SessionsExist'
  BY <1>18 DEF StopAlready
<1>19. ASSUME NEW k \in Stoppers, StopLegs(k) PROVE SessionsExist'
  BY <1>19 DEF StopLegs
<1>20. ASSUME NEW k \in Stoppers, StopClose(k) PROVE SessionsExist'
  BY <1>20 DEF StopClose
<1>21. ASSUME NEW k \in Stoppers, StopRoom(k) PROVE SessionsExist'
  BY <1>21 DEF StopRoom
<1>22. ASSUME NEW k \in Stoppers, AbandonStop(k) PROVE SessionsExist'
  BY <1>22 DEF AbandonStop
<1>23. CASE Crash
  BY <1>23 DEF Crash
<1>24. CASE UNCHANGED vars
  BY <1>24 DEF vars
<1>25. ASSUME NEW s \in Sessions,
            FinishSelect(s) \/ FinishRoom(s) \/ AbandonEvent(s)
     PROVE SessionsExist'
  <2>1. UNCHANGED <<session, starter, stop, stopping>>
    BY <1>25 DEF FinishSelect, FinishTo, FinishRoom, AbandonEvent, Fault
  <2> QED BY <1>1, <2>1
<1>26. ASSUME NEW c \in Calls,
            DispatchReject(c) \/ DispatchInsert(c) \/ OriginateOk(c) \/
            OriginateError(c) \/ DispatchFailed(c) \/ DispatchJoin(c) \/
            PbxAccept(c) \/ PbxAnswer(c) \/ PbxHangUp(c) \/ OperatorDrop(c) \/
            OperatorDropError(c)
     PROVE SessionsExist'
  <2>1. UNCHANGED <<session, starter, stop, stopping>>
    BY <1>26 DEF DispatchReject, DispatchInsert, OriginateOk,
                 OriginateError, DispatchFailed, DispatchJoin, PbxAccept,
                 Emit, PbxAnswer, PbxHangUp, OperatorDrop, OperatorDropError,
                 Dropped, HungUp
  <2> QED BY <1>1, <2>1
<1>27. ASSUME NEW p \in Dialled,
            Add(p) \/ AbandonAdd(p)
     PROVE SessionsExist'
  <2>1. UNCHANGED <<session, starter, stop, stopping>>
    BY <1>27 DEF Add, AbandonAdd, Fault
  <2> QED BY <1>1, <2>1
<1>28. ASSUME NEW k \in Stoppers, NEW c \in Calls,
            StopDrop(k, c) \/ StopDropError(k, c)
     PROVE SessionsExist'
  <2>1. UNCHANGED <<session, starter, stop, stopping>>
    BY <1>28 DEF StopDrop, Dropped, HungUp, StopDropError
  <2> QED BY <1>1, <2>1
<1>29. ASSUME NEW e \in events,
            EventUpdate(e) \/ EventLost(e)
     PROVE SessionsExist'
  <2>1. UNCHANGED <<session, starter, stop, stopping>>
    BY <1>29 DEF EventUpdate, EventLost
  <2> QED BY <1>1, <2>1
<1> QED
  BY <1>2, <1>3, <1>4, <1>5, <1>6, <1>7, <1>8, <1>9, <1>10, <1>11, <1>12,
     <1>13, <1>14, <1>15, <1>16, <1>17, <1>18, <1>19, <1>20, <1>21, <1>22,
     <1>23, <1>24, <1>25, <1>26, <1>27, <1>28, <1>29
  DEF Next, StarterStep, FinishStep, TaskStep, PbxStep, StopStep

(* A leg row is only ever inserted, before anything else names the call.   *)
LEMMA LegsExistStep == TypeOK /\ LegsExist /\ [Next]_vars => LegsExist'
<1> SUFFICES ASSUME TypeOK, LegsExist, [Next]_vars PROVE LegsExist'
  OBVIOUS
<1> USE DEF LegsExist, TypeOK, StarterState, TaskState, Live, Calls,
            Participants, HostCall, GoTo, StopTo, TaskTo, stops, database,
            handlers, outside
<1>1. CASE UNCHANGED <<leg, pbx, task, events, toDrop>>
  BY <1>1
<1>2. ASSUME NEW s \in Sessions, StartCommit(s) PROVE LegsExist'
  BY <1>2 DEF StartCommit
<1>3. ASSUME NEW s \in Sessions, FanOut(s) PROVE LegsExist'
  BY <1>3 DEF FanOut
<1>4. ASSUME NEW s \in Sessions, AbandonHostDispatch(s) PROVE LegsExist'
  <2>1. HostCall(s) \in Calls
    BY DEF HostCall
  <2>2. /\ Abandoned(task[HostCall(s)]) # "posting"
        /\ Abandoned(task[HostCall(s)]) = "idle" <=> task[HostCall(s)] = "idle"
    BY <2>1, AbandonedTask
  <2>3. /\ \A c \in Calls : task'[c] = "posting" => task[c] = "posting"
        /\ \A c \in Calls : task'[c] = "idle" <=> task[c] = "idle"
    BY <1>4, <2>1, <2>2 DEF AbandonHostDispatch
  <2>4. UNCHANGED <<leg, pbx, events, toDrop>>
    BY <1>4 DEF AbandonHostDispatch
  <2> QED BY <2>3, <2>4
<1>5. ASSUME NEW c \in Calls, DispatchReject(c) PROVE LegsExist'
  BY <1>5 DEF DispatchReject
<1>6. ASSUME NEW c \in Calls, DispatchInsert(c) PROVE LegsExist'
  BY <1>6 DEF DispatchInsert
<1>7. ASSUME NEW c \in Calls, OriginateOk(c) PROVE LegsExist'
  BY <1>7 DEF OriginateOk
<1>8. ASSUME NEW c \in Calls, OriginateError(c) PROVE LegsExist'
  BY <1>8 DEF OriginateError
<1>9. ASSUME NEW c \in Calls, DispatchFailed(c) PROVE LegsExist'
  BY <1>9 DEF DispatchFailed
<1>10. ASSUME NEW c \in Calls, DispatchJoin(c) PROVE LegsExist'
  BY <1>10 DEF DispatchJoin
<1>11. ASSUME NEW c \in Calls, PbxAccept(c) PROVE LegsExist'
  BY <1>11 DEF PbxAccept, Emit
<1>12. ASSUME NEW c \in Calls, PbxAnswer(c) PROVE LegsExist'
  BY <1>12 DEF PbxAnswer, Emit
<1>13. ASSUME NEW c \in Calls, PbxHangUp(c) PROVE LegsExist'
  BY <1>13 DEF PbxHangUp, Emit
<1>14. ASSUME NEW c \in Calls, OperatorDrop(c) \/ OperatorDropError(c)
     PROVE LegsExist'
  BY <1>14 DEF OperatorDrop, OperatorDropError, Dropped, HungUp
<1>15. ASSUME NEW p \in Dialled, Add(p) PROVE LegsExist'
  BY <1>15 DEF Add
<1>16. ASSUME NEW p \in Dialled, AbandonAdd(p) PROVE LegsExist'
  <2>1. <<NoSession, p>> \in Calls
    BY ParticipantAssumption
  <2>2. /\ Abandoned(task[<<NoSession, p>>]) # "posting"
        /\ Abandoned(task[<<NoSession, p>>]) = "idle"
              <=> task[<<NoSession, p>>] = "idle"
    BY <2>1, AbandonedTask
  <2> QED BY <1>16, <2>1, <2>2 DEF AbandonAdd
<1>17. ASSUME NEW k \in Stoppers, StopLegs(k) PROVE LegsExist'
  BY <1>17 DEF StopLegs
<1>18. ASSUME NEW k \in Stoppers, NEW c \in Calls, StopDrop(k, c) PROVE LegsExist'
  BY <1>18 DEF StopDrop, Dropped, HungUp
<1>19. ASSUME NEW k \in Stoppers, NEW c \in Calls, StopDropError(k, c) PROVE LegsExist'
  BY <1>19 DEF StopDropError, HungUp
<1>20. ASSUME NEW e \in events, EventUpdate(e) PROVE LegsExist'
  BY <1>20 DEF EventUpdate
<1>21. ASSUME NEW e \in events, EventLost(e) PROVE LegsExist'
  BY <1>21 DEF EventLost
<1>22. CASE Crash
  <2>1. \A c \in Calls : Abandoned(task[c]) = "idle" <=> task[c] = "idle"
    BY AbandonedTask
  <2>2. \A c \in Calls : Abandoned(task[c]) # "posting"
    BY AbandonedTask
  <2> QED BY <1>22, <2>1, <2>2 DEF Crash
<1>23. CASE UNCHANGED vars
  BY <1>23 DEF vars
<1>24. ASSUME NEW s \in Sessions,
            StartCheck(s) \/ StartConflict(s) \/ StartRefused(s) \/
            WatchAnswered(s) \/ WatchEnded(s) \/ Deadline(s) \/
            Activate(s) \/ Publish(s) \/ FailIfStarting(s) \/
            FreeRoom(s) \/ FinishSelect(s) \/ FinishClose(s) \/
            FinishRoom(s) \/ AbandonStart(s) \/ AbandonEvent(s)
     PROVE LegsExist'
  <2>1. UNCHANGED <<leg, pbx, task, events, toDrop>>
    BY <1>24 DEF StartCheck, StartConflict, StartRefused, HostCall,
                 WatchAnswered, Watching, WatchEnded, Deadline, Activate,
                 Publish, FailIfStarting, FreeRoom, FinishSelect, FinishTo,
                 FinishClose, FinishRoom, AbandonStart, Fault, AbandonEvent
  <2> QED BY <1>1, <2>1
<1>25. ASSUME NEW k \in Stoppers,
            StopSelect(k) \/ StopAlready(k) \/ StopClose(k) \/
            StopRoom(k) \/ AbandonStop(k)
     PROVE LegsExist'
  <2>1. UNCHANGED <<leg, pbx, task, events, toDrop>>
    BY <1>25 DEF StopSelect, ActiveSessions, StopAlready, StopClose,
                 StopRoom, AbandonStop, Fault
  <2> QED BY <1>1, <2>1
<1> QED
  BY <1>2, <1>3, <1>4, <1>5, <1>6, <1>7, <1>8, <1>9, <1>10, <1>11, <1>12,
     <1>13, <1>14, <1>15, <1>16, <1>17, <1>18, <1>19, <1>20, <1>21, <1>22,
     <1>23, <1>24, <1>25
  DEF Next, StarterStep, FinishStep, TaskStep, PbxStep, StopStep

(* Nothing is believed answered that was not, and nothing follows from it  *)
(* too early.                                                              *)
LEMMA HostCameFirstStep == TypeOK /\ HostCameFirst /\ [Next]_vars => HostCameFirst'
<1> SUFFICES ASSUME TypeOK, HostCameFirst, [Next]_vars PROVE HostCameFirst'
  OBVIOUS
<1> USE DEF HostCameFirst, TypeOK, StarterState, TaskState, Live, Calls,
            Participants, HostCall, GoTo, StopTo, TaskTo, stops, database,
            handlers, outside
<1>1. CASE UNCHANGED <<leg, events, starter, session, task, answered>>
  BY <1>1
<1>2. ASSUME NEW s \in Sessions, StartCheck(s) PROVE HostCameFirst'
  BY <1>2 DEF StartCheck
<1>3. ASSUME NEW s \in Sessions, StartConflict(s) PROVE HostCameFirst'
  BY <1>3 DEF StartConflict
<1>4. ASSUME NEW s \in Sessions, StartCommit(s) PROVE HostCameFirst'
  BY <1>4, ParticipantAssumption DEF StartCommit
<1>5. ASSUME NEW s \in Sessions, StartRefused(s) PROVE HostCameFirst'
  BY <1>5 DEF StartRefused
<1>6. ASSUME NEW s \in Sessions, WatchAnswered(s) PROVE HostCameFirst'
  BY <1>6 DEF WatchAnswered, Watching
<1>7. ASSUME NEW s \in Sessions, WatchEnded(s) PROVE HostCameFirst'
  BY <1>7 DEF WatchEnded, Watching
<1>8. ASSUME NEW s \in Sessions, Deadline(s) PROVE HostCameFirst'
  BY <1>8 DEF Deadline, Watching
<1>9. ASSUME NEW s \in Sessions, Activate(s) PROVE HostCameFirst'
  BY <1>9 DEF Activate
<1>10. ASSUME NEW s \in Sessions, Publish(s) PROVE HostCameFirst'
  BY <1>10 DEF Publish
<1>11. ASSUME NEW s \in Sessions, FanOut(s) PROVE HostCameFirst'
  BY <1>11 DEF FanOut
<1>12. ASSUME NEW s \in Sessions, FailIfStarting(s) PROVE HostCameFirst'
  BY <1>12 DEF FailIfStarting
<1>13. ASSUME NEW s \in Sessions, FreeRoom(s) PROVE HostCameFirst'
  BY <1>13 DEF FreeRoom
<1>14. ASSUME NEW s \in Sessions, FinishClose(s) PROVE HostCameFirst'
  BY <1>14 DEF FinishClose, FinishTo
<1>15. ASSUME NEW s \in Sessions, AbandonStart(s) PROVE HostCameFirst'
  BY <1>15 DEF AbandonStart, Fault
<1>16. ASSUME NEW s \in Sessions, AbandonHostDispatch(s) PROVE HostCameFirst'
  <2>1. HostCall(s) \in Calls
    BY DEF HostCall
  <2>2. Abandoned(task[HostCall(s)]) = "idle" <=> task[HostCall(s)] = "idle"
    BY <2>1, AbandonedTask
  <2> QED BY <1>16, <2>1, <2>2 DEF AbandonHostDispatch
<1>17. ASSUME NEW c \in Calls, DispatchReject(c) PROVE HostCameFirst'
  BY <1>17 DEF DispatchReject
<1>18. ASSUME NEW c \in Calls, DispatchInsert(c) PROVE HostCameFirst'
  BY <1>18 DEF DispatchInsert
<1>19. ASSUME NEW c \in Calls, OriginateOk(c) PROVE HostCameFirst'
  BY <1>19 DEF OriginateOk
<1>20. ASSUME NEW c \in Calls, OriginateError(c) PROVE HostCameFirst'
  BY <1>20 DEF OriginateError
<1>21. ASSUME NEW c \in Calls, DispatchFailed(c) PROVE HostCameFirst'
  BY <1>21 DEF DispatchFailed
<1>22. ASSUME NEW c \in Calls, DispatchJoin(c) PROVE HostCameFirst'
  BY <1>22 DEF DispatchJoin
<1>23. ASSUME NEW c \in Calls, PbxAccept(c) PROVE HostCameFirst'
  BY <1>23 DEF PbxAccept, Emit
<1>24. ASSUME NEW c \in Calls, PbxAnswer(c) PROVE HostCameFirst'
  BY <1>24 DEF PbxAnswer, Emit
<1>25. ASSUME NEW c \in Calls, PbxHangUp(c) PROVE HostCameFirst'
  BY <1>25 DEF PbxHangUp, Emit
<1>26. ASSUME NEW c \in Calls, OperatorDrop(c) \/ OperatorDropError(c)
     PROVE HostCameFirst'
  BY <1>26 DEF OperatorDrop, OperatorDropError, Dropped, HungUp
<1>27. ASSUME NEW p \in Dialled, Add(p) PROVE HostCameFirst'
  BY <1>27, ParticipantAssumption, SessionAssumption DEF Add
<1>28. ASSUME NEW p \in Dialled, AbandonAdd(p) PROVE HostCameFirst'
  <2>1. <<NoSession, p>> \in Calls
    BY ParticipantAssumption
  <2>2. /\ Abandoned(task[<<NoSession, p>>]) # "posting"
        /\ Abandoned(task[<<NoSession, p>>]) = "idle"
              <=> task[<<NoSession, p>>] = "idle"
    BY <2>1, AbandonedTask
  <2> QED BY <1>28, <2>1, <2>2 DEF AbandonAdd
<1>29. ASSUME NEW k \in Stoppers, StopClose(k) PROVE HostCameFirst'
  BY <1>29 DEF StopClose
<1>30. ASSUME NEW k \in Stoppers, NEW c \in Calls, StopDrop(k, c) PROVE HostCameFirst'
  BY <1>30 DEF StopDrop, Dropped, HungUp
<1>31. ASSUME NEW k \in Stoppers, NEW c \in Calls, StopDropError(k, c) PROVE HostCameFirst'
  BY <1>31 DEF StopDropError, HungUp
<1>32. ASSUME NEW e \in events, EventUpdate(e) PROVE HostCameFirst'
  BY <1>32 DEF EventUpdate
<1>33. ASSUME NEW e \in events, EventLost(e) PROVE HostCameFirst'
  BY <1>33 DEF EventLost
<1>34. CASE Crash
  <2>1. \A c \in Calls : Abandoned(task[c]) = "idle" <=> task[c] = "idle"
    BY AbandonedTask
  <2>2. \A c \in Calls : Abandoned(task[c]) # "posting"
    BY AbandonedTask
  <2> QED BY <1>34, <2>1, <2>2 DEF Crash
<1>35. CASE UNCHANGED vars
  BY <1>35 DEF vars
<1>36. ASSUME NEW s \in Sessions,
            FinishSelect(s) \/ FinishRoom(s) \/ AbandonEvent(s)
     PROVE HostCameFirst'
  <2>1. UNCHANGED <<leg, events, starter, session, task, answered>>
    BY <1>36 DEF FinishSelect, FinishTo, FinishRoom, AbandonEvent, Fault
  <2> QED BY <1>1, <2>1
<1>37. ASSUME NEW k \in Stoppers,
            StopSelect(k) \/ StopAlready(k) \/ StopLegs(k) \/
            StopRoom(k) \/ AbandonStop(k)
     PROVE HostCameFirst'
  <2>1. UNCHANGED <<leg, events, starter, session, task, answered>>
    BY <1>37 DEF StopSelect, ActiveSessions, StopAlready, StopLegs,
                 StopRoom, AbandonStop, Fault
  <2> QED BY <1>1, <2>1
<1> QED
  BY <1>2, <1>3, <1>4, <1>5, <1>6, <1>7, <1>8, <1>9, <1>10, <1>11, <1>12,
     <1>13, <1>14, <1>15, <1>16, <1>17, <1>18, <1>19, <1>20, <1>21, <1>22,
     <1>23, <1>24, <1>25, <1>26, <1>27, <1>28, <1>29, <1>30, <1>31, <1>32,
     <1>33, <1>34, <1>35, <1>36, <1>37
  DEF Next, StarterStep, FinishStep, TaskStep, PbxStep, StopStep

(* A call that was connected stays in the history.                         *)
LEMMA AnsweredGrows == TypeOK /\ [Next]_vars => answered \subseteq answered'
<1> SUFFICES ASSUME TypeOK, [Next]_vars PROVE answered \subseteq answered'
  OBVIOUS
<1> USE DEF database, handlers, outside, stops
<1>1. ASSUME NEW s \in Sessions, StartCheck(s) \/ StarterStep(s) \/ FinishStep(s)
      PROVE answered \subseteq answered'
  BY <1>1 DEF StarterStep, FinishStep, StartCheck, StartConflict, StartCommit,
     StartRefused, WatchAnswered, WatchEnded, Deadline, Activate, Publish, FanOut,
     FailIfStarting, FreeRoom, FinishSelect, FinishClose, FinishRoom
<1>2. ASSUME NEW c \in Calls,
             TaskStep(c) \/ PbxStep(c) \/ OperatorDrop(c) \/ OperatorDropError(c)
      PROVE answered \subseteq answered'
  BY <1>2 DEF TaskStep, PbxStep, DispatchReject, DispatchInsert, OriginateOk,
     OriginateError, DispatchFailed, DispatchJoin, PbxAccept, PbxAnswer, PbxHangUp,
     OperatorDrop, OperatorDropError
<1>3. ASSUME NEW p \in Dialled, Add(p) \/ AbandonAdd(p)
      PROVE answered \subseteq answered'
  BY <1>3 DEF Add, AbandonAdd
<1>4. ASSUME NEW k \in Stoppers,
             StopSelect(k) \/ StopAlready(k) \/ StopStep(k) \/ AbandonStop(k)
      PROVE answered \subseteq answered'
  BY <1>4 DEF StopStep, StopSelect, StopAlready, StopLegs, StopClose, StopRoom,
     StopDrop, StopDropError, AbandonStop
<1>5. ASSUME NEW e \in events, EventUpdate(e) \/ EventLost(e)
      PROVE answered \subseteq answered'
  BY <1>5 DEF EventUpdate, EventLost
<1>6. ASSUME NEW s \in Sessions,
             AbandonStart(s) \/ AbandonHostDispatch(s) \/ AbandonEvent(s)
      PROVE answered \subseteq answered'
  BY <1>6 DEF AbandonStart, AbandonHostDispatch, AbandonEvent
<1>7. CASE Crash \/ UNCHANGED vars
  BY <1>7 DEF Crash, vars
<1> QED BY <1>1, <1>2, <1>3, <1>4, <1>5, <1>6, <1>7 DEF Next

(* Without a connected host nothing publishes RUNNING, and without RUNNING *)
(* nothing is called outside of a session.                                 *)
LEMMA AddedLaterStep ==
    TypeOK /\ HostCameFirst /\ AddedLater /\ [Next]_vars => AddedLater'
<1> SUFFICES ASSUME TypeOK, HostCameFirst, AddedLater, [Next]_vars,
                    ~HostConnected'
             PROVE AddedLater'
  BY DEF AddedLater
<1>0. ~HostConnected
  BY AnsweredGrows DEF HostConnected, HostCall
<1> DEFINE Added == {<<NoSession, p>> : p \in Participants}
           Still == /\ room' # "RUNNING"
                    /\ \A c \in Added : task[c] = "idle" => task'[c] = "idle"
<1>q. ASSUME Still PROVE AddedLater'
  BY <1>0, <1>q DEF AddedLater
<1>r. room # "RUNNING" /\ \A c \in Added : c \in Calls
  BY <1>0 DEF AddedLater, Calls
<1> USE DEF TypeOK, StarterState, TaskState, GoTo, StopTo, TaskTo, stops, database,
            handlers, outside
<1>1. CASE UNCHANGED <<room, task>>
  BY <1>1, <1>r, <1>q
<1>2. ASSUME NEW s \in Sessions, StartCommit(s) PROVE AddedLater'
  BY <1>2, <1>r, <1>q, SessionAssumption DEF StartCommit, HostCall
<1>3. ASSUME NEW s \in Sessions, Publish(s) PROVE AddedLater'
  BY <1>3, <1>0 DEF Publish, HostCameFirst, HostConnected
<1>4. ASSUME NEW s \in Sessions, FanOut(s) PROVE AddedLater'
  BY <1>4, <1>r, <1>q, SessionAssumption DEF FanOut
<1>5. ASSUME NEW s \in Sessions, FreeRoom(s) \/ FinishRoom(s) PROVE AddedLater'
  BY <1>5, <1>r, <1>q DEF FreeRoom, FinishRoom, FinishTo
<1>6. ASSUME NEW s \in Sessions, AbandonHostDispatch(s) PROVE AddedLater'
  BY <1>6, <1>r, <1>q, SessionAssumption DEF AbandonHostDispatch, HostCall
<1>7. ASSUME NEW c \in Calls, TaskStep(c) PROVE AddedLater'
  <2>1. task[c] # "idle" /\ room' = room
    BY <1>7 DEF TaskStep, DispatchReject, DispatchInsert, OriginateOk,
       OriginateError, DispatchFailed, DispatchJoin
  <2>2. \A d \in Calls \ {c} : task'[d] = task[d]
    BY <1>7 DEF TaskStep, DispatchReject, DispatchInsert, OriginateOk,
       OriginateError, DispatchFailed, DispatchJoin
  <2> QED BY <2>1, <2>2, <1>r, <1>q
<1>8. ASSUME NEW p \in Dialled, Add(p) PROVE AddedLater'
  BY <1>8, <1>r DEF Add
<1>9. ASSUME NEW p \in Dialled, AbandonAdd(p) PROVE AddedLater'
  <2>1. task[<<NoSession, p>>] # "idle" /\ room' = room
    BY <1>9 DEF AbandonAdd
  <2>2. \A d \in Calls \ {<<NoSession, p>>} : task'[d] = task[d]
    BY <1>9 DEF AbandonAdd
  <2> QED BY <2>1, <2>2, <1>r, <1>q
<1>10. ASSUME NEW k \in Stoppers, StopRoom(k) PROVE AddedLater'
  BY <1>10, <1>r, <1>q DEF StopRoom
<1>11. CASE Crash
  BY <1>11, <1>r, <1>q, AbandonedTask DEF Crash
<1>12. ASSUME NEW s \in Sessions,
              StartCheck(s) \/ StartConflict(s) \/ StartRefused(s) \/
              WatchAnswered(s) \/ WatchEnded(s) \/ Deadline(s) \/ Activate(s) \/
              FailIfStarting(s) \/ FinishSelect(s) \/ FinishClose(s) \/
              AbandonStart(s) \/ AbandonEvent(s)
       PROVE UNCHANGED <<room, task>>
  BY <1>12 DEF StartCheck, StartConflict, StartRefused, WatchAnswered, WatchEnded,
     Deadline, Activate, FailIfStarting, FinishSelect, FinishClose, FinishTo,
     AbandonStart, AbandonEvent
<1>13. ASSUME NEW c \in Calls,
              PbxStep(c) \/ OperatorDrop(c) \/ OperatorDropError(c)
       PROVE UNCHANGED <<room, task>>
  BY <1>13 DEF PbxStep, PbxAccept, PbxAnswer, PbxHangUp, OperatorDrop,
     OperatorDropError
<1>14. ASSUME NEW k \in Stoppers,
              StopSelect(k) \/ StopAlready(k) \/ StopLegs(k) \/ StopClose(k) \/
              AbandonStop(k) \/ \E c \in Calls : StopDrop(k, c) \/ StopDropError(k, c)
       PROVE UNCHANGED <<room, task>>
  BY <1>14 DEF StopSelect, StopAlready, StopLegs, StopClose, AbandonStop, StopDrop,
     StopDropError
<1>15. ASSUME NEW e \in events, EventUpdate(e) \/ EventLost(e)
       PROVE UNCHANGED <<room, task>>
  BY <1>15 DEF EventUpdate, EventLost
<1>16. CASE UNCHANGED vars
  BY <1>16, <1>1 DEF vars
<1> QED
  BY <1>1, <1>2, <1>3, <1>4, <1>5, <1>6, <1>7, <1>8, <1>9, <1>10, <1>11, <1>12,
     <1>13, <1>14, <1>15, <1>16
  DEF Next, StarterStep, FinishStep, StopStep

(* Only StartCommit opens a session, and only when none is open.           *)
LEMMA OneActiveStep == TypeOK /\ OneActiveSession /\ [Next]_vars => OneActiveSession'
<1> SUFFICES ASSUME TypeOK, OneActiveSession, [Next]_vars PROVE OneActiveSession'
  OBVIOUS
<1> USE DEF OneActiveSession, ActiveSessions, TypeOK, StopState,
            StarterState, Active, Closed, GoTo, StopTo, TaskTo, stops,
            database, handlers, outside
<1>1. CASE UNCHANGED <<session>>
  BY <1>1
<1>2. ASSUME NEW s \in Sessions, StartCommit(s) PROVE OneActiveSession'
  BY <1>2 DEF StartCommit
<1>3. ASSUME NEW s \in Sessions, StartRefused(s) PROVE OneActiveSession'
  BY <1>3 DEF StartRefused
<1>4. ASSUME NEW s \in Sessions, Activate(s) PROVE OneActiveSession'
  BY <1>4 DEF Activate
<1>5. ASSUME NEW s \in Sessions, FailIfStarting(s) PROVE OneActiveSession'
  BY <1>5 DEF FailIfStarting
<1>6. ASSUME NEW s \in Sessions, FinishClose(s) PROVE OneActiveSession'
  BY <1>6 DEF FinishClose, FinishTo
<1>7. ASSUME NEW k \in Stoppers, StopClose(k) PROVE OneActiveSession'
  BY <1>7 DEF StopClose
<1>8. CASE Crash
  BY <1>8 DEF Crash
<1>9. CASE UNCHANGED vars
  BY <1>9 DEF vars
<1>10. ASSUME NEW s \in Sessions,
            StartCheck(s) \/ StartConflict(s) \/ WatchAnswered(s) \/
            WatchEnded(s) \/ Deadline(s) \/ Publish(s) \/ FanOut(s) \/
            FreeRoom(s) \/ FinishSelect(s) \/ FinishRoom(s) \/
            AbandonStart(s) \/ AbandonHostDispatch(s) \/ AbandonEvent(s)
     PROVE OneActiveSession'
  <2>1. UNCHANGED <<session>>
    BY <1>10 DEF StartCheck, StartConflict, WatchAnswered, Watching,
                 HostCall, WatchEnded, Deadline, Publish, FanOut, FreeRoom,
                 FinishSelect, FinishTo, FinishRoom, AbandonStart, Fault,
                 AbandonHostDispatch, AbandonEvent
  <2> QED BY <1>1, <2>1
<1>11. ASSUME NEW c \in Calls,
            DispatchReject(c) \/ DispatchInsert(c) \/ OriginateOk(c) \/
            OriginateError(c) \/ DispatchFailed(c) \/ DispatchJoin(c) \/
            PbxAccept(c) \/ PbxAnswer(c) \/ PbxHangUp(c) \/ OperatorDrop(c) \/
            OperatorDropError(c)
     PROVE OneActiveSession'
  <2>1. UNCHANGED <<session>>
    BY <1>11 DEF DispatchReject, DispatchInsert, OriginateOk,
                 OriginateError, DispatchFailed, DispatchJoin, PbxAccept,
                 Emit, PbxAnswer, PbxHangUp, OperatorDrop, OperatorDropError,
                 Dropped, HungUp
  <2> QED BY <1>1, <2>1
<1>12. ASSUME NEW p \in Dialled,
            Add(p) \/ AbandonAdd(p)
     PROVE OneActiveSession'
  <2>1. UNCHANGED <<session>>
    BY <1>12 DEF Add, AbandonAdd, Fault
  <2> QED BY <1>1, <2>1
<1>13. ASSUME NEW k \in Stoppers,
            StopSelect(k) \/ StopAlready(k) \/ StopLegs(k) \/
            StopRoom(k) \/ AbandonStop(k)
     PROVE OneActiveSession'
  <2>1. UNCHANGED <<session>>
    BY <1>13 DEF StopSelect, ActiveSessions, StopAlready, StopLegs,
                 StopRoom, AbandonStop, Fault
  <2> QED BY <1>1, <2>1
<1>14. ASSUME NEW k \in Stoppers, NEW c \in Calls,
            StopDrop(k, c) \/ StopDropError(k, c)
     PROVE OneActiveSession'
  <2>1. UNCHANGED <<session>>
    BY <1>14 DEF StopDrop, Dropped, HungUp, StopDropError
  <2> QED BY <1>1, <2>1
<1>15. ASSUME NEW e \in events,
            EventUpdate(e) \/ EventLost(e)
     PROVE OneActiveSession'
  <2>1. UNCHANGED <<session>>
    BY <1>15 DEF EventUpdate, EventLost
  <2> QED BY <1>1, <2>1
<1> QED
  BY <1>2, <1>3, <1>4, <1>5, <1>6, <1>7, <1>8, <1>9, <1>10, <1>11, <1>12,
     <1>13, <1>14, <1>15
  DEF Next, StarterStep, FinishStep, TaskStep, PbxStep, StopStep

-----------------------------------------------------------------------------
(* Every variable of a room keeps its type.                                *)
THEOREM TypeCorrect == Spec => []TypeOK
<1>1. Init => TypeOK
  BY FaultAssumption DEF Init, TypeOK, StarterState, TaskState, StopState,
     FinishState, Active, Closed, Live
<1> QED BY <1>1, TypeStep, PTL DEF Spec

(* The inductive invariant behind the safety theorems.                     *)
LEMMA RoomInvariant == Spec => []RoomInv
<1>1. Init => RoomInv
  <2> SUFFICES ASSUME Init PROVE RoomInv
    OBVIOUS
  <2>1. TypeOK
    BY FaultAssumption DEF Init, TypeOK, StarterState, TaskState, StopState,
       FinishState, Active, Closed, Live
  <2>2. SessionsExist
    BY DEF Init, SessionsExist
  <2>3. LegsExist
    BY DEF Init, LegsExist
  <2>4. HostCameFirst
    BY DEF Init, HostCameFirst, Calls, Participants
  <2>5. OneActiveSession
    BY DEF Init, OneActiveSession, ActiveSessions, Active
  <2>6. AddedLater
    BY DEF Init, AddedLater, Calls
  <2> QED BY <2>1, <2>2, <2>3, <2>4, <2>5, <2>6 DEF RoomInv
<1>2. RoomInv /\ [Next]_vars => RoomInv'
  BY TypeStep, SessionsExistStep, LegsExistStep, HostCameFirstStep,
     AddedLaterStep, OneActiveStep
     DEF RoomInv
<1> QED BY <1>1, <1>2, PTL DEF Spec

(* At most one session of a room is open: startRoom's unlocked check does  *)
(* not matter, the unique index does.                                      *)
THEOREM SessionsExclusive == Spec => []OneActiveSession
<1>1. RoomInv => OneActiveSession
  BY DEF RoomInv
<1> QED BY <1>1, RoomInvariant, PTL

(* No session runs, and no listener of it is dialled, before the PBX       *)
(* connected the session's host: activateRoomAfterHost, for any order,     *)
(* loss or lateness of the call-state events.                              *)
THEOREM HostFirst == Spec => []HostAnsweredFirst
<1>1. RoomInv => HostAnsweredFirst
  <2> SUFFICES ASSUME RoomInv, NEW s \in Sessions, HostCall(s) \notin answered
               PROVE /\ session[s] # "RUNNING"
                     /\ \A l \in Listeners : leg[<<s, l>>] = "NONE"
    BY DEF HostAnsweredFirst
  <2>1. session[s] # "RUNNING"
    BY DEF RoomInv, HostCameFirst
  <2>2. ASSUME NEW l \in Listeners PROVE leg[<<s, l>>] = "NONE"
    <3>1. <<s, l>> \in Calls
      BY DEF Calls, Participants
    <3>2. task[<<s, l>>] = "idle"
      BY DEF RoomInv, HostCameFirst
    <3> QED BY <3>1, <3>2 DEF RoomInv, LegsExist
  <2> QED BY <2>1, <2>2
<1> QED BY <1>1, RoomInvariant, PTL

(* Nor does the live dialer call anybody before the PBX connected a host   *)
(* of the room: whatever a stop, a new start or a late event overtakes,    *)
(* room_state is RUNNING only because some watcher saw its host answered.  *)
THEOREM AddedAfter == Spec => []AddedAfterHost
<1>1. RoomInv => AddedAfterHost
  <2> SUFFICES ASSUME RoomInv, NEW p \in Participants,
                      leg[<<NoSession, p>>] # "NONE", ~HostConnected
               PROVE FALSE
    BY DEF AddedAfterHost
  <2>1. <<NoSession, p>> \in Calls
    BY DEF Calls
  <2>2. task[<<NoSession, p>>] = "idle"
    BY DEF RoomInv, AddedLater
  <2> QED BY <2>1, <2>2 DEF RoomInv, LegsExist
<1> QED BY <1>1, RoomInvariant, PTL

LEMMA FaultCounts == TypeOK /\ Fault => faults' # 0
BY FaultAssumption DEF TypeOK, Fault

(* Whoever closes a session is the one about to write READY.  Until the    *)
(* first fault no handler was cut short between the two.                   *)
LEMMA HeldRoomStep == TypeOK /\ HeldRoomHasOwner /\ [Next]_vars => HeldRoomHasOwner'
<1> SUFFICES ASSUME TypeOK, HeldRoomHasOwner, [Next]_vars PROVE HeldRoomHasOwner'
  OBVIOUS
<1> USE DEF HeldRoomHasOwner, Owned, ActiveSessions, TypeOK, StopState,
            StarterState, Active, Closed, GoTo, StopTo, TaskTo, stops,
            database, handlers, outside
<1>1. CASE UNCHANGED <<room, session, starter, finish, stop, faults>>
  BY <1>1
<1>2. ASSUME NEW s \in Sessions, StartCheck(s) PROVE HeldRoomHasOwner'
  BY <1>2 DEF StartCheck
<1>3. ASSUME NEW s \in Sessions, StartConflict(s) PROVE HeldRoomHasOwner'
  BY <1>3 DEF StartConflict
<1>4. ASSUME NEW s \in Sessions, StartCommit(s) PROVE HeldRoomHasOwner'
  BY <1>4 DEF StartCommit, HostCall
<1>5. ASSUME NEW s \in Sessions, StartRefused(s) PROVE HeldRoomHasOwner'
  BY <1>5 DEF StartRefused, HostCall
<1>6. ASSUME NEW s \in Sessions, WatchAnswered(s) PROVE HeldRoomHasOwner'
  BY <1>6 DEF WatchAnswered, Watching, HostCall
<1>7. ASSUME NEW s \in Sessions, WatchEnded(s) PROVE HeldRoomHasOwner'
  BY <1>7 DEF WatchEnded, Watching, HostCall
<1>8. ASSUME NEW s \in Sessions, Deadline(s) PROVE HeldRoomHasOwner'
  BY <1>8 DEF Deadline, Watching, HostCall
<1>9. ASSUME NEW s \in Sessions, Activate(s) PROVE HeldRoomHasOwner'
  BY <1>9 DEF Activate
<1>10. ASSUME NEW s \in Sessions, Publish(s) PROVE HeldRoomHasOwner'
  BY <1>10 DEF Publish
<1>11. ASSUME NEW s \in Sessions, FanOut(s) PROVE HeldRoomHasOwner'
  BY <1>11 DEF FanOut
<1>12. ASSUME NEW s \in Sessions, FailIfStarting(s) PROVE HeldRoomHasOwner'
  BY <1>12 DEF FailIfStarting
<1>13. ASSUME NEW s \in Sessions, FreeRoom(s) PROVE HeldRoomHasOwner'
  BY <1>13 DEF FreeRoom
<1>14. ASSUME NEW s \in Sessions, FinishSelect(s) PROVE HeldRoomHasOwner'
  BY <1>14 DEF FinishSelect, FinishTo
<1>15. ASSUME NEW s \in Sessions, FinishClose(s) PROVE HeldRoomHasOwner'
  BY <1>15 DEF FinishClose, FinishTo
<1>16. ASSUME NEW s \in Sessions, FinishRoom(s) PROVE HeldRoomHasOwner'
  BY <1>16 DEF FinishRoom, FinishTo
<1>17. ASSUME NEW s \in Sessions, AbandonStart(s) PROVE HeldRoomHasOwner'
  BY <1>17, FaultCounts DEF AbandonStart
<1>18. ASSUME NEW s \in Sessions, AbandonHostDispatch(s) PROVE HeldRoomHasOwner'
  BY <1>18, FaultCounts DEF AbandonHostDispatch
<1>19. ASSUME NEW s \in Sessions, AbandonEvent(s) PROVE HeldRoomHasOwner'
  BY <1>19, FaultCounts DEF AbandonEvent
<1>20. ASSUME NEW p \in Dialled, AbandonAdd(p) PROVE HeldRoomHasOwner'
  BY <1>20, FaultCounts DEF AbandonAdd
<1>21. ASSUME NEW k \in Stoppers, StopSelect(k) PROVE HeldRoomHasOwner'
  BY <1>21 DEF StopSelect
<1>22. ASSUME NEW k \in Stoppers, StopAlready(k) PROVE HeldRoomHasOwner'
  BY <1>22 DEF StopAlready
<1>23. ASSUME NEW k \in Stoppers, StopLegs(k) PROVE HeldRoomHasOwner'
  BY <1>23 DEF StopLegs
<1>24. ASSUME NEW k \in Stoppers, StopClose(k) PROVE HeldRoomHasOwner'
  BY <1>24 DEF StopClose
<1>25. ASSUME NEW k \in Stoppers, StopRoom(k) PROVE HeldRoomHasOwner'
  BY <1>25 DEF StopRoom
<1>26. ASSUME NEW k \in Stoppers, AbandonStop(k) PROVE HeldRoomHasOwner'
  BY <1>26, FaultCounts DEF AbandonStop
<1>27. ASSUME NEW e \in events, EventUpdate(e) PROVE HeldRoomHasOwner'
  BY <1>27 DEF EventUpdate
<1>28. CASE Crash
  BY <1>28, FaultCounts DEF Crash
<1>29. CASE UNCHANGED vars
  BY <1>29 DEF vars
<1>30. ASSUME NEW c \in Calls,
            DispatchReject(c) \/ DispatchInsert(c) \/ OriginateOk(c) \/
            OriginateError(c) \/ DispatchFailed(c) \/ DispatchJoin(c) \/
            PbxAccept(c) \/ PbxAnswer(c) \/ PbxHangUp(c) \/ OperatorDrop(c) \/
            OperatorDropError(c)
     PROVE HeldRoomHasOwner'
  <2>1. UNCHANGED <<room, session, starter, finish, stop, faults>>
    BY <1>30 DEF DispatchReject, DispatchInsert, OriginateOk,
                 OriginateError, DispatchFailed, DispatchJoin, PbxAccept,
                 Emit, PbxAnswer, PbxHangUp, OperatorDrop, OperatorDropError,
                 Dropped, HungUp
  <2> QED BY <1>1, <2>1
<1>31. ASSUME NEW p \in Dialled,
            Add(p)
     PROVE HeldRoomHasOwner'
  <2>1. UNCHANGED <<room, session, starter, finish, stop, faults>>
    BY <1>31 DEF Add
  <2> QED BY <1>1, <2>1
<1>32. ASSUME NEW k \in Stoppers, NEW c \in Calls,
            StopDrop(k, c) \/ StopDropError(k, c)
     PROVE HeldRoomHasOwner'
  <2>1. UNCHANGED <<room, session, starter, finish, stop, faults>>
    BY <1>32 DEF StopDrop, Dropped, HungUp, StopDropError
  <2> QED BY <1>1, <2>1
<1>33. ASSUME NEW e \in events,
            EventLost(e)
     PROVE HeldRoomHasOwner'
  <2>1. UNCHANGED <<room, session, starter, finish, stop, faults>>
    BY <1>33 DEF EventLost
  <2> QED BY <1>1, <2>1
<1> QED
  BY <1>2, <1>3, <1>4, <1>5, <1>6, <1>7, <1>8, <1>9, <1>10, <1>11, <1>12,
     <1>13, <1>14, <1>15, <1>16, <1>17, <1>18, <1>19, <1>20, <1>21, <1>22,
     <1>23, <1>24, <1>25, <1>26, <1>27, <1>28, <1>29, <1>30, <1>31, <1>32,
     <1>33
  DEF Next, StarterStep, FinishStep, TaskStep, PbxStep, StopStep

(* As long as no request was cut short, a room that is not READY has an    *)
(* open session or a handler about to free it: no room is stuck.           *)
THEOREM RoomOwned == Spec => []HeldRoomHasOwner
<1>1. Init => HeldRoomHasOwner
  BY DEF Init, HeldRoomHasOwner, Owned
<1>2. TypeOK /\ HeldRoomHasOwner /\ [Next]_vars => HeldRoomHasOwner'
  BY HeldRoomStep
<1> QED BY <1>1, <1>2, TypeCorrect, PTL DEF Spec

(* Each step of the room opens, runs or closes one session, or leaves the  *)
(* sessions alone.                                                         *)
LEMMA ContractStep == RoomInv /\ [Next]_vars => [Contract!Next]_session
<1> SUFFICES ASSUME RoomInv, [Next]_vars PROVE [Contract!Next]_session
  OBVIOUS
<1> USE DEF RoomInv, TypeOK, SessionsExist, Active, Closed, StopState,
            StarterState, ActiveSessions, GoTo, StopTo, TaskTo, stops, database,
            handlers, outside, Contract!Next, Contract!Open, Contract!Over
<1>1. ASSUME NEW s \in Sessions, StartCommit(s) PROVE [Contract!Next]_session
  <2>1. Contract!Begin(s)
    BY <1>1 DEF StartCommit, Contract!Begin
  <2> QED BY <2>1
<1>2. ASSUME NEW s \in Sessions, StartRefused(s) PROVE [Contract!Next]_session
  <2>1. Contract!Close(s)
    BY <1>2 DEF StartRefused, Contract!Close
  <2> QED BY <2>1
<1>3. ASSUME NEW s \in Sessions, Activate(s) PROVE [Contract!Next]_session
  <2>1. CASE session[s] = "STARTING"
    <3>1. Contract!Run(s)
      BY <1>3, <2>1 DEF Activate, Contract!Run
    <3> QED BY <3>1
  <2>2. CASE session[s] # "STARTING"
    BY <1>3, <2>2 DEF Activate
  <2> QED BY <2>1, <2>2
<1>4. ASSUME NEW s \in Sessions, FailIfStarting(s) PROVE [Contract!Next]_session
  <2>1. CASE session[s] = "STARTING"
    <3>1. Contract!Close(s)
      BY <1>4, <2>1 DEF FailIfStarting, Contract!Close
    <3> QED BY <3>1
  <2>2. CASE session[s] # "STARTING"
    BY <1>4, <2>2 DEF FailIfStarting
  <2> QED BY <2>1, <2>2
<1>5. ASSUME NEW s \in Sessions, FinishClose(s) PROVE [Contract!Next]_session
  <2>1. CASE session[s] \in Active
    <3>1. Contract!Close(s)
      BY <1>5, <2>1 DEF FinishClose, Contract!Close
    <3> QED BY <3>1
  <2>2. CASE session[s] \notin Active
    BY <1>5, <2>2 DEF FinishClose
  <2> QED BY <2>1, <2>2
<1>6. ASSUME NEW k \in Stoppers, StopClose(k) PROVE [Contract!Next]_session
  <2>1. Contract!Close(stopping[k])
    BY <1>6 DEF StopClose, Contract!Close
  <2>2. stopping[k] \in Sessions
    BY <1>6 DEF StopClose
  <2> QED BY <2>1, <2>2
<1>7. ASSUME NEW s \in Sessions,
            StartCheck(s) \/ StartConflict(s) \/ WatchAnswered(s) \/
            WatchEnded(s) \/ Deadline(s) \/ Publish(s) \/ FanOut(s) \/
            FreeRoom(s) \/ FinishSelect(s) \/ FinishRoom(s) \/
            AbandonStart(s) \/ AbandonHostDispatch(s) \/ AbandonEvent(s)
     PROVE UNCHANGED session
  BY <1>7 DEF StartCheck, StartConflict, WatchAnswered, Watching, HostCall,
              WatchEnded, Deadline, Publish, FanOut, FreeRoom, FinishSelect,
              FinishTo, FinishRoom, AbandonStart, Fault,
              AbandonHostDispatch, AbandonEvent
<1>8. ASSUME NEW c \in Calls,
            DispatchReject(c) \/ DispatchInsert(c) \/ OriginateOk(c) \/
            OriginateError(c) \/ DispatchFailed(c) \/ DispatchJoin(c) \/
            PbxAccept(c) \/ PbxAnswer(c) \/ PbxHangUp(c) \/ OperatorDrop(c) \/
            OperatorDropError(c)
     PROVE UNCHANGED session
  BY <1>8 DEF DispatchReject, DispatchInsert, OriginateOk, OriginateError,
              DispatchFailed, DispatchJoin, PbxAccept, Emit, PbxAnswer,
              PbxHangUp, OperatorDrop, OperatorDropError,
                 Dropped, HungUp
<1>9. ASSUME NEW p \in Dialled,
            Add(p) \/ AbandonAdd(p)
     PROVE UNCHANGED session
  BY <1>9 DEF Add, AbandonAdd, Fault
<1>10. ASSUME NEW k \in Stoppers,
            StopSelect(k) \/ StopAlready(k) \/ StopLegs(k) \/
            StopRoom(k) \/ AbandonStop(k)
     PROVE UNCHANGED session
  BY <1>10 DEF StopSelect, StopAlready, StopLegs, StopRoom, AbandonStop,
               Fault
<1>11. ASSUME NEW k \in Stoppers, NEW c \in Calls,
            StopDrop(k, c) \/ StopDropError(k, c)
     PROVE UNCHANGED session
  BY <1>11 DEF StopDrop, Dropped, HungUp, StopDropError
<1>12. ASSUME NEW e \in events,
            EventUpdate(e) \/ EventLost(e)
     PROVE UNCHANGED session
  BY <1>12 DEF EventUpdate, EventLost
<1>13. CASE Crash
  BY <1>13 DEF Crash
<1>14. CASE UNCHANGED vars
  BY <1>14 DEF vars
<1> QED
  BY <1>1, <1>2, <1>3, <1>4, <1>5, <1>6, <1>7, <1>8, <1>9, <1>10, <1>11,
     <1>12, <1>13, <1>14
  DEF Next, StarterStep, FinishStep, TaskStep, PbxStep, StopStep

(* The sessions of a room implement SessionContract: whatever runs late,   *)
(* crashes or is abandoned, a closed session is never resurrected.         *)
THEOREM ContractKept == Spec => SessionsKeepContract
<1>1. Init => Contract!Init
  BY DEF Init, Contract!Init
<1>2. RoomInv /\ [Next]_vars => [Contract!Next]_session
  BY ContractStep
<1> QED BY <1>1, <1>2, RoomInvariant, PTL DEF Spec, SessionsKeepContract, Contract!Spec

(* The contract alone keeps the sessions apart: whatever implements it     *)
(* never has two that are open.                                            *)
THEOREM ContractExcludes == Contract!Spec => []OneActiveSession
<1> DEFINE Statuses == {"NONE"} \union Active \union Closed
           Inv == session \in [Sessions -> Statuses] /\ OneActiveSession
<1> USE DEF Active, Closed, ActiveSessions, OneActiveSession, Contract!Open, Contract!Over
<1>1. Contract!Init => Inv
  BY DEF Contract!Init
<1>2. Inv /\ [Contract!Next]_session => Inv'
  <2> SUFFICES ASSUME Inv, [Contract!Next]_session PROVE Inv'
    OBVIOUS
  <2>1. ASSUME NEW s \in Sessions, Contract!Begin(s) PROVE Inv'
    BY <2>1 DEF Contract!Begin
  <2>2. ASSUME NEW s \in Sessions, Contract!Run(s) PROVE Inv'
    BY <2>2 DEF Contract!Run
  <2>3. ASSUME NEW s \in Sessions, Contract!Close(s) PROVE Inv'
    BY <2>3 DEF Contract!Close
  <2>4. CASE UNCHANGED session
    BY <2>4
  <2> QED BY <2>1, <2>2, <2>3, <2>4 DEF Contract!Next
<1> QED BY <1>1, <1>2, PTL DEF Contract!Spec

=============================================================================
