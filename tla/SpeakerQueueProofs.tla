-------------------------- MODULE SpeakerQueueProofs --------------------------
(***************************************************************************)
(* Safety of SpeakerQueue for any number of listeners, digits, operators,  *)
(* requests and calls, and any limit on the speakers.                      *)
(***************************************************************************)
EXTENDS SpeakerQueue, FiniteSetTheorems, TLAPS

(* A digit and a request name a call that was placed, and a grant under    *)
(* way names a request that was made.                                      *)
CallsKnown ==
    /\ \A p \in up : calls[p] >= 1
    /\ \A d \in Presses : press[d] # "idle" => caller[d][2] >= 1
    /\ \A r \in Requests : request[r] # "NONE" => onLeg[r] >= 1
    /\ \A o \in Moderators : op[o] \in {"unmute", "activate"} =>
          target[o] \in Requests /\ request[target[o]] # "NONE"

(* An operator request that is about to record a speaker has had a         *)
(* command for it accepted.                                                *)
AcceptedFirst ==
    /\ RecordedAfterAcceptance
    /\ \A o \in Moderators : op[o] = "activate" =>
          <<target[o][1], onLeg[target[o]]>> \in accepted
    /\ \A o \in Moderators : op[o] = "speak" =>
          \E n \in 1..MaxCalls : <<target[o][1], n>> \in accepted

(* The grants between the count and the claim.                             *)
Granting == {o \in Moderators : op[o] \in {"unmute", "activate"}}

(* A grant under way holds a place, and all but one of the operators may   *)
(* hold one beyond the limit.                                              *)
PlacesHeld ==
    Cardinality(Speaking) + Cardinality(Granting) + 1
        <= MaxSpeakers + Cardinality(Moderators)

QueueInv ==
    /\ TypeOK
    /\ CallsKnown
    /\ OneOpenRequest
    /\ AcceptedFirst
    /\ PlacesHeld

(* Type correctness.                                                       *)
LEMMA TypeStep == TypeOK /\ CallsKnown /\ [Next]_vars => TypeOK'
<1> SUFFICES ASSUME TypeOK, CallsKnown, [Next]_vars PROVE TypeOK'
  OBVIOUS
<1> USE SpeakerAssumption
<1> USE DEF TypeOK, CallsKnown, Requests, Calls, Open, PressTo, OpTo, Desire, media, digits,
            engine
<1>1. ASSUME NEW p \in Participants, Dial(p) PROVE TypeOK'
  BY <1>1 DEF Dial
<1>2. ASSUME NEW p \in Participants, DialRecorded(p) PROVE TypeOK'
  BY <1>2 DEF DialRecorded
<1>3. ASSUME NEW p \in Participants, DialFailed(p) PROVE TypeOK'
  BY <1>3 DEF DialFailed
<1>4. ASSUME NEW p \in Participants, CallEvent(p) PROVE TypeOK'
  BY <1>4 DEF CallEvent
<1>5. ASSUME NEW d \in Presses, NEW p \in Participants, PressDigit(d, p) PROVE TypeOK'
  BY <1>5 DEF PressDigit
<1>6. ASSUME NEW d \in Presses, QueueRequest(d) PROVE TypeOK'
  <2>1. caller[d] \in Participants \X (0..MaxCalls)
    OBVIOUS
  <2>2. caller[d][2] \in 0..MaxCalls
    BY <2>1
  <2> QED BY <1>6, <2>2 DEF QueueRequest, Queued
<1>25. ASSUME NEW d \in Presses, QueueLook(d) PROVE TypeOK'
  BY <1>25 DEF QueueLook
<1>7. ASSUME NEW d \in Presses, RaiseHand(d) PROVE TypeOK'
  BY <1>7 DEF RaiseHand
<1>8. ASSUME NEW d \in Presses, HashWithdraw(d) PROVE TypeOK'
  BY <1>8 DEF HashWithdraw
<1>9. ASSUME NEW d \in Presses, HashLower(d) PROVE TypeOK'
  BY <1>9 DEF HashLower
<1>10. ASSUME NEW d \in Presses, DigitCut(d) PROVE TypeOK'
  BY <1>10 DEF DigitCut
<1>11. ASSUME NEW o \in Moderators, GrantUnmute(o) PROVE TypeOK'
  BY <1>11 DEF GrantUnmute
<1>12. ASSUME NEW o \in Moderators, GrantError(o) PROVE TypeOK'
  BY <1>12 DEF GrantError
<1>13. ASSUME NEW o \in Moderators, GrantActivate(o) PROVE TypeOK'
  BY <1>13 DEF GrantActivate
<1>14. ASSUME NEW o \in Moderators, SpeakRecorded(o) PROVE TypeOK'
  BY <1>14 DEF SpeakRecorded
<1>15. ASSUME NEW o \in Moderators, DismissRequest(o) PROVE TypeOK'
  BY <1>15 DEF DismissRequest
<1>16. ASSUME NEW o \in Moderators, SilenceRecorded(o) PROVE TypeOK'
  BY <1>16 DEF SilenceRecorded
<1>17. ASSUME NEW o \in Moderators, DropRecorded(o) PROVE TypeOK'
  BY <1>17 DEF DropRecorded
<1>18. ASSUME NEW o \in Moderators, OperatorCut(o) PROVE TypeOK'
  BY <1>18 DEF OperatorCut
<1>19. ASSUME NEW o \in Moderators, NEW r \in Requests, GrantCount(o, r) PROVE TypeOK'
  BY <1>19 DEF GrantCount
<1>20. ASSUME NEW o \in Moderators, NEW r \in Requests, Dismiss(o, r) PROVE TypeOK'
  BY <1>20 DEF Dismiss
<1>21. ASSUME NEW o \in Moderators, NEW p \in Participants, OperatorMute(o, p) PROVE TypeOK'
  BY <1>21 DEF OperatorMute, Act
<1>22. ASSUME NEW o \in Moderators, NEW p \in Participants, OperatorUnmute(o, p) PROVE TypeOK'
  BY <1>22 DEF OperatorUnmute, Act
<1>23. ASSUME NEW o \in Moderators, NEW p \in Participants, OperatorDrop(o, p) PROVE TypeOK'
  BY <1>23 DEF OperatorDrop, Act
<1>24. CASE UNCHANGED vars
  BY <1>24 DEF vars
<1> QED
  BY <1>1, <1>2, <1>3, <1>4, <1>5, <1>6, <1>7, <1>8, <1>9, <1>10, <1>11, <1>12, <1>13,
     <1>14, <1>15, <1>16, <1>17, <1>18, <1>19, <1>20, <1>21, <1>22, <1>23, <1>24,
     <1>25 DEF
     Next, PressStep, OpStep

LEMMA KnownStep == TypeOK /\ CallsKnown /\ [Next]_vars => CallsKnown'
<1> SUFFICES ASSUME TypeOK, CallsKnown, [Next]_vars PROVE CallsKnown'
  OBVIOUS
<1> USE SpeakerAssumption
<1> USE DEF TypeOK, CallsKnown, Requests, Calls, Open, PressTo, OpTo, Desire, media, digits,
            engine
<1>1. ASSUME NEW p \in Participants, Dial(p) PROVE CallsKnown'
  BY <1>1 DEF Dial
<1>2. ASSUME NEW p \in Participants, DialRecorded(p) PROVE CallsKnown'
  BY <1>2 DEF DialRecorded
<1>3. ASSUME NEW p \in Participants, DialFailed(p) PROVE CallsKnown'
  BY <1>3 DEF DialFailed
<1>4. ASSUME NEW p \in Participants, CallEvent(p) PROVE CallsKnown'
  BY <1>4 DEF CallEvent
<1>5. ASSUME NEW d \in Presses, NEW p \in Participants, PressDigit(d, p) PROVE CallsKnown'
  BY <1>5 DEF PressDigit
<1>6. ASSUME NEW d \in Presses, QueueRequest(d) PROVE CallsKnown'
  <2>1. caller[d][2] \in 0..MaxCalls /\ caller[d][2] >= 1
    <3>1. caller[d] \in Participants \X (0..MaxCalls)
      OBVIOUS
    <3> QED BY <1>6, <3>1 DEF QueueRequest, Queued
  <2>2. CASE UNCHANGED <<request, onLeg>>
    BY <1>6, <2>2 DEF QueueRequest, Queued
  <2>3. ASSUME NEW r \in Requests, request' = [request EXCEPT ![r] = "QUEUED"],
               onLeg' = [onLeg EXCEPT ![r] = caller[d][2]]
        PROVE  CallsKnown'
    BY <1>6, <2>1, <2>3 DEF QueueRequest, Queued
  <2> QED BY <1>6, <2>2, <2>3 DEF QueueRequest, Queued
<1>25. ASSUME NEW d \in Presses, QueueLook(d) PROVE CallsKnown'
  BY <1>25 DEF QueueLook
<1>7. ASSUME NEW d \in Presses, RaiseHand(d) PROVE CallsKnown'
  BY <1>7 DEF RaiseHand
<1>8. ASSUME NEW d \in Presses, HashWithdraw(d) PROVE CallsKnown'
  BY <1>8 DEF HashWithdraw, OpenOf
<1>9. ASSUME NEW d \in Presses, HashLower(d) PROVE CallsKnown'
  BY <1>9 DEF HashLower
<1>10. ASSUME NEW d \in Presses, DigitCut(d) PROVE CallsKnown'
  BY <1>10 DEF DigitCut
<1>11. ASSUME NEW o \in Moderators, GrantUnmute(o) PROVE CallsKnown'
  BY <1>11 DEF GrantUnmute
<1>12. ASSUME NEW o \in Moderators, GrantError(o) PROVE CallsKnown'
  BY <1>12 DEF GrantError
<1>13. ASSUME NEW o \in Moderators, GrantActivate(o) PROVE CallsKnown'
  BY <1>13 DEF GrantActivate
<1>14. ASSUME NEW o \in Moderators, SpeakRecorded(o) PROVE CallsKnown'
  BY <1>14 DEF SpeakRecorded
<1>15. ASSUME NEW o \in Moderators, DismissRequest(o) PROVE CallsKnown'
  BY <1>15 DEF DismissRequest
<1>16. ASSUME NEW o \in Moderators, SilenceRecorded(o) PROVE CallsKnown'
  BY <1>16 DEF SilenceRecorded
<1>17. ASSUME NEW o \in Moderators, DropRecorded(o) PROVE CallsKnown'
  BY <1>17 DEF DropRecorded
<1>18. ASSUME NEW o \in Moderators, OperatorCut(o) PROVE CallsKnown'
  BY <1>18 DEF OperatorCut
<1>19. ASSUME NEW o \in Moderators, NEW r \in Requests, GrantCount(o, r) PROVE CallsKnown'
  BY <1>19 DEF GrantCount
<1>20. ASSUME NEW o \in Moderators, NEW r \in Requests, Dismiss(o, r) PROVE CallsKnown'
  BY <1>20 DEF Dismiss
<1>21. ASSUME NEW o \in Moderators, NEW p \in Participants, OperatorMute(o, p) PROVE CallsKnown'
  BY <1>21 DEF OperatorMute, Act
<1>22. ASSUME NEW o \in Moderators, NEW p \in Participants, OperatorUnmute(o, p) PROVE CallsKnown'
  BY <1>22 DEF OperatorUnmute, Act
<1>23. ASSUME NEW o \in Moderators, NEW p \in Participants, OperatorDrop(o, p) PROVE CallsKnown'
  BY <1>23 DEF OperatorDrop, Act
<1>24. CASE UNCHANGED vars
  BY <1>24 DEF vars
<1> QED
  BY <1>1, <1>2, <1>3, <1>4, <1>5, <1>6, <1>7, <1>8, <1>9, <1>10, <1>11, <1>12, <1>13,
     <1>14, <1>15, <1>16, <1>17, <1>18, <1>19, <1>20, <1>21, <1>22, <1>23, <1>24,
     <1>25 DEF
     Next, PressStep, OpStep

LEMMA OpenStep == TypeOK /\ OneOpenRequest /\ [Next]_vars => OneOpenRequest'
<1> SUFFICES ASSUME TypeOK, OneOpenRequest, [Next]_vars PROVE OneOpenRequest'
  OBVIOUS
<1> USE SpeakerAssumption
<1> USE DEF TypeOK, OneOpenRequest, OpenOf, Open, PressTo, OpTo, Desire, media, digits, engine
<1>1. ASSUME NEW p \in Participants, Dial(p) PROVE OneOpenRequest'
  BY <1>1 DEF Dial
<1>2. ASSUME NEW p \in Participants, DialRecorded(p) PROVE OneOpenRequest'
  BY <1>2 DEF DialRecorded
<1>3. ASSUME NEW p \in Participants, DialFailed(p) PROVE OneOpenRequest'
  BY <1>3 DEF DialFailed
<1>4. ASSUME NEW p \in Participants, CallEvent(p) PROVE OneOpenRequest'
  BY <1>4 DEF CallEvent
<1>5. ASSUME NEW d \in Presses, NEW p \in Participants, PressDigit(d, p) PROVE OneOpenRequest'
  BY <1>5 DEF PressDigit
<1>6. ASSUME NEW d \in Presses, QueueRequest(d) PROVE OneOpenRequest'
  BY <1>6 DEF QueueRequest, Queued
<1>25. ASSUME NEW d \in Presses, QueueLook(d) PROVE OneOpenRequest'
  BY <1>25 DEF QueueLook
<1>7. ASSUME NEW d \in Presses, RaiseHand(d) PROVE OneOpenRequest'
  BY <1>7 DEF RaiseHand
<1>8. ASSUME NEW d \in Presses, HashWithdraw(d) PROVE OneOpenRequest'
  BY <1>8 DEF HashWithdraw
<1>9. ASSUME NEW d \in Presses, HashLower(d) PROVE OneOpenRequest'
  BY <1>9 DEF HashLower
<1>10. ASSUME NEW d \in Presses, DigitCut(d) PROVE OneOpenRequest'
  BY <1>10 DEF DigitCut
<1>11. ASSUME NEW o \in Moderators, GrantUnmute(o) PROVE OneOpenRequest'
  BY <1>11 DEF GrantUnmute
<1>12. ASSUME NEW o \in Moderators, GrantError(o) PROVE OneOpenRequest'
  BY <1>12 DEF GrantError
<1>13. ASSUME NEW o \in Moderators, GrantActivate(o) PROVE OneOpenRequest'
  BY <1>13 DEF GrantActivate
<1>14. ASSUME NEW o \in Moderators, SpeakRecorded(o) PROVE OneOpenRequest'
  BY <1>14 DEF SpeakRecorded
<1>15. ASSUME NEW o \in Moderators, DismissRequest(o) PROVE OneOpenRequest'
  BY <1>15 DEF DismissRequest
<1>16. ASSUME NEW o \in Moderators, SilenceRecorded(o) PROVE OneOpenRequest'
  BY <1>16 DEF SilenceRecorded
<1>17. ASSUME NEW o \in Moderators, DropRecorded(o) PROVE OneOpenRequest'
  BY <1>17 DEF DropRecorded
<1>18. ASSUME NEW o \in Moderators, OperatorCut(o) PROVE OneOpenRequest'
  BY <1>18 DEF OperatorCut
<1>19. ASSUME NEW o \in Moderators, NEW r \in Requests, GrantCount(o, r) PROVE OneOpenRequest'
  BY <1>19 DEF GrantCount
<1>20. ASSUME NEW o \in Moderators, NEW r \in Requests, Dismiss(o, r) PROVE OneOpenRequest'
  BY <1>20 DEF Dismiss
<1>21. ASSUME NEW o \in Moderators, NEW p \in Participants, OperatorMute(o, p) PROVE OneOpenRequest'
  BY <1>21 DEF OperatorMute, Act
<1>22. ASSUME NEW o \in Moderators, NEW p \in Participants, OperatorUnmute(o, p) PROVE OneOpenRequest'
  BY <1>22 DEF OperatorUnmute, Act
<1>23. ASSUME NEW o \in Moderators, NEW p \in Participants, OperatorDrop(o, p) PROVE OneOpenRequest'
  BY <1>23 DEF OperatorDrop, Act
<1>24. CASE UNCHANGED vars
  BY <1>24 DEF vars
<1> QED
  BY <1>1, <1>2, <1>3, <1>4, <1>5, <1>6, <1>7, <1>8, <1>9, <1>10, <1>11, <1>12, <1>13,
     <1>14, <1>15, <1>16, <1>17, <1>18, <1>19, <1>20, <1>21, <1>22, <1>23, <1>24,
     <1>25 DEF
     Next, PressStep, OpStep

LEMMA AcceptedStep == TypeOK /\ CallsKnown /\ AcceptedFirst /\ [Next]_vars => AcceptedFirst'
<1> SUFFICES ASSUME TypeOK, CallsKnown, AcceptedFirst, [Next]_vars PROVE AcceptedFirst'
  OBVIOUS
<1> USE SpeakerAssumption
<1> USE DEF TypeOK, CallsKnown, AcceptedFirst, RecordedAfterAcceptance, Calls, Requests, Open,
            PressTo, OpTo, Desire, media, digits, engine
<1>1. ASSUME NEW p \in Participants, Dial(p) PROVE AcceptedFirst'
  BY <1>1 DEF Dial
<1>2. ASSUME NEW p \in Participants, DialRecorded(p) PROVE AcceptedFirst'
  BY <1>2 DEF DialRecorded
<1>3. ASSUME NEW p \in Participants, DialFailed(p) PROVE AcceptedFirst'
  BY <1>3 DEF DialFailed
<1>4. ASSUME NEW p \in Participants, CallEvent(p) PROVE AcceptedFirst'
  BY <1>4 DEF CallEvent
<1>5. ASSUME NEW d \in Presses, NEW p \in Participants, PressDigit(d, p) PROVE AcceptedFirst'
  BY <1>5 DEF PressDigit
<1>6. ASSUME NEW d \in Presses, QueueRequest(d) PROVE AcceptedFirst'
  <2>1. CASE UNCHANGED <<request, onLeg>>
    BY <1>6, <2>1 DEF QueueRequest, Queued
  <2>2. ASSUME NEW r \in Requests, request[r] = "NONE",
               request' = [request EXCEPT ![r] = "QUEUED"],
               onLeg' = [onLeg EXCEPT ![r] = caller[d][2]]
        PROVE  AcceptedFirst'
    <3>1. \A o \in Moderators : op[o] = "activate" => target[o] \in Requests \ {r}
      BY <2>2
    <3> QED BY <1>6, <2>2, <3>1 DEF QueueRequest, Queued
  <2> QED BY <1>6, <2>1, <2>2 DEF QueueRequest, Queued
<1>25. ASSUME NEW d \in Presses, QueueLook(d) PROVE AcceptedFirst'
  BY <1>25 DEF QueueLook
<1>7. ASSUME NEW d \in Presses, RaiseHand(d) PROVE AcceptedFirst'
  BY <1>7 DEF RaiseHand
<1>8. ASSUME NEW d \in Presses, HashWithdraw(d) PROVE AcceptedFirst'
  BY <1>8 DEF HashWithdraw
<1>9. ASSUME NEW d \in Presses, HashLower(d) PROVE AcceptedFirst'
  BY <1>9 DEF HashLower
<1>10. ASSUME NEW d \in Presses, DigitCut(d) PROVE AcceptedFirst'
  BY <1>10 DEF DigitCut
<1>11. ASSUME NEW o \in Moderators, GrantUnmute(o) PROVE AcceptedFirst'
  BY <1>11 DEF GrantUnmute
<1>12. ASSUME NEW o \in Moderators, GrantError(o) PROVE AcceptedFirst'
  BY <1>12 DEF GrantError
<1>13. ASSUME NEW o \in Moderators, GrantActivate(o) PROVE AcceptedFirst'
  BY <1>13 DEF GrantActivate
<1>14. ASSUME NEW o \in Moderators, SpeakRecorded(o) PROVE AcceptedFirst'
  BY <1>14 DEF SpeakRecorded
<1>15. ASSUME NEW o \in Moderators, DismissRequest(o) PROVE AcceptedFirst'
  BY <1>15 DEF DismissRequest
<1>16. ASSUME NEW o \in Moderators, SilenceRecorded(o) PROVE AcceptedFirst'
  BY <1>16 DEF SilenceRecorded
<1>17. ASSUME NEW o \in Moderators, DropRecorded(o) PROVE AcceptedFirst'
  BY <1>17 DEF DropRecorded
<1>18. ASSUME NEW o \in Moderators, OperatorCut(o) PROVE AcceptedFirst'
  BY <1>18 DEF OperatorCut
<1>19. ASSUME NEW o \in Moderators, NEW r \in Requests, GrantCount(o, r) PROVE AcceptedFirst'
  BY <1>19 DEF GrantCount
<1>20. ASSUME NEW o \in Moderators, NEW r \in Requests, Dismiss(o, r) PROVE AcceptedFirst'
  BY <1>20 DEF Dismiss
<1>21. ASSUME NEW o \in Moderators, NEW p \in Participants, OperatorMute(o, p) PROVE AcceptedFirst'
  BY <1>21 DEF OperatorMute, Act
<1>22. ASSUME NEW o \in Moderators, NEW p \in Participants, OperatorUnmute(o, p) PROVE AcceptedFirst'
  BY <1>22 DEF OperatorUnmute, Act
<1>23. ASSUME NEW o \in Moderators, NEW p \in Participants, OperatorDrop(o, p) PROVE AcceptedFirst'
  BY <1>23 DEF OperatorDrop, Act
<1>24. CASE UNCHANGED vars
  BY <1>24 DEF vars
<1> QED
  BY <1>1, <1>2, <1>3, <1>4, <1>5, <1>6, <1>7, <1>8, <1>9, <1>10, <1>11, <1>12, <1>13,
     <1>14, <1>15, <1>16, <1>17, <1>18, <1>19, <1>20, <1>21, <1>22, <1>23, <1>24,
     <1>25 DEF
     Next, PressStep, OpStep

(* The rows of the room and the operators at work are finitely many.       *)
LEMMA Finite ==
    /\ IsFiniteSet(Requests) /\ IsFiniteSet(Speaking) /\ IsFiniteSet(Granting)
    /\ Cardinality(Speaking) \in Nat
    /\ Cardinality(Granting) \in Nat
    /\ Cardinality(Moderators) \in Nat
<1>1. IsFiniteSet(1..MaxRequests)
  BY SpeakerAssumption, FS_Interval
<1>2. IsFiniteSet(Requests)
  BY <1>1, SpeakerAssumption, FS_Product DEF Requests
<1>3. Speaking \in SUBSET Requests /\ Granting \in SUBSET Moderators
  BY DEF Speaking, Granting
<1> QED
  BY <1>2, <1>3, SpeakerAssumption, FS_Subset, FS_CardinalityType

(* No more places are held once some are given up.                         *)
LEMMA FewerPlaces ==
    ASSUME PlacesHeld, Speaking' \subseteq Speaking, Granting' \subseteq Granting
    PROVE  PlacesHeld'
<1>1. Cardinality(Speaking') <= Cardinality(Speaking) /\ Cardinality(Speaking') \in Nat
  BY Finite, FS_Subset, FS_CardinalityType
<1>2. Cardinality(Granting') <= Cardinality(Granting) /\ Cardinality(Granting') \in Nat
  BY Finite, FS_Subset, FS_CardinalityType
<1> QED
  BY <1>1, <1>2, Finite, SpeakerAssumption DEF PlacesHeld

LEMMA PlacesStep == TypeOK /\ PlacesHeld /\ [Next]_vars => PlacesHeld'
<1> SUFFICES ASSUME TypeOK, PlacesHeld, [Next]_vars PROVE PlacesHeld'
  OBVIOUS
<1> USE SpeakerAssumption
<1>1. ASSUME NEW o \in Moderators, NEW r \in Requests, GrantCount(o, r) PROVE PlacesHeld'
  <2>1. Speaking' = Speaking /\ o \in Moderators \ Granting
    BY <1>1 DEF GrantCount, Speaking, Granting
  <2>2. Granting' = Granting \union {o}
    BY <1>1 DEF GrantCount, Granting, OpTo, TypeOK
  <2>3. Cardinality(Granting') = Cardinality(Granting) + 1
    BY <2>1, <2>2, Finite, FS_AddElement
  <2>4. Granting' \in SUBSET Moderators
    BY DEF Granting
  <2>5. Cardinality(Granting') <= Cardinality(Moderators)
    BY <2>4, FS_Subset
  <2>6. Cardinality(Speaking) < MaxSpeakers
    BY <1>1 DEF GrantCount
  <2> QED BY <2>1, <2>3, <2>5, <2>6, Finite DEF PlacesHeld
<1>2. ASSUME NEW o \in Moderators, GrantActivate(o) PROVE PlacesHeld'
  <2>1. o \in Granting /\ Granting' = Granting \ {o}
    BY <1>2 DEF GrantActivate, Granting, OpTo, TypeOK
  <2>2. Cardinality(Granting') = Cardinality(Granting) - 1
    BY <2>1, Finite, FS_RemoveElement
  <2>3. Speaking' \in SUBSET (Speaking \union {target[o]})
    BY <1>2 DEF GrantActivate, Speaking, TypeOK
  <2>4. IsFiniteSet(Speaking)
    BY Finite
  <2>5. /\ IsFiniteSet(Speaking \union {target[o]})
        /\ Cardinality(Speaking \union {target[o]}) =
              IF target[o] \in Speaking THEN Cardinality(Speaking) ELSE Cardinality(Speaking) + 1
    BY <2>4, FS_AddElement
  <2>6. Cardinality(Speaking') <= Cardinality(Speaking) + 1 /\ Cardinality(Speaking') \in Nat
    BY <2>3, <2>5, FS_Subset, FS_CardinalityType, Finite
  <2> QED BY <2>2, <2>6, Finite DEF PlacesHeld
<1>3. ASSUME NEW o \in Moderators,
             \/ GrantUnmute(o) \/ GrantError(o) \/ SpeakRecorded(o) \/ DismissRequest(o)
             \/ SilenceRecorded(o) \/ DropRecorded(o) \/ OperatorCut(o)
             \/ \E r \in Requests : Dismiss(o, r)
             \/ \E p \in Participants :
                   OperatorMute(o, p) \/ OperatorUnmute(o, p) \/ OperatorDrop(o, p)
      PROVE  PlacesHeld'
  <2>1. Granting' \subseteq Granting
    BY <1>3 DEF GrantUnmute, GrantError, SpeakRecorded, DismissRequest, SilenceRecorded,
                DropRecorded, OperatorCut, Dismiss, OperatorMute, OperatorUnmute,
                OperatorDrop, Granting, OpTo, TypeOK
  <2>2. Speaking' \subseteq Speaking
    BY <1>3 DEF GrantUnmute, GrantError, SpeakRecorded, DismissRequest, SilenceRecorded,
                DropRecorded, OperatorCut, Dismiss, OperatorMute, OperatorUnmute,
                OperatorDrop, Speaking, TypeOK
  <2> QED BY <2>1, <2>2, FewerPlaces
<1>4. ASSUME \/ \E p \in Participants :
                   Dial(p) \/ DialRecorded(p) \/ DialFailed(p) \/ CallEvent(p)
             \/ \E d \in Presses : PressStep(d)
             \/ \E d \in Presses, p \in Participants : PressDigit(d, p)
             \/ UNCHANGED vars
      PROVE  PlacesHeld'
  <2>1. Granting' = Granting
    BY <1>4 DEF Dial, DialRecorded, DialFailed, CallEvent, PressStep, PressDigit, QueueLook,
                QueueRequest, Queued,
                RaiseHand, HashWithdraw, HashLower, DigitCut, Granting, vars
  <2>2. Speaking' \subseteq Speaking
    BY <1>4 DEF Dial, DialRecorded, DialFailed, CallEvent, PressStep, PressDigit, QueueLook,
                QueueRequest, Queued,
                RaiseHand, HashWithdraw, HashLower, DigitCut, Speaking, TypeOK, vars
  <2> QED BY <2>1, <2>2, FewerPlaces
<1> QED
  BY <1>1, <1>2, <1>3, <1>4 DEF Next, OpStep

LEMMA InitInv == Init => QueueInv
<1> SUFFICES ASSUME Init PROVE QueueInv
  OBVIOUS
<1> USE SpeakerAssumption
<1>1. TypeOK
  BY DEF Init, TypeOK, Open, Calls
<1>2. CallsKnown /\ OneOpenRequest /\ AcceptedFirst
  BY DEF Init, CallsKnown, OneOpenRequest, AcceptedFirst, RecordedAfterAcceptance,
     Open, Requests
<1>3. Speaking = {} /\ Granting = {}
  BY DEF Init, Speaking, Granting
<1>4. PlacesHeld
  BY <1>3, Finite, FS_EmptySet DEF PlacesHeld
<1> QED
  BY <1>1, <1>2, <1>4 DEF QueueInv

LEMMA InvStep == QueueInv /\ [Next]_vars => QueueInv'
  BY TypeStep, KnownStep, OpenStep, AcceptedStep, PlacesStep DEF QueueInv

LEMMA InvHolds == Spec => []QueueInv
  BY InitInv, InvStep, PTL DEF Spec

(* Every variable keeps its type.                                          *)
THEOREM QueueTypeCorrect == Spec => []TypeOK
<1>1. QueueInv => TypeOK
  BY DEF QueueInv
<1> QED BY <1>1, InvHolds, PTL

(* A participant never has two open requests.                              *)
THEOREM RequestsExclusive == Spec => []OneOpenRequest
<1>1. QueueInv => OneOpenRequest
  BY DEF QueueInv
<1> QED BY <1>1, InvHolds, PTL

(* A speaker is recorded only after a command for the call was accepted.   *)
THEOREM AcceptedBeforeRecorded == Spec => []RecordedAfterAcceptance
<1>1. QueueInv => RecordedAfterAcceptance
  BY DEF QueueInv, AcceptedFirst
<1> QED BY <1>1, InvHolds, PTL

(* The limit is exceeded by at most the operator requests less one.        *)
THEOREM OvershootBounded == Spec => []SpeakersBounded
<1>1. QueueInv => SpeakersBounded
  BY Finite, SpeakerAssumption DEF QueueInv, PlacesHeld, SpeakersBounded
<1> QED BY <1>1, InvHolds, PTL

(* The instance of FloorContract counts as this module does.               *)
LEMMA SameCount == \A S : Floor!Cardinality(S) = Cardinality(S)
BY DEF Floor!Cardinality, Cardinality

(* A grant that is recorded takes a place: the inductive invariant says    *)
(* that the speakers fit with it.                                          *)
LEMMA GrantFits ==
    ASSUME QueueInv, NEW o \in Moderators, GrantActivate(o)
    PROVE  [Floor!Next]_request
<1> DEFINE r == target[o]
<1> USE SpeakerAssumption DEF QueueInv
<1>1. r \in Requests /\ request[r] # "NONE"
  BY DEF GrantActivate, CallsKnown
<1>2. CASE ~(OpenOf(r[1]) \subseteq {r})
  BY <1>2 DEF GrantActivate
<1>3. CASE OpenOf(r[1]) \subseteq {r}
  <2>1. request' = [request EXCEPT ![r] = "ACTIVE"]
    BY <1>3 DEF GrantActivate
  <2>2. Floor!Alone(r)
    BY <1>3 DEF Floor!Alone, Floor!Open, OpenOf, Open
  <2>3. Floor!Speaking = Speaking
    BY DEF Floor!Speaking, Speaking
  <2>4. o \in Granting
    BY DEF GrantActivate, Granting
  <2>5. Cardinality(Granting) >= 1
    <3>1. Cardinality(Granting \ {o}) = Cardinality(Granting) - 1
      BY <2>4, Finite, FS_RemoveElement
    <3>2. Cardinality(Granting \ {o}) \in Nat
      BY Finite, FS_RemoveElement, FS_CardinalityType
    <3> QED BY <3>1, <3>2, Finite
  <2>6. IsFiniteSet(Speaking) /\ Cardinality(Speaking) \in Nat
    BY Finite
  <2>7. Cardinality(Speaking \union {r}) =
           IF r \in Speaking THEN Cardinality(Speaking) ELSE Cardinality(Speaking) + 1
    BY <2>6, FS_AddElement
  <2>8. Cardinality(Speaking \union {r}) <= (MaxSpeakers + Cardinality(Moderators)) - 1
    BY <2>5, <2>6, <2>7, Finite DEF PlacesHeld
  <2>9. Floor!Grant(r)
    BY <1>1, <2>1, <2>2, <2>3, <2>8, SameCount DEF Floor!Grant
  <2> QED BY <1>1, <2>9 DEF Floor!Next
<1> QED BY <1>2, <1>3

(* The # of a caller closes the one request it has open.                   *)
LEMMA HashClosesOne ==
    ASSUME QueueInv, NEW d \in Presses, HashWithdraw(d)
    PROVE  [Floor!Next]_request
<1> DEFINE p == caller[d][1]
<1> USE DEF QueueInv
<1>1. request \in [Requests -> Open \union {"NONE", "WITHDRAWN"}]
  BY DEF TypeOK
<1>2. request' = [r \in Requests |-> IF r \in OpenOf(p) THEN "WITHDRAWN" ELSE request[r]]
  BY DEF HashWithdraw
<1>3. CASE OpenOf(p) = {}
  BY <1>1, <1>2, <1>3
<1>4. CASE OpenOf(p) # {}
  <2>1. PICK r \in Requests : r \in OpenOf(p)
    BY <1>4 DEF OpenOf
  <2>2. OpenOf(p) = {r}
    BY <2>1 DEF OpenOf, OneOpenRequest
  <2>3. request' = [request EXCEPT ![r] = "WITHDRAWN"]
    BY <1>1, <1>2, <2>2
  <2>4. Floor!Withdraw(r)
    BY <2>1, <2>3 DEF Floor!Withdraw, Floor!Open, OpenOf, Open
  <2> QED BY <2>4 DEF Floor!Next
<1> QED BY <1>3, <1>4

(* A step of the queue is a step of the floor, or none.                    *)
LEMMA FloorStep == QueueInv /\ [Next]_vars => [Floor!Next]_request
<1> SUFFICES ASSUME QueueInv, [Next]_vars PROVE [Floor!Next]_request
  OBVIOUS
<1>1. ASSUME NEW d \in Presses, QueueRequest(d) PROVE [Floor!Next]_request
  <2>1. CASE OpenOf(caller[d][1]) # {}
    BY <1>1, <2>1 DEF QueueRequest, Queued
  <2>2. CASE OpenOf(caller[d][1]) = {}
    <3>1. PICK r \in Requests :
             /\ r[1] = caller[d][1] /\ request[r] = "NONE"
             /\ request' = [request EXCEPT ![r] = "QUEUED"]
      BY <1>1, <2>2 DEF QueueRequest, Queued
    <3>2. Floor!Alone(r)
      BY <2>2, <3>1 DEF Floor!Alone, Floor!Open, OpenOf, Open
    <3>3. Floor!Ask(r)
      BY <3>1, <3>2 DEF Floor!Ask
    <3> QED BY <3>3 DEF Floor!Next
  <2> QED BY <2>1, <2>2
<1>2. ASSUME NEW d \in Presses, HashWithdraw(d) PROVE [Floor!Next]_request
  BY <1>2, HashClosesOne
<1>3. ASSUME NEW o \in Moderators, GrantActivate(o) PROVE [Floor!Next]_request
  BY <1>3, GrantFits
<1>4. ASSUME NEW o \in Moderators, DismissRequest(o) PROVE [Floor!Next]_request
  <2>1. CASE request[target[o]] \notin Open
    BY <1>4, <2>1 DEF DismissRequest
  <2>2. CASE request[target[o]] \in Open
    <3>1. request' = [request EXCEPT ![target[o]] = "WITHDRAWN"]
      BY <1>4, <2>2 DEF DismissRequest
    <3>2. CASE target[o] \in Requests
      <4>1. Floor!Withdraw(target[o])
        BY <2>2, <3>1 DEF Floor!Withdraw, Floor!Open, Open
      <4> QED BY <3>2, <4>1 DEF Floor!Next
    <3>3. CASE target[o] \notin Requests
      BY <3>1, <3>3 DEF QueueInv, TypeOK
    <3> QED BY <3>2, <3>3
  <2> QED BY <2>1, <2>2
<1>5. ASSUME NEW d \in Presses,
             QueueLook(d) \/ RaiseHand(d) \/ HashLower(d) \/ DigitCut(d)
      PROVE  UNCHANGED request
  BY <1>5 DEF QueueLook, RaiseHand, HashLower, DigitCut
<1>6. ASSUME NEW o \in Moderators,
             \/ GrantUnmute(o) \/ GrantError(o) \/ SpeakRecorded(o) \/ SilenceRecorded(o)
             \/ DropRecorded(o) \/ OperatorCut(o)
             \/ \E r \in Requests : GrantCount(o, r) \/ Dismiss(o, r)
             \/ \E p \in Participants :
                   OperatorMute(o, p) \/ OperatorUnmute(o, p) \/ OperatorDrop(o, p)
      PROVE  UNCHANGED request
  BY <1>6 DEF GrantUnmute, GrantError, SpeakRecorded, SilenceRecorded, DropRecorded,
              OperatorCut, GrantCount, Dismiss, OperatorMute, OperatorUnmute, OperatorDrop
<1>7. ASSUME NEW p \in Participants,
             \/ Dial(p) \/ DialRecorded(p) \/ DialFailed(p) \/ CallEvent(p)
             \/ \E d \in Presses : PressDigit(d, p)
      PROVE  UNCHANGED request
  BY <1>7 DEF Dial, DialRecorded, DialFailed, CallEvent, PressDigit
<1>8. CASE UNCHANGED vars
  BY <1>8 DEF vars
<1> QED
  BY <1>1, <1>2, <1>3, <1>4, <1>5, <1>6, <1>7, <1>8 DEF Next, PressStep, OpStep

(* The queue implements FloorContract: whatever the digits and the         *)
(* operators do at once, its requests change one at a time, no withdrawn   *)
(* or granted one waits again, and a grant finds a place.                  *)
THEOREM FloorKept == Spec => RequestsKeepContract
<1>1. Init => Floor!Init
  BY DEF Init, Floor!Init
<1>2. QueueInv /\ [Next]_vars => [Floor!Next]_request
  BY FloorStep
<1> QED BY <1>1, <1>2, InvHolds, PTL DEF Spec, RequestsKeepContract, Floor!Spec

(* The contract alone gives both properties of the floor: an open request  *)
(* for each participant at most, and no more speakers than places.         *)
THEOREM FloorSuffices == RequestsKeepContract => [](OneOpenRequest /\ SpeakersBounded)
<1> DEFINE Places == (MaxSpeakers + Cardinality(Moderators)) - 1
           Inv == /\ request \in [Requests -> Open \union {"NONE", "WITHDRAWN"}]
                  /\ OneOpenRequest
                  /\ Cardinality(Speaking) <= Places
<1> USE DEF Open, Floor!Open
<1>p. Places \in Nat
  BY Finite, SpeakerAssumption
<1>s. Floor!Speaking = Speaking
  BY DEF Floor!Speaking, Speaking
<1>1. Floor!Init => Inv
  <2>1. Floor!Init => Speaking = {}
    BY DEF Floor!Init, Speaking
  <2>2. Floor!Init => Cardinality(Speaking) <= Places
    BY <1>p, <2>1, FS_EmptySet
  <2>3. Floor!Init => OneOpenRequest
    BY DEF Floor!Init, OneOpenRequest
  <2> QED BY <2>2, <2>3 DEF Floor!Init
<1>2. Inv /\ [Floor!Next]_request => Inv'
  <2> SUFFICES ASSUME Inv, [Floor!Next]_request PROVE Inv'
    OBVIOUS
  <2>c. Cardinality(Speaking) \in Nat /\ Cardinality(Speaking') \in Nat /\ IsFiniteSet(Speaking)
    BY Finite, FS_Subset, FS_CardinalityType DEF Speaking
  <2>k. Speaking' \subseteq Speaking => Cardinality(Speaking') <= Places
    BY <1>p, <2>c, FS_Subset
  <2> HIDE DEF Places
  <2>1. ASSUME NEW r \in Requests, Floor!Ask(r) PROVE Inv'
    <3>1. Speaking' \subseteq Speaking
      BY <2>1 DEF Floor!Ask, Speaking
    <3>2. OneOpenRequest'
      BY <2>1 DEF Floor!Ask, Floor!Alone, OneOpenRequest
    <3> QED BY <2>1, <2>k, <3>1, <3>2, Finite DEF Floor!Ask, Places
  <2>2. ASSUME NEW r \in Requests, Floor!Grant(r) PROVE Inv'
    <3>1. Speaking' = Speaking \union {r}
      BY <2>2 DEF Floor!Grant, Speaking
    <3>2. Cardinality(Speaking') <= Places'
      BY <1>s, <2>2, <3>1, SameCount DEF Floor!Grant, Places
    <3>3. OneOpenRequest'
      BY <2>2 DEF Floor!Grant, Floor!Alone, OneOpenRequest
    <3> QED BY <2>2, <3>2, <3>3 DEF Floor!Grant
  <2>3. ASSUME NEW r \in Requests, Floor!Withdraw(r) PROVE Inv'
    <3>1. Speaking' \subseteq Speaking
      BY <2>3 DEF Floor!Withdraw, Speaking
    <3>2. OneOpenRequest'
      BY <2>3 DEF Floor!Withdraw, OneOpenRequest
    <3> QED BY <2>3, <2>k, <3>1, <3>2 DEF Floor!Withdraw, Places
  <2>4. CASE UNCHANGED request
    BY <2>4 DEF OneOpenRequest, Speaking, Places
  <2> QED BY <2>1, <2>2, <2>3, <2>4 DEF Floor!Next
<1>3. Inv => OneOpenRequest /\ SpeakersBounded
  BY Finite, SpeakerAssumption DEF SpeakersBounded
<1> QED BY <1>1, <1>2, <1>3, PTL DEF RequestsKeepContract, Floor!Spec

===============================================================================
