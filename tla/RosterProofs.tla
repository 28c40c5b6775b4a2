----------------------------- MODULE RosterProofs -----------------------------
(***************************************************************************)
(* Safety of Roster for any participants, details, limits, import size and *)
(* number of requests served at a time.                                    *)
(***************************************************************************)
EXTENDS Roster, DataLemmas, TLAPS

(* What a request about to write was asked for.                            *)
RequestsSound ==
    \A r \in Requests :
        /\ At(r, "remove") => Host \notin request[r].rows
        /\ At(r, "resize") => request[r].limit \in Limits

(* What keeps the host of a live room: the row a start found is there for  *)
(* as long as that start is held to it.                                    *)
HostKept ==
    /\ held # {} => Host \in roster
    /\ LiveRoomHasHost

Inserting(r) == request[r].at \in {"insert", "dial", "import"}

(* The listeners a request has counted and has yet to insert.              *)
Brings(r) == IF Inserting(r) THEN request[r].rows \ {Host} ELSE {}
Coming == UNION {Brings(r) : r \in Requests}
Expected == (roster \ {Host}) \union Coming

(* The limit holds for the listeners that are there and those to come, but *)
(* for what the other requests in flight had not inserted when one looked. *)
Bound == highest + (Cardinality(Requests) - 1) * MaxImport
RosterFits ==
    /\ limit <= highest
    /\ IsFiniteSet(roster)
    /\ \A r \in Requests : IsFiniteSet(Brings(r)) /\ Cardinality(Brings(r)) <= MaxImport
    /\ Cardinality(Expected) <= Bound

RosterInv ==
    /\ TypeOK
    /\ RequestsSound
    /\ HostKept
    /\ RosterFits

(* Type correctness.                                                       *)
LEMMA TypeStep == TypeOK /\ RequestsSound /\ [Next]_vars => TypeOK'
<1> SUFFICES ASSUME TypeOK, RequestsSound, [Next]_vars PROVE TypeOK'
  OBVIOUS
<1> USE HostAssumption, DetailsAssumption, LimitAssumption
<1> USE DEF database, At, Goes, Answers, Looks, Deletes, Idle
<1> USE DEF TypeOK, Request, Steps, Rows
<1>1. ASSUME NEW d \in Details, SetHost(d) PROVE TypeOK'
  BY <1>1 DEF SetHost
<1>2. ASSUME ClearHost PROVE TypeOK'
  BY <1>2 DEF ClearHost
<1>3. ASSUME Stop PROVE TypeOK'
  BY <1>3 DEF Stop
<1>4. ASSUME NEW r \in Requests, DeleteRoom(r) PROVE TypeOK'
  BY <1>4 DEF DeleteRoom
<1>5. ASSUME NEW p \in Rows, LegChanges(p) PROVE TypeOK'
  BY <1>5 DEF LegChanges
<1>6. ASSUME NEW r \in Requests, AddOpen(r) PROVE TypeOK'
  BY <1>6 DEF AddOpen
<1>7. ASSUME NEW r \in Requests, AddInsert(r) PROVE TypeOK'
  BY <1>7 DEF AddInsert
<1>8. ASSUME NEW r \in Requests, DialInsert(r) PROVE TypeOK'
  BY <1>8 DEF DialInsert
<1>9. ASSUME NEW r \in Requests, Dispatch(r) PROVE TypeOK'
  BY <1>9 DEF Dispatch
<1>10. ASSUME NEW r \in Requests, ImportCommit(r) PROVE TypeOK'
  BY <1>10 DEF ImportCommit
<1>11. ASSUME NEW r \in Requests, StartCheck(r) PROVE TypeOK'
  BY <1>11 DEF StartCheck
<1>12. ASSUME NEW r \in Requests, StartHost(r) PROVE TypeOK'
  <2>1. CASE Host \in roster
    BY <1>12, <2>1 DEF StartHost
  <2>2. CASE Host \notin roster
    BY <1>12, <2>2 DEF StartHost
  <2> QED BY <2>1, <2>2
<1>13. ASSUME NEW r \in Requests, StartCommit(r) PROVE TypeOK'
  BY <1>13 DEF StartCommit
<1>14. ASSUME NEW r \in Requests, RemoveDelete(r) PROVE TypeOK'
  BY <1>14 DEF RemoveDelete
<1>15. ASSUME NEW r \in Requests, SettingsOpen(r) PROVE TypeOK'
  BY <1>15 DEF SettingsOpen
<1>16. ASSUME NEW r \in Requests, SettingsWrite(r) PROVE TypeOK'
  BY <1>16 DEF SettingsWrite, RequestsSound
<1>17. ASSUME NEW r \in Requests, Fails(r) PROVE TypeOK'
  BY <1>17 DEF Fails
<1>18. ASSUME NEW r \in Requests, NEW p \in Fresh, AddCount(r, p) PROVE TypeOK'
  BY <1>18 DEF AddCount, Fresh
<1>19. ASSUME NEW r \in Requests, NEW p \in Fresh, DialCheck(r, p) PROVE TypeOK'
  BY <1>19 DEF DialCheck, Fresh
<1>20. ASSUME NEW r \in Requests, NEW p \in roster, DispatchCheck(r, p) PROVE TypeOK'
  BY <1>20 DEF DispatchCheck
<1>21. ASSUME NEW r \in Requests, NEW p \in roster, RemoveCount(r, p) PROVE TypeOK'
  BY <1>21 DEF RemoveCount
<1>22. ASSUME NEW r \in Requests, NEW rows \in SUBSET (Fresh \union {Host}),
      ImportCheck(r, rows) PROVE TypeOK'
  BY <1>22 DEF ImportCheck, Fresh
<1>23. ASSUME NEW r \in Requests, NEW l \in Limits, SettingsCount(r, l) PROVE TypeOK'
  BY <1>23 DEF SettingsCount
<1>24. ASSUME NEW r \in Requests, DeleteCount(r) PROVE TypeOK'
  BY <1>24 DEF DeleteCount
<1>25. CASE UNCHANGED vars
  BY <1>25 DEF vars
<1> QED
  BY <1>1, <1>2, <1>3, <1>4, <1>5, <1>6, <1>7, <1>8, <1>9, <1>10, <1>11, <1>12, <1>13,
     <1>14, <1>15, <1>16, <1>17, <1>18, <1>19, <1>20, <1>21, <1>22, <1>23, <1>24,
     <1>25 DEF
     Next

(* What requests are about to write.                                       *)
LEMMA RequestsStep == TypeOK /\ RequestsSound /\ [Next]_vars => RequestsSound'
<1> SUFFICES ASSUME TypeOK, RequestsSound, [Next]_vars PROVE RequestsSound'
  OBVIOUS
<1> USE HostAssumption, DetailsAssumption, LimitAssumption
<1> USE DEF database, At, Goes, Answers, Looks, Deletes, Idle
<1> USE DEF TypeOK, Request, Steps, Rows
<1> USE DEF RequestsSound
<1>1. ASSUME NEW d \in Details, SetHost(d) PROVE RequestsSound'
  BY <1>1 DEF SetHost
<1>2. ASSUME ClearHost PROVE RequestsSound'
  BY <1>2 DEF ClearHost
<1>3. ASSUME Stop PROVE RequestsSound'
  BY <1>3 DEF Stop
<1>4. ASSUME NEW r \in Requests, DeleteRoom(r) PROVE RequestsSound'
  BY <1>4 DEF DeleteRoom
<1>5. ASSUME NEW p \in Rows, LegChanges(p) PROVE RequestsSound'
  BY <1>5 DEF LegChanges
<1>6. ASSUME NEW r \in Requests, AddOpen(r) PROVE RequestsSound'
  BY <1>6 DEF AddOpen
<1>7. ASSUME NEW r \in Requests, AddInsert(r) PROVE RequestsSound'
  BY <1>7 DEF AddInsert
<1>8. ASSUME NEW r \in Requests, DialInsert(r) PROVE RequestsSound'
  BY <1>8 DEF DialInsert
<1>9. ASSUME NEW r \in Requests, Dispatch(r) PROVE RequestsSound'
  BY <1>9 DEF Dispatch
<1>10. ASSUME NEW r \in Requests, ImportCommit(r) PROVE RequestsSound'
  BY <1>10 DEF ImportCommit
<1>11. ASSUME NEW r \in Requests, StartCheck(r) PROVE RequestsSound'
  BY <1>11 DEF StartCheck
<1>12. ASSUME NEW r \in Requests, StartHost(r) PROVE RequestsSound'
  <2>1. CASE Host \in roster
    BY <1>12, <2>1 DEF StartHost
  <2>2. CASE Host \notin roster
    BY <1>12, <2>2 DEF StartHost
  <2> QED BY <2>1, <2>2
<1>13. ASSUME NEW r \in Requests, StartCommit(r) PROVE RequestsSound'
  BY <1>13 DEF StartCommit
<1>14. ASSUME NEW r \in Requests, RemoveDelete(r) PROVE RequestsSound'
  BY <1>14 DEF RemoveDelete
<1>15. ASSUME NEW r \in Requests, SettingsOpen(r) PROVE RequestsSound'
  BY <1>15 DEF SettingsOpen
<1>16. ASSUME NEW r \in Requests, SettingsWrite(r) PROVE RequestsSound'
  BY <1>16 DEF SettingsWrite
<1>17. ASSUME NEW r \in Requests, Fails(r) PROVE RequestsSound'
  BY <1>17 DEF Fails
<1>18. ASSUME NEW r \in Requests, NEW p \in Fresh, AddCount(r, p) PROVE RequestsSound'
  BY <1>18 DEF AddCount
<1>19. ASSUME NEW r \in Requests, NEW p \in Fresh, DialCheck(r, p) PROVE RequestsSound'
  BY <1>19 DEF DialCheck
<1>20. ASSUME NEW r \in Requests, NEW p \in roster, DispatchCheck(r, p) PROVE
      RequestsSound'
  BY <1>20 DEF DispatchCheck
<1>21. ASSUME NEW r \in Requests, NEW p \in roster, RemoveCount(r, p) PROVE
      RequestsSound'
  BY <1>21 DEF RemoveCount
<1>22. ASSUME NEW r \in Requests, NEW rows \in SUBSET (Fresh \union {Host}),
      ImportCheck(r, rows) PROVE RequestsSound'
  BY <1>22 DEF ImportCheck
<1>23. ASSUME NEW r \in Requests, NEW l \in Limits, SettingsCount(r, l) PROVE
      RequestsSound'
  BY <1>23 DEF SettingsCount
<1>24. ASSUME NEW r \in Requests, DeleteCount(r) PROVE RequestsSound'
  BY <1>24 DEF DeleteCount
<1>25. CASE UNCHANGED vars
  BY <1>25 DEF vars
<1> QED
  BY <1>1, <1>2, <1>3, <1>4, <1>5, <1>6, <1>7, <1>8, <1>9, <1>10, <1>11, <1>12, <1>13,
     <1>14, <1>15, <1>16, <1>17, <1>18, <1>19, <1>20, <1>21, <1>22, <1>23, <1>24,
     <1>25 DEF
     Next

(* The host of a live room.                                                *)
LEMMA HostStep == TypeOK /\ RequestsSound /\ HostKept /\ [Next]_vars => HostKept'
<1> SUFFICES ASSUME TypeOK, RequestsSound, HostKept, [Next]_vars PROVE HostKept'
  OBVIOUS
<1> USE HostAssumption, DetailsAssumption, LimitAssumption
<1> USE DEF database, At, Goes, Answers, Looks, Deletes, Idle
<1> USE DEF TypeOK, Request, Steps, Rows
<1> USE DEF HostKept, LiveRoomHasHost
<1>1. ASSUME NEW d \in Details, SetHost(d) PROVE HostKept'
  BY <1>1 DEF SetHost
<1>2. ASSUME ClearHost PROVE HostKept'
  BY <1>2 DEF ClearHost
<1>3. ASSUME Stop PROVE HostKept'
  BY <1>3 DEF Stop
<1>4. ASSUME NEW r \in Requests, DeleteRoom(r) PROVE HostKept'
  BY <1>4 DEF DeleteRoom
<1>5. ASSUME NEW p \in Rows, LegChanges(p) PROVE HostKept'
  BY <1>5 DEF LegChanges
<1>6. ASSUME NEW r \in Requests, AddOpen(r) PROVE HostKept'
  BY <1>6 DEF AddOpen
<1>7. ASSUME NEW r \in Requests, AddInsert(r) PROVE HostKept'
  BY <1>7 DEF AddInsert
<1>8. ASSUME NEW r \in Requests, DialInsert(r) PROVE HostKept'
  BY <1>8 DEF DialInsert
<1>9. ASSUME NEW r \in Requests, Dispatch(r) PROVE HostKept'
  BY <1>9 DEF Dispatch
<1>10. ASSUME NEW r \in Requests, ImportCommit(r) PROVE HostKept'
  BY <1>10 DEF ImportCommit
<1>11. ASSUME NEW r \in Requests, StartCheck(r) PROVE HostKept'
  BY <1>11 DEF StartCheck
<1>12. ASSUME NEW r \in Requests, StartHost(r) PROVE HostKept'
  <2>1. CASE Host \in roster
    BY <1>12, <2>1 DEF StartHost
  <2>2. CASE Host \notin roster
    BY <1>12, <2>2 DEF StartHost
  <2> QED BY <2>1, <2>2
<1>13. ASSUME NEW r \in Requests, StartCommit(r) PROVE HostKept'
  BY <1>13 DEF StartCommit
<1>14. ASSUME NEW r \in Requests, RemoveDelete(r) PROVE HostKept'
  BY <1>14 DEF RemoveDelete, RequestsSound
<1>15. ASSUME NEW r \in Requests, SettingsOpen(r) PROVE HostKept'
  BY <1>15 DEF SettingsOpen
<1>16. ASSUME NEW r \in Requests, SettingsWrite(r) PROVE HostKept'
  BY <1>16 DEF SettingsWrite
<1>17. ASSUME NEW r \in Requests, Fails(r) PROVE HostKept'
  BY <1>17 DEF Fails
<1>18. ASSUME NEW r \in Requests, NEW p \in Fresh, AddCount(r, p) PROVE HostKept'
  BY <1>18 DEF AddCount
<1>19. ASSUME NEW r \in Requests, NEW p \in Fresh, DialCheck(r, p) PROVE HostKept'
  BY <1>19 DEF DialCheck
<1>20. ASSUME NEW r \in Requests, NEW p \in roster, DispatchCheck(r, p) PROVE HostKept'
  BY <1>20 DEF DispatchCheck
<1>21. ASSUME NEW r \in Requests, NEW p \in roster, RemoveCount(r, p) PROVE HostKept'
  BY <1>21 DEF RemoveCount
<1>22. ASSUME NEW r \in Requests, NEW rows \in SUBSET (Fresh \union {Host}),
      ImportCheck(r, rows) PROVE HostKept'
  BY <1>22 DEF ImportCheck
<1>23. ASSUME NEW r \in Requests, NEW l \in Limits, SettingsCount(r, l) PROVE HostKept'
  BY <1>23 DEF SettingsCount
<1>24. ASSUME NEW r \in Requests, DeleteCount(r) PROVE HostKept'
  BY <1>24 DEF DeleteCount
<1>25. CASE UNCHANGED vars
  BY <1>25 DEF vars
<1> QED
  BY <1>1, <1>2, <1>3, <1>4, <1>5, <1>6, <1>7, <1>8, <1>9, <1>10, <1>11, <1>12, <1>13,
     <1>14, <1>15, <1>16, <1>17, <1>18, <1>19, <1>20, <1>21, <1>22, <1>23, <1>24,
     <1>25 DEF
     Next

(* What is counted is finite, and the product of the bound is a number.    *)
LEMMA ExpectedFinite ==
    ASSUME TypeOK, RosterFits
    PROVE  /\ IsFiniteSet(Coming) /\ IsFiniteSet(Expected)
           /\ Cardinality(Requests) \in Nat \ {0}
           /\ (Cardinality(Requests) - 1) * MaxImport \in Nat
           /\ highest \in Nat
<1> DEFINE F == [r \in Requests |-> Brings(r)]
<1>1. UNION {F[r] : r \in Requests} = Coming
  BY DEF Coming
<1>2. \A r \in Requests : IsFiniteSet(F[r]) /\ Cardinality(F[r]) <= MaxImport
  BY DEF RosterFits
<1>3. IsFiniteSet(Coming)
  <2> HIDE DEF F
  <2> QED BY <1>1, <1>2, RequestsAssumption, LimitAssumption, UnionBound
<1>4. IsFiniteSet(Expected)
  BY <1>3, FS_RemoveElement, FS_Union DEF RosterFits, Expected
<1>5. Cardinality(Requests) \in Nat \ {0}
  BY RequestsAssumption, FS_CardinalityType, FS_EmptySet
<1>6. Cardinality(Requests) - 1 \in Nat /\ MaxImport \in Nat
  BY <1>5, LimitAssumption
<1>7. (Cardinality(Requests) - 1) * MaxImport \in Nat
  BY <1>6
<1>8. highest \in Nat
  BY LimitAssumption DEF TypeOK
<1> QED BY <1>3, <1>4, <1>5, <1>7, <1>8

(* A statement that inserts only what was counted, or less, keeps the fit. *)
LEMMA FitsKept ==
    ASSUME TypeOK, TypeOK', RosterFits, limit' <= highest', highest <= highest',
           roster' \subseteq roster \union Coming \union {Host},
           \A r \in Requests : Brings(r)' \subseteq Brings(r)
    PROVE  RosterFits'
<1>1. /\ IsFiniteSet(Coming) /\ IsFiniteSet(Expected) /\ highest \in Nat
      /\ (Cardinality(Requests) - 1) * MaxImport \in Nat
  BY ExpectedFinite
<1>2. IsFiniteSet(roster')
  <2>1. IsFiniteSet((roster \union Coming) \union {Host})
    BY <1>1, FS_Union, FS_AddElement DEF RosterFits
  <2> QED BY <2>1, FS_Subset
<1>3. ASSUME NEW r \in Requests
      PROVE  IsFiniteSet(Brings(r)') /\ Cardinality(Brings(r)') <= MaxImport
  <2>1. IsFiniteSet(Brings(r)) /\ Cardinality(Brings(r)) <= MaxImport
    BY DEF RosterFits
  <2>2. IsFiniteSet(Brings(r)') /\ Cardinality(Brings(r)') <= Cardinality(Brings(r))
    BY <2>1, FS_Subset
  <2> QED
    BY <2>1, <2>2, FS_CardinalityType, LimitAssumption
<1>4. Expected' \subseteq Expected
  BY DEF Expected, Coming
<1>5. IsFiniteSet(Expected') /\ Cardinality(Expected') <= Cardinality(Expected)
  BY <1>1, <1>4, FS_Subset
<1>6. Cardinality(Expected') \in Nat /\ Cardinality(Expected) \in Nat /\ highest' \in Nat
  BY <1>1, <1>5, FS_CardinalityType, LimitAssumption DEF TypeOK
<1>7. Cardinality(Expected') <= Bound'
  BY <1>1, <1>5, <1>6 DEF RosterFits, Bound
<1> QED BY <1>2, <1>3, <1>7 DEF RosterFits

(* A request that looks and finds room may bring its rows: the roster and  *)
(* they are within the limit, and the other requests bring what they may.  *)
LEMMA FitsCounted ==
    ASSUME TypeOK, RosterFits, NEW r \in Requests, NEW rows,
           IsFiniteSet(rows), Cardinality(rows) <= MaxImport,
           HasRoom(Cardinality(rows)),
           UNCHANGED <<roster, limit, highest>>,
           Brings(r)' \subseteq rows,
           \A q \in Requests \ {r} : Brings(q)' = Brings(q)
    PROVE  RosterFits'
<1> DEFINE F == [q \in Requests |-> Brings(q)]
           Others == UNION {F[q] : q \in Requests \ {r}}
           Here == roster \union rows
<1>1. /\ Cardinality(Requests) \in Nat \ {0} /\ highest \in Nat
      /\ (Cardinality(Requests) - 1) * MaxImport \in Nat
  BY ExpectedFinite
<1>2. \A q \in Requests : IsFiniteSet(F[q]) /\ Cardinality(F[q]) <= MaxImport
  BY DEF RosterFits
<1>3. /\ IsFiniteSet(Requests \ {r})
      /\ Cardinality(Requests \ {r}) = Cardinality(Requests) - 1
  BY RequestsAssumption, FS_RemoveElement
<1>4. IsFiniteSet(Others) /\ Cardinality(Others) <= (Cardinality(Requests) - 1) * MaxImport
  <2>1. \A q \in Requests \ {r} : IsFiniteSet(F[q]) /\ Cardinality(F[q]) <= MaxImport
    BY <1>2
  <2> HIDE DEF F
  <2>2. /\ IsFiniteSet(Others)
        /\ Cardinality(Others) <= Cardinality(Requests \ {r}) * MaxImport
    BY <1>3, <2>1, LimitAssumption, UnionBound
  <2> QED BY <1>3, <2>2
<1>5. Expected' \subseteq Here \union Others
  BY DEF Expected, Coming
<1>6. \A q \in Requests : IsFiniteSet(Brings(q)') /\ Cardinality(Brings(q)') <= MaxImport
  <2>1. IsFiniteSet(Brings(r)') /\ Cardinality(Brings(r)') <= Cardinality(rows)
    BY FS_Subset
  <2>2. Cardinality(Brings(r)') <= MaxImport
    BY <2>1, FS_CardinalityType, LimitAssumption
  <2> QED BY <2>1, <2>2 DEF RosterFits
<1> HIDE DEF Others, Here
<1>7. IsFiniteSet(Here) /\ Cardinality(Here) <= highest
  <2>1. /\ IsFiniteSet(Here)
        /\ Cardinality(Here) = Cardinality(roster) + Cardinality(rows)
                                 - Cardinality(roster \cap rows)
    BY FS_Union DEF RosterFits, Here
  <2>2. /\ Cardinality(roster) \in Nat /\ Cardinality(rows) \in Nat
        /\ Cardinality(roster \cap rows) \in Nat
    BY FS_CardinalityType, FS_Intersection DEF RosterFits
  <2>3. limit \in Nat /\ limit <= highest
    BY LimitAssumption DEF TypeOK, RosterFits
  <2> QED BY <1>1, <2>1, <2>2, <2>3 DEF HasRoom, Count
<1>8. /\ IsFiniteSet(Here \union Others)
      /\ Cardinality(Here \union Others) <= Cardinality(Here) + Cardinality(Others)
  <2>1. /\ IsFiniteSet(Here \union Others)
        /\ Cardinality(Here \union Others)
             = Cardinality(Here) + Cardinality(Others) - Cardinality(Here \cap Others)
    BY <1>4, <1>7, FS_Union
  <2>2. /\ Cardinality(Here) \in Nat /\ Cardinality(Others) \in Nat
        /\ Cardinality(Here \cap Others) \in Nat
    BY <1>4, <1>7, FS_CardinalityType, FS_Intersection
  <2> QED BY <2>1, <2>2
<1>9. IsFiniteSet(Expected') /\ Cardinality(Expected') <= Cardinality(Here \union Others)
  BY <1>5, <1>8, FS_Subset
<1>10. /\ Cardinality(Expected') \in Nat /\ Cardinality(Here \union Others) \in Nat
       /\ Cardinality(Here) \in Nat /\ Cardinality(Others) \in Nat
  BY <1>4, <1>7, <1>8, <1>9, FS_CardinalityType
<1>11. Cardinality(Expected') <= Bound'
  BY <1>1, <1>4, <1>7, <1>8, <1>9, <1>10 DEF Bound
<1> QED BY <1>6, <1>11 DEF RosterFits

(* Every statement but the three checks inserts what was counted, or less. *)
Shrinks ==
    /\ limit' <= highest' /\ highest <= highest'
    /\ roster' \subseteq roster \union Coming \union {Host}
    /\ \A r \in Requests : Brings(r)' \subseteq Brings(r)

LEMMA FitsStep ==
    TypeOK /\ TypeOK' /\ RequestsSound /\ RosterFits /\ [Next]_vars => RosterFits'
<1> SUFFICES ASSUME TypeOK, TypeOK', RequestsSound, RosterFits, [Next]_vars
             PROVE  RosterFits'
  OBVIOUS
<1>0. Shrinks => RosterFits'
  BY FitsKept DEF Shrinks
<1> USE HostAssumption, DetailsAssumption, LimitAssumption
<1> USE DEF database, At, Goes, Answers, Looks, Deletes, Idle
<1> USE DEF TypeOK, Request, Steps, Rows, Inserting, Brings
<1>a. /\ limit \in Nat /\ highest \in Nat /\ limit <= highest
      /\ \A r \in Requests : Inserting(r) => request[r].rows \ {Host} \subseteq Coming
  BY DEF RosterFits, Coming
<1> HIDE LimitAssumption
<1>1. ASSUME NEW d \in Details, SetHost(d) PROVE RosterFits'
  <2>1. Shrinks
    BY <1>1, <1>a DEF SetHost, Shrinks
  <2> QED BY <1>0, <2>1
<1>2. CASE ClearHost
  <2>1. Shrinks
    BY <1>2, <1>a DEF ClearHost, Shrinks
  <2> QED BY <1>0, <2>1
<1>3. CASE Stop
  <2>1. Shrinks
    BY <1>3, <1>a DEF Stop, Shrinks
  <2> QED BY <1>0, <2>1
<1>4. ASSUME NEW r \in Requests, DeleteRoom(r) PROVE RosterFits'
  <2>1. Shrinks
    BY <1>4, <1>a DEF DeleteRoom, Shrinks
  <2> QED BY <1>0, <2>1
<1>5. ASSUME NEW p \in Rows, LegChanges(p) PROVE RosterFits'
  <2>1. Shrinks
    BY <1>5, <1>a DEF LegChanges, Shrinks
  <2> QED BY <1>0, <2>1
<1>6. ASSUME NEW r \in Requests, AddOpen(r) PROVE RosterFits'
  <2>1. Shrinks
    BY <1>6, <1>a DEF AddOpen, Shrinks
  <2> QED BY <1>0, <2>1
<1>7. ASSUME NEW r \in Requests, AddInsert(r) PROVE RosterFits'
  <2>1. Shrinks
    BY <1>7, <1>a DEF AddInsert, Shrinks
  <2> QED BY <1>0, <2>1
<1>8. ASSUME NEW r \in Requests, DialInsert(r) PROVE RosterFits'
  <2>1. Shrinks
    BY <1>8, <1>a DEF DialInsert, Shrinks
  <2> QED BY <1>0, <2>1
<1>9. ASSUME NEW r \in Requests, Dispatch(r) PROVE RosterFits'
  <2>1. Shrinks
    BY <1>9, <1>a DEF Dispatch, Shrinks
  <2> QED BY <1>0, <2>1
<1>10. ASSUME NEW r \in Requests, ImportCommit(r) PROVE RosterFits'
  <2>1. Shrinks
    BY <1>10, <1>a DEF ImportCommit, Shrinks
  <2> QED BY <1>0, <2>1
<1>11. ASSUME NEW r \in Requests, StartCheck(r) PROVE RosterFits'
  <2>1. Shrinks
    BY <1>11, <1>a DEF StartCheck, Shrinks
  <2> QED BY <1>0, <2>1
<1>12. ASSUME NEW r \in Requests, StartHost(r) PROVE RosterFits'
  <2>1. Shrinks
    BY <1>12, <1>a DEF StartHost, Shrinks
  <2> QED BY <1>0, <2>1
<1>13. ASSUME NEW r \in Requests, StartCommit(r) PROVE RosterFits'
  <2>1. Shrinks
    BY <1>13, <1>a DEF StartCommit, Shrinks
  <2> QED BY <1>0, <2>1
<1>14. ASSUME NEW r \in Requests, RemoveDelete(r) PROVE RosterFits'
  <2>1. Shrinks
    BY <1>14, <1>a DEF RemoveDelete, Shrinks
  <2> QED BY <1>0, <2>1
<1>15. ASSUME NEW r \in Requests, SettingsOpen(r) PROVE RosterFits'
  <2>1. Shrinks
    BY <1>15, <1>a DEF SettingsOpen, Shrinks
  <2> QED BY <1>0, <2>1
<1>16. ASSUME NEW r \in Requests, SettingsWrite(r) PROVE RosterFits'
  <2>1. Shrinks
    BY <1>16, <1>a, LimitAssumption DEF SettingsWrite, Shrinks, RequestsSound
  <2> QED BY <1>0, <2>1
<1>17. ASSUME NEW r \in Requests, Fails(r) PROVE RosterFits'
  <2>1. Shrinks
    BY <1>17, <1>a DEF Fails, Shrinks
  <2> QED BY <1>0, <2>1
<1>18. ASSUME NEW r \in Requests, NEW p \in Fresh, AddCount(r, p) PROVE RosterFits'
  <2>0. IsFiniteSet({p}) /\ Cardinality({p}) = 1
    BY FS_Singleton, Zenon
  <2>1. IsFiniteSet({p}) /\ Cardinality({p}) = 1 /\ Cardinality({p}) <= MaxImport
    BY <2>0, LimitAssumption
  <2>2. HasRoom(Cardinality({p})) /\ UNCHANGED <<roster, limit, highest>>
    BY <1>18, <2>1 DEF AddCount
  <2>3. /\ Brings(r)' \subseteq {p}
        /\ \A q \in Requests \ {r} : Brings(q)' = Brings(q)
    BY <1>18 DEF AddCount
  <2> QED BY <2>1, <2>2, <2>3, FitsCounted
<1>19. ASSUME NEW r \in Requests, NEW p \in Fresh, DialCheck(r, p) PROVE RosterFits'
  <2>0. IsFiniteSet({p}) /\ Cardinality({p}) = 1
    BY FS_Singleton, Zenon
  <2>1. IsFiniteSet({p}) /\ Cardinality({p}) = 1 /\ Cardinality({p}) <= MaxImport
    BY <2>0, LimitAssumption
  <2>2. HasRoom(Cardinality({p})) /\ UNCHANGED <<roster, limit, highest>>
    BY <1>19, <2>1 DEF DialCheck
  <2>3. /\ Brings(r)' \subseteq {p}
        /\ \A q \in Requests \ {r} : Brings(q)' = Brings(q)
    BY <1>19 DEF DialCheck
  <2> QED BY <2>1, <2>2, <2>3, FitsCounted
<1>20. ASSUME NEW r \in Requests, NEW p \in roster, DispatchCheck(r, p) PROVE RosterFits'
  <2>1. Shrinks
    BY <1>20, <1>a DEF DispatchCheck, Shrinks
  <2> QED BY <1>0, <2>1
<1>21. ASSUME NEW r \in Requests, NEW p \in roster, RemoveCount(r, p) PROVE RosterFits'
  <2>1. Shrinks
    BY <1>21, <1>a DEF RemoveCount, Shrinks
  <2> QED BY <1>0, <2>1
<1>22. ASSUME NEW r \in Requests, NEW rows \in SUBSET (Fresh \union {Host}),
             ImportCheck(r, rows)
      PROVE  RosterFits'
  <2>1. IsFiniteSet(rows) /\ Cardinality(rows) <= MaxImport
    BY <1>22, LimitAssumption DEF ImportCheck
  <2>2. HasRoom(Cardinality(rows)) /\ UNCHANGED <<roster, limit, highest>>
    BY <1>22 DEF ImportCheck
  <2>3. /\ Brings(r)' \subseteq rows
        /\ \A q \in Requests \ {r} : Brings(q)' = Brings(q)
    BY <1>22 DEF ImportCheck
  <2> QED BY <2>1, <2>2, <2>3, FitsCounted
<1>23. ASSUME NEW r \in Requests, NEW l \in Limits, SettingsCount(r, l) PROVE RosterFits'
  <2>1. Shrinks
    BY <1>23, <1>a DEF SettingsCount, Shrinks
  <2> QED BY <1>0, <2>1
<1>24. ASSUME NEW r \in Requests, DeleteCount(r) PROVE RosterFits'
  <2>1. Shrinks
    BY <1>24, <1>a DEF DeleteCount, Shrinks
  <2> QED BY <1>0, <2>1
<1>25. CASE UNCHANGED vars
  <2>1. Shrinks
    BY <1>25, <1>a DEF vars, Shrinks
  <2> QED BY <1>0, <2>1
<1> QED
  BY <1>1, <1>2, <1>3, <1>4, <1>5, <1>6, <1>7, <1>8, <1>9, <1>10, <1>11, <1>12, <1>13, <1>14, <1>15, <1>16, <1>17, <1>18, <1>19, <1>20, <1>21, <1>22, <1>23, <1>24,
     <1>25 DEF Next

LEMMA FitsInit == Init => RosterFits
<1> SUFFICES ASSUME Init PROVE RosterFits
  OBVIOUS
<1>1. limit = highest /\ limit \in Nat \ {0} /\ roster = {}
  BY LimitAssumption DEF Init
<1>2. \A r \in Requests : Brings(r) = {}
  BY DEF Init, Brings, Inserting, Idle
<1>3. Coming = {} /\ Expected = {}
  BY <1>1, <1>2 DEF Coming, Expected
<1>4. Cardinality(Requests) \in Nat \ {0} /\ MaxImport \in Nat
  BY RequestsAssumption, LimitAssumption, FS_CardinalityType, FS_EmptySet
<1>5. (Cardinality(Requests) - 1) * MaxImport \in Nat
  <2>1. Cardinality(Requests) - 1 \in Nat
    BY <1>4
  <2> QED BY <1>4, <2>1
<1>6. IsFiniteSet({}) /\ Cardinality({}) = 0
  BY FS_EmptySet
<1>7. Cardinality(Expected) <= Bound
  BY <1>1, <1>3, <1>5, <1>6 DEF Bound
<1>8. \A r \in Requests : IsFiniteSet(Brings(r)) /\ Cardinality(Brings(r)) <= MaxImport
  BY <1>2, <1>4, <1>6
<1> QED BY <1>1, <1>6, <1>7, <1>8 DEF RosterFits

LEMMA InvHolds == Spec => []RosterInv
<1>1. Init => RosterInv
  <2> SUFFICES ASSUME Init PROVE RosterInv
    OBVIOUS
  <2>1. TypeOK
    BY LimitAssumption DEF Init, TypeOK, Request, Steps, Idle
  <2>2. RequestsSound /\ HostKept
    BY DEF Init, Idle, RequestsSound, HostKept, LiveRoomHasHost, At
  <2> QED BY <2>1, <2>2, FitsInit DEF RosterInv
<1>2. RosterInv /\ [Next]_vars => RosterInv'
  BY TypeStep, RequestsStep, HostStep, FitsStep DEF RosterInv
<1> QED BY <1>1, <1>2, PTL DEF Spec

(* While the room is live, an import that brings a host finds one there,   *)
(* and every other writer of the host's details wants the room READY.      *)
HostStays == room = "LIVE" /\ room' = "LIVE" => details' = details

LEMMA HostStaysStep == TypeOK /\ HostKept /\ [Next]_vars => HostStays
<1> SUFFICES ASSUME TypeOK, HostKept, [Next]_vars PROVE HostStays
  OBVIOUS
<1> USE HostAssumption, DetailsAssumption, LimitAssumption
<1> USE DEF database, At, Goes, Answers, Looks, Deletes, Idle
<1> USE DEF HostStays, HostKept, LiveRoomHasHost
<1>1. ASSUME NEW d \in Details, SetHost(d) PROVE HostStays
  BY <1>1 DEF SetHost
<1>2. ASSUME ClearHost PROVE HostStays
  BY <1>2 DEF ClearHost
<1>3. ASSUME Stop PROVE HostStays
  BY <1>3 DEF Stop
<1>4. ASSUME NEW r \in Requests, DeleteRoom(r) PROVE HostStays
  BY <1>4 DEF DeleteRoom
<1>5. ASSUME NEW p \in Rows, LegChanges(p) PROVE HostStays
  BY <1>5 DEF LegChanges
<1>6. ASSUME NEW r \in Requests, AddOpen(r) PROVE HostStays
  BY <1>6 DEF AddOpen
<1>7. ASSUME NEW r \in Requests, AddInsert(r) PROVE HostStays
  BY <1>7 DEF AddInsert
<1>8. ASSUME NEW r \in Requests, DialInsert(r) PROVE HostStays
  BY <1>8 DEF DialInsert
<1>9. ASSUME NEW r \in Requests, Dispatch(r) PROVE HostStays
  BY <1>9 DEF Dispatch
<1>10. ASSUME NEW r \in Requests, ImportCommit(r) PROVE HostStays
  BY <1>10 DEF ImportCommit
<1>11. ASSUME NEW r \in Requests, StartCheck(r) PROVE HostStays
  BY <1>11 DEF StartCheck
<1>12. ASSUME NEW r \in Requests, StartHost(r) PROVE HostStays
  BY <1>12 DEF StartHost
<1>13. ASSUME NEW r \in Requests, StartCommit(r) PROVE HostStays
  BY <1>13 DEF StartCommit
<1>14. ASSUME NEW r \in Requests, RemoveDelete(r) PROVE HostStays
  BY <1>14 DEF RemoveDelete
<1>15. ASSUME NEW r \in Requests, SettingsOpen(r) PROVE HostStays
  BY <1>15 DEF SettingsOpen
<1>16. ASSUME NEW r \in Requests, SettingsWrite(r) PROVE HostStays
  BY <1>16 DEF SettingsWrite
<1>17. ASSUME NEW r \in Requests, Fails(r) PROVE HostStays
  BY <1>17 DEF Fails
<1>18. ASSUME NEW r \in Requests, NEW p \in Fresh, AddCount(r, p) PROVE HostStays
  BY <1>18 DEF AddCount
<1>19. ASSUME NEW r \in Requests, NEW p \in Fresh, DialCheck(r, p) PROVE HostStays
  BY <1>19 DEF DialCheck
<1>20. ASSUME NEW r \in Requests, NEW p \in roster, DispatchCheck(r, p) PROVE HostStays
  BY <1>20 DEF DispatchCheck
<1>21. ASSUME NEW r \in Requests, NEW p \in roster, RemoveCount(r, p) PROVE HostStays
  BY <1>21 DEF RemoveCount
<1>22. ASSUME NEW r \in Requests, NEW rows \in SUBSET (Fresh \union {Host}),
      ImportCheck(r, rows) PROVE HostStays
  BY <1>22 DEF ImportCheck
<1>23. ASSUME NEW r \in Requests, NEW l \in Limits, SettingsCount(r, l) PROVE HostStays
  BY <1>23 DEF SettingsCount
<1>24. ASSUME NEW r \in Requests, DeleteCount(r) PROVE HostStays
  BY <1>24 DEF DeleteCount
<1>25. CASE UNCHANGED vars
  BY <1>25 DEF vars
<1> QED
  BY <1>1, <1>2, <1>3, <1>4, <1>5, <1>6, <1>7, <1>8, <1>9, <1>10, <1>11, <1>12, <1>13,
     <1>14, <1>15, <1>16, <1>17, <1>18, <1>19, <1>20, <1>21, <1>22, <1>23, <1>24,
     <1>25 DEF
     Next

(* Every variable keeps its type.                                          *)
THEOREM RosterTypeCorrect == Spec => []TypeOK
<1>1. RosterInv => TypeOK
  BY DEF RosterInv
<1> QED BY <1>1, InvHolds, PTL

(* startRoom: a live room has a host to call.                              *)
THEOREM LiveRoomsHaveHosts == Spec => []LiveRoomHasHost
<1>1. RosterInv => LiveRoomHasHost
  BY DEF RosterInv, HostKept
<1> QED BY <1>1, InvHolds, PTL

(* host and batch: while a room is live its host is not changed.           *)
THEOREM LiveHostsFixed == Spec => HostFixed
<1>1. RosterInv /\ [Next]_vars => HostStays
  BY HostStaysStep DEF RosterInv
<1>2. RosterInv /\ [Next]_vars => [room = "LIVE" /\ room' = "LIVE" => details' = details]_vars
  BY <1>1 DEF HostStays
<1> QED BY <1>2, InvHolds, PTL DEF Spec, HostFixed

(* addRosterParticipant, dispatchDial, batch: with a limit that nothing    *)
(* holds between check and INSERT, the listeners exceed the highest limit  *)
(* there ever was by no more than all other requests in flight can bring.  *)
THEOREM RosterStaysNearLimit == Spec => []RosterBounded
<1>1. RosterInv => RosterBounded
  <2> SUFFICES ASSUME RosterInv PROVE RosterBounded
    OBVIOUS
  <2>1. /\ IsFiniteSet(Expected) /\ highest \in Nat
        /\ (Cardinality(Requests) - 1) * MaxImport \in Nat
    BY ExpectedFinite DEF RosterInv
  <2>2. roster \ {Host} \subseteq Expected
    BY DEF Expected
  <2>3. /\ IsFiniteSet(roster \ {Host})
        /\ Cardinality(roster \ {Host}) <= Cardinality(Expected)
    BY <2>1, <2>2, FS_Subset
  <2>4. Cardinality(roster \ {Host}) \in Nat /\ Cardinality(Expected) \in Nat
    BY <2>1, <2>3, FS_CardinalityType
  <2> QED BY <2>1, <2>3, <2>4 DEF RosterInv, RosterFits, Bound, RosterBounded
<1> QED BY <1>1, InvHolds, PTL

=============================================================================
