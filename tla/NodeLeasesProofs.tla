--------------------------- MODULE NodeLeasesProofs ---------------------------
(***************************************************************************)
(* Safety of NodeLeases for any nodes, legs and bounds.                    *)
(***************************************************************************)
EXTENDS NodeLeases, DataLemmas, TLAPS

(* No heartbeat, lease, leg or view is ahead of its node; an epoch that    *)
(* differs from another one that is known is not the only one.             *)
EpochsBehind ==
    /\ \A r \in wire : r.epoch <= epoch[r.node]
    /\ \A n \in Nodes : lease[n] # NoLease => lease[n].epoch <= epoch[n]
    /\ \A n \in Nodes : seen[n] <= epoch[n]
    /\ \A l \in Legs : leg[l].epoch <= epoch[leg[l].node]

(* A leg a view ended keeps its node: it is not dispatched again.          *)
EndedWereDispatched == \A l \in staleEnded : leg[l].state # "NONE"

(* The key of a node holds reports of this node.                           *)
KeyedByNode == \A n \in Nodes : lease[n] # NoLease => lease[n].node = n

LeasesInv ==
    /\ TypeOK
    /\ EpochsBehind
    /\ EndedWereDispatched
    /\ KeyedByNode
    /\ OnlyRestartedLoseLegs

LEMMA NextEpochLater ==
    ASSUME TypeOK, NEW n \in Nodes
    PROVE  NextEpoch(n) \in 1..MaxEpoch /\ NextEpoch(n) >= epoch[n]
  BY LeasesAssumption DEF TypeOK, NextEpoch

(* Type correctness.                                                       *)
LEMMA TypeStep == TypeOK /\ [Next]_vars => TypeOK'
<1> SUFFICES ASSUME TypeOK, [Next]_vars PROVE TypeOK'
  OBVIOUS
<1> USE LeasesAssumption
<1> USE DEF TypeOK, calls, viewing
<1>1. ASSUME NEW n \in Nodes, Heartbeat(n) PROVE TypeOK'
  <2>1. epoch' \in [Nodes -> 1..MaxEpoch]
    BY <1>1, NextEpochLater DEF Heartbeat
  <2>2. PICK load \in (IF n \in Standalone THEN {0} ELSE 0..MaxLoad) :
           wire' = wire \union {[node |-> n, epoch |-> epoch'[n], load |-> load]}
    BY <1>1 DEF Heartbeat
  <2>3. load \in 0..MaxLoad
    BY <2>2
  <2>4. [node |-> n, epoch |-> epoch'[n], load |-> load] \in Reports
    BY <2>1, <2>3 DEF Reports
  <2> QED BY <1>1, <2>1, <2>2, <2>4 DEF Heartbeat
<1>2. ASSUME NEW n \in Nodes, Expire(n) PROVE TypeOK'
  BY <1>2 DEF Expire, Reports
<1>3. ASSUME NEW n \in Nodes, Stop(n) PROVE TypeOK'
  BY <1>3 DEF Stop, Reports
<1>4. ASSUME NEW n \in Nodes, Start(n) PROVE TypeOK'
  BY <1>4 DEF Start, NextEpoch
<1>5. ASSUME NEW r \in wire, Deliver(r) PROVE TypeOK'
  <2>1. r.node \in Nodes
    BY DEF Reports
  <2> QED BY <1>5, <2>1 DEF Deliver
<1>6. ASSUME NEW r \in wire, Lose(r) PROVE TypeOK'
  BY <1>6 DEF Lose, Reports
<1>7. ASSUME NEW l \in Legs, Dispatch(l) PROVE TypeOK'
  <2>1. PICK r \in Listed : leg' = [leg EXCEPT ![l] = [state |-> "LIVE", node |-> r.node, epoch |-> r.epoch]]
    BY <1>7 DEF Dispatch
  <2>2. r \in Reports
    BY <2>1 DEF Listed
  <2>3. r.node \in Nodes /\ r.epoch \in 1..MaxEpoch
    BY <2>2 DEF Reports
  <2>4. leg' \in [Legs -> [state : LegStates, node : Nodes, epoch : 1..MaxEpoch]]
    BY <2>1, <2>3 DEF LegStates
  <2> QED BY <1>7, <2>4 DEF Dispatch
<1>8. ASSUME NEW l \in Legs, Originate(l) PROVE TypeOK'
  BY <1>8 DEF Originate
<1>9. ASSUME NEW l \in Legs, OriginateFails(l) PROVE TypeOK'
  BY <1>9 DEF OriginateFails, LegStates
<1>10. ASSUME NEW l \in Legs, HangUp(l) PROVE TypeOK'
  BY <1>10 DEF HangUp, LegStates
<1>11. ASSUME NEW l \in Legs, EndStale(l) PROVE TypeOK'
  BY <1>11 DEF EndStale, LegStates
<1>12. ASSUME ViewNodes PROVE TypeOK'
  <2>1. \A n \in Nodes : lease[n] # NoLease => lease[n].epoch \in 1..MaxEpoch
    BY DEF Reports
  <2>2. [n \in Nodes |-> IF lease[n] = NoLease THEN 0 ELSE lease[n].epoch] \in [Nodes -> 0..MaxEpoch]
    BY <2>1
  <2> QED BY <1>12, <2>2 DEF ViewNodes
<1>13. ASSUME ViewRows PROVE TypeOK'
  BY <1>13 DEF ViewRows
<1>14. ASSUME ViewDone PROVE TypeOK'
  BY <1>14 DEF ViewDone
<1>15. CASE UNCHANGED vars
  BY <1>15 DEF vars
<1> QED
  BY <1>1, <1>2, <1>3, <1>4, <1>5, <1>6, <1>7, <1>8, <1>9, <1>10, <1>11, <1>12, <1>13,
     <1>14, <1>15 DEF Next

(* Epochs only grow.                                                       *)
LEMMA EpochsGrow == TypeOK /\ [Next]_vars => \A m \in Nodes : epoch[m] <= epoch'[m]
<1> SUFFICES ASSUME TypeOK, [Next]_vars PROVE \A m \in Nodes : epoch[m] <= epoch'[m]
  OBVIOUS
<1> USE LeasesAssumption
<1> USE DEF TypeOK, calls, viewing
<1>1. ASSUME NEW n \in Nodes, Heartbeat(n) PROVE \A m \in Nodes : epoch[m] <= epoch'[m]
  BY <1>1, NextEpochLater DEF Heartbeat
<1>2. ASSUME NEW n \in Nodes, Expire(n) PROVE \A m \in Nodes : epoch[m] <= epoch'[m]
  BY <1>2 DEF Expire
<1>3. ASSUME NEW n \in Nodes, Stop(n) PROVE \A m \in Nodes : epoch[m] <= epoch'[m]
  BY <1>3 DEF Stop
<1>4. ASSUME NEW n \in Nodes, Start(n) PROVE \A m \in Nodes : epoch[m] <= epoch'[m]
  BY <1>4, NextEpochLater DEF Start
<1>5. ASSUME NEW r \in wire, Deliver(r) PROVE \A m \in Nodes : epoch[m] <= epoch'[m]
  BY <1>5 DEF Deliver
<1>6. ASSUME NEW r \in wire, Lose(r) PROVE \A m \in Nodes : epoch[m] <= epoch'[m]
  BY <1>6 DEF Lose
<1>7. ASSUME NEW l \in Legs, Dispatch(l) PROVE \A m \in Nodes : epoch[m] <= epoch'[m]
  BY <1>7 DEF Dispatch
<1>8. ASSUME NEW l \in Legs, Originate(l) PROVE \A m \in Nodes : epoch[m] <= epoch'[m]
  BY <1>8 DEF Originate
<1>9. ASSUME NEW l \in Legs, OriginateFails(l) PROVE \A m \in Nodes : epoch[m] <= epoch'[m]
  BY <1>9 DEF OriginateFails
<1>10. ASSUME NEW l \in Legs, HangUp(l) PROVE \A m \in Nodes : epoch[m] <= epoch'[m]
  BY <1>10 DEF HangUp
<1>11. ASSUME NEW l \in Legs, EndStale(l) PROVE \A m \in Nodes : epoch[m] <= epoch'[m]
  BY <1>11 DEF EndStale
<1>12. ASSUME ViewNodes PROVE \A m \in Nodes : epoch[m] <= epoch'[m]
  BY <1>12 DEF ViewNodes
<1>13. ASSUME ViewRows PROVE \A m \in Nodes : epoch[m] <= epoch'[m]
  BY <1>13 DEF ViewRows
<1>14. ASSUME ViewDone PROVE \A m \in Nodes : epoch[m] <= epoch'[m]
  BY <1>14 DEF ViewDone
<1>15. CASE UNCHANGED vars
  BY <1>15 DEF vars
<1> QED
  BY <1>1, <1>2, <1>3, <1>4, <1>5, <1>6, <1>7, <1>8, <1>9, <1>10, <1>11, <1>12, <1>13,
     <1>14, <1>15 DEF Next

(* Nothing is ahead of the epochs.                                         *)
LEMMA BehindStep == TypeOK /\ KeyedByNode /\ EpochsBehind /\ [Next]_vars => EpochsBehind'
<1> SUFFICES ASSUME TypeOK, KeyedByNode, EpochsBehind, [Next]_vars PROVE EpochsBehind'
  OBVIOUS
<1> USE LeasesAssumption
<1> USE DEF TypeOK, calls, viewing
<1> USE DEF EpochsBehind
<1>0. \A m \in Nodes : epoch[m] <= epoch'[m] /\ epoch[m] \in Nat /\ epoch'[m] \in Nat
  BY EpochsGrow, TypeStep
<1>1. ASSUME NEW n \in Nodes, Heartbeat(n) PROVE EpochsBehind'
  <2>1. PICK load \in (IF n \in Standalone THEN {0} ELSE 0..MaxLoad) :
           wire' = wire \union {[node |-> n, epoch |-> epoch'[n], load |-> load]}
    BY <1>1 DEF Heartbeat
  <2>2. \A r \in wire : r.node \in Nodes /\ r.epoch \in Nat
    BY DEF Reports
  <2>3. \A r \in wire' : r.epoch <= epoch'[r.node]
    BY <2>1, <2>2, <1>0
  <2>4. \A k \in Nodes : lease[k] # NoLease => lease[k].epoch \in Nat
    BY DEF Reports
  <2> QED BY <1>1, <2>3, <2>4, <1>0 DEF Heartbeat
<1>2. ASSUME NEW n \in Nodes, Expire(n) PROVE EpochsBehind'
  BY <1>2 DEF Expire
<1>3. ASSUME NEW n \in Nodes, Stop(n) PROVE EpochsBehind'
  BY <1>3 DEF Stop
<1>4. ASSUME NEW n \in Nodes, Start(n) PROVE EpochsBehind'
  <2>1. \A r \in wire : r.node \in Nodes /\ r.epoch \in Nat
    BY DEF Reports
  <2>2. \A k \in Nodes : lease[k] # NoLease => lease[k].epoch \in Nat
    BY DEF Reports
  <2> QED BY <1>4, <2>1, <2>2, <1>0 DEF Start
<1>5. ASSUME NEW r \in wire, Deliver(r) PROVE EpochsBehind'
  <2>1. r.node \in Nodes
    BY DEF Reports
  <2> QED BY <1>5, <2>1 DEF Deliver
<1>6. ASSUME NEW r \in wire, Lose(r) PROVE EpochsBehind'
  BY <1>6 DEF Lose
<1>7. ASSUME NEW l \in Legs, Dispatch(l) PROVE EpochsBehind'
  <2>1. PICK r \in Listed : leg' = [leg EXCEPT ![l] = [state |-> "LIVE", node |-> r.node, epoch |-> r.epoch]]
    BY <1>7 DEF Dispatch
  <2>2. PICK n \in Nodes : r = lease[n] /\ lease[n] # NoLease
    BY DEF Listed
  <2>3. r.node = n /\ r.epoch <= epoch[n]
    BY <2>2 DEF KeyedByNode
  <2>4. leg'[l].node = n /\ leg'[l].epoch <= epoch[n]
    BY <2>1, <2>3
  <2>5. \A k \in Legs : k # l => leg'[k] = leg[k]
    BY <2>1
  <2>6. \A k \in Legs : leg'[k].epoch <= epoch'[leg'[k].node]
    BY <1>7, <2>4, <2>5 DEF Dispatch
  <2> QED BY <1>7, <2>6 DEF Dispatch
<1>8. ASSUME NEW l \in Legs, Originate(l) PROVE EpochsBehind'
  BY <1>8 DEF Originate
<1>9. ASSUME NEW l \in Legs, OriginateFails(l) PROVE EpochsBehind'
  BY <1>9 DEF OriginateFails
<1>10. ASSUME NEW l \in Legs, HangUp(l) PROVE EpochsBehind'
  BY <1>10 DEF HangUp
<1>11. ASSUME NEW l \in Legs, EndStale(l) PROVE EpochsBehind'
  BY <1>11 DEF EndStale
<1>12. ASSUME ViewNodes PROVE EpochsBehind'
  <2>1. \A n \in Nodes : 0 <= epoch[n]
    OBVIOUS
  <2>2. \A n \in Nodes : seen'[n] <= epoch'[n]
    BY <1>12, <2>1 DEF ViewNodes
  <2> QED BY <1>12, <2>2 DEF ViewNodes
<1>13. ASSUME ViewRows PROVE EpochsBehind'
  BY <1>13 DEF ViewRows
<1>14. ASSUME ViewDone PROVE EpochsBehind'
  <2>1. \A n \in Nodes : seen'[n] <= epoch'[n]
    BY <1>14 DEF ViewDone
  <2> QED BY <1>14, <2>1 DEF ViewDone
<1>15. CASE UNCHANGED vars
  BY <1>15 DEF vars
<1> QED
  BY <1>1, <1>2, <1>3, <1>4, <1>5, <1>6, <1>7, <1>8, <1>9, <1>10, <1>11, <1>12, <1>13,
     <1>14, <1>15 DEF Next

(* A key holds reports of its node, and what a view ended was dispatched.  *)
LEMMA KeyedStep == TypeOK /\ KeyedByNode /\ [Next]_vars => KeyedByNode'
<1> SUFFICES ASSUME TypeOK, KeyedByNode, [Next]_vars PROVE KeyedByNode'
  OBVIOUS
<1> USE LeasesAssumption
<1> USE DEF TypeOK, calls, viewing
<1> USE DEF KeyedByNode
<1>1. ASSUME NEW n \in Nodes, Heartbeat(n) PROVE KeyedByNode'
  BY <1>1 DEF Heartbeat
<1>2. ASSUME NEW n \in Nodes, Expire(n) PROVE KeyedByNode'
  BY <1>2 DEF Expire
<1>3. ASSUME NEW n \in Nodes, Stop(n) PROVE KeyedByNode'
  BY <1>3 DEF Stop
<1>4. ASSUME NEW n \in Nodes, Start(n) PROVE KeyedByNode'
  BY <1>4 DEF Start
<1>5. ASSUME NEW r \in wire, Deliver(r) PROVE KeyedByNode'
  <2>1. r.node \in Nodes
    BY DEF Reports
  <2> QED BY <1>5, <2>1 DEF Deliver
<1>6. ASSUME NEW r \in wire, Lose(r) PROVE KeyedByNode'
  BY <1>6 DEF Lose
<1>7. ASSUME NEW l \in Legs, Dispatch(l) PROVE KeyedByNode'
  BY <1>7 DEF Dispatch
<1>8. ASSUME NEW l \in Legs, Originate(l) PROVE KeyedByNode'
  BY <1>8 DEF Originate
<1>9. ASSUME NEW l \in Legs, OriginateFails(l) PROVE KeyedByNode'
  BY <1>9 DEF OriginateFails
<1>10. ASSUME NEW l \in Legs, HangUp(l) PROVE KeyedByNode'
  BY <1>10 DEF HangUp
<1>11. ASSUME NEW l \in Legs, EndStale(l) PROVE KeyedByNode'
  BY <1>11 DEF EndStale
<1>12. ASSUME ViewNodes PROVE KeyedByNode'
  BY <1>12 DEF ViewNodes
<1>13. ASSUME ViewRows PROVE KeyedByNode'
  BY <1>13 DEF ViewRows
<1>14. ASSUME ViewDone PROVE KeyedByNode'
  BY <1>14 DEF ViewDone
<1>15. CASE UNCHANGED vars
  BY <1>15 DEF vars
<1> QED
  BY <1>1, <1>2, <1>3, <1>4, <1>5, <1>6, <1>7, <1>8, <1>9, <1>10, <1>11, <1>12, <1>13,
     <1>14, <1>15 DEF Next

LEMMA DispatchedStep == TypeOK /\ EndedWereDispatched /\ [Next]_vars => EndedWereDispatched'
<1> SUFFICES ASSUME TypeOK, EndedWereDispatched, [Next]_vars PROVE EndedWereDispatched'
  OBVIOUS
<1> USE LeasesAssumption
<1> USE DEF TypeOK, calls, viewing
<1> USE DEF EndedWereDispatched
<1>1. ASSUME NEW n \in Nodes, Heartbeat(n) PROVE EndedWereDispatched'
  BY <1>1 DEF Heartbeat
<1>2. ASSUME NEW n \in Nodes, Expire(n) PROVE EndedWereDispatched'
  BY <1>2 DEF Expire
<1>3. ASSUME NEW n \in Nodes, Stop(n) PROVE EndedWereDispatched'
  BY <1>3 DEF Stop
<1>4. ASSUME NEW n \in Nodes, Start(n) PROVE EndedWereDispatched'
  BY <1>4 DEF Start
<1>5. ASSUME NEW r \in wire, Deliver(r) PROVE EndedWereDispatched'
  BY <1>5 DEF Deliver
<1>6. ASSUME NEW r \in wire, Lose(r) PROVE EndedWereDispatched'
  BY <1>6 DEF Lose
<1>7. ASSUME NEW l \in Legs, Dispatch(l) PROVE EndedWereDispatched'
  BY <1>7 DEF Dispatch
<1>8. ASSUME NEW l \in Legs, Originate(l) PROVE EndedWereDispatched'
  BY <1>8 DEF Originate
<1>9. ASSUME NEW l \in Legs, OriginateFails(l) PROVE EndedWereDispatched'
  BY <1>9 DEF OriginateFails
<1>10. ASSUME NEW l \in Legs, HangUp(l) PROVE EndedWereDispatched'
  BY <1>10 DEF HangUp
<1>11. ASSUME NEW l \in Legs, EndStale(l) PROVE EndedWereDispatched'
  BY <1>11 DEF EndStale
<1>12. ASSUME ViewNodes PROVE EndedWereDispatched'
  BY <1>12 DEF ViewNodes
<1>13. ASSUME ViewRows PROVE EndedWereDispatched'
  BY <1>13 DEF ViewRows
<1>14. ASSUME ViewDone PROVE EndedWereDispatched'
  BY <1>14 DEF ViewDone
<1>15. CASE UNCHANGED vars
  BY <1>15 DEF vars
<1> QED
  BY <1>1, <1>2, <1>3, <1>4, <1>5, <1>6, <1>7, <1>8, <1>9, <1>10, <1>11, <1>12, <1>13,
     <1>14, <1>15 DEF Next

(* Whoever loses a leg has had two epochs.                                 *)
LEMMA RestartedStep == TypeOK /\ EpochsBehind /\ EndedWereDispatched /\ OnlyRestartedLoseLegs /\ [Next]_vars => OnlyRestartedLoseLegs'
<1> SUFFICES ASSUME TypeOK, EpochsBehind, EndedWereDispatched, OnlyRestartedLoseLegs, [Next]_vars PROVE OnlyRestartedLoseLegs'
  OBVIOUS
<1> USE LeasesAssumption
<1> USE DEF TypeOK, calls, viewing
<1> USE DEF OnlyRestartedLoseLegs, EndedWereDispatched
<1>0. \A m \in Nodes : epoch[m] <= epoch'[m] /\ epoch[m] \in Nat /\ epoch'[m] \in Nat
  BY EpochsGrow, TypeStep
<1>1. ASSUME NEW n \in Nodes, Heartbeat(n) PROVE OnlyRestartedLoseLegs'
  BY <1>1, <1>0 DEF Heartbeat
<1>2. ASSUME NEW n \in Nodes, Expire(n) PROVE OnlyRestartedLoseLegs'
  BY <1>2 DEF Expire
<1>3. ASSUME NEW n \in Nodes, Stop(n) PROVE OnlyRestartedLoseLegs'
  BY <1>3 DEF Stop
<1>4. ASSUME NEW n \in Nodes, Start(n) PROVE OnlyRestartedLoseLegs'
  BY <1>4, <1>0 DEF Start
<1>5. ASSUME NEW r \in wire, Deliver(r) PROVE OnlyRestartedLoseLegs'
  BY <1>5 DEF Deliver
<1>6. ASSUME NEW r \in wire, Lose(r) PROVE OnlyRestartedLoseLegs'
  BY <1>6 DEF Lose
<1>7. ASSUME NEW l \in Legs, Dispatch(l) PROVE OnlyRestartedLoseLegs'
  BY <1>7 DEF Dispatch
<1>8. ASSUME NEW l \in Legs, Originate(l) PROVE OnlyRestartedLoseLegs'
  BY <1>8 DEF Originate
<1>9. ASSUME NEW l \in Legs, OriginateFails(l) PROVE OnlyRestartedLoseLegs'
  BY <1>9 DEF OriginateFails
<1>10. ASSUME NEW l \in Legs, HangUp(l) PROVE OnlyRestartedLoseLegs'
  BY <1>10 DEF HangUp
<1>11. ASSUME NEW l \in Legs, EndStale(l) PROVE OnlyRestartedLoseLegs'
  <2> DEFINE n == leg[l].node
  <2>1. n \in Nodes /\ seen[n] \in 0..MaxEpoch /\ leg[l].epoch \in 1..MaxEpoch /\ epoch[n] \in 1..MaxEpoch
    OBVIOUS
  <2>2. seen[n] # 0 /\ seen[n] # leg[l].epoch
    BY <1>11 DEF EndStale, Outdated
  <2>3. seen[n] <= epoch[n] /\ leg[l].epoch <= epoch[n]
    BY <2>1 DEF EpochsBehind
  <2>4. epoch[n] > 1
    BY <2>1, <2>2, <2>3
  <2>5. \A k \in Legs : leg'[k].node = leg[k].node
    BY <1>11 DEF EndStale
  <2>6. epoch' = epoch /\ staleEnded' \subseteq staleEnded \union {l}
    BY <1>11 DEF EndStale
  <2> QED BY <2>4, <2>5, <2>6
<1>12. ASSUME ViewNodes PROVE OnlyRestartedLoseLegs'
  BY <1>12 DEF ViewNodes
<1>13. ASSUME ViewRows PROVE OnlyRestartedLoseLegs'
  BY <1>13 DEF ViewRows
<1>14. ASSUME ViewDone PROVE OnlyRestartedLoseLegs'
  BY <1>14 DEF ViewDone
<1>15. CASE UNCHANGED vars
  BY <1>15 DEF vars
<1> QED
  BY <1>1, <1>2, <1>3, <1>4, <1>5, <1>6, <1>7, <1>8, <1>9, <1>10, <1>11, <1>12, <1>13,
     <1>14, <1>15 DEF Next

LEMMA InvHolds == Spec => []LeasesInv
<1>1. Init => LeasesInv
  BY LeasesAssumption DEF Init, LeasesInv, TypeOK, LegStates, EpochsBehind,
     EndedWereDispatched, KeyedByNode, OnlyRestartedLoseLegs
<1>2. LeasesInv /\ [Next]_vars => LeasesInv'
  BY TypeStep, BehindStep, KeyedStep, DispatchedStep, RestartedStep DEF LeasesInv
<1> QED BY <1>1, <1>2, PTL DEF Spec

(* Every variable keeps its type.                                          *)
THEOREM LeasesTypeCorrect == Spec => []TypeOK
<1>1. LeasesInv => TypeOK
  BY DEF LeasesInv
<1> QED BY <1>1, InvHolds, PTL

(* Looking at a room ends no leg of a node that kept its epoch.            *)
THEOREM SteadyNodesKeepLegs == Spec => []OnlyRestartedLoseLegs
<1>1. LeasesInv => OnlyRestartedLoseLegs
  BY DEF LeasesInv
<1> QED BY <1>1, InvHolds, PTL

-----------------------------------------------------------------------------
(* The choice of a node.  The loop of chooseNode is well defined: each     *)
(* value of best follows from the one before.                              *)
LEMMA ScanSteps ==
    ASSUME NEW order, Len(order) \in Nat,
           \A i \in 1..Len(order) : order[i] \in Reports
    PROVE  /\ Scan(order)[0] = NoLease
           /\ \A i \in 1..Len(order) : Scan(order)[i] = Better(Scan(order)[i - 1], order[i])
<1> DEFINE n == Len(order)
           S == Reports \union {NoLease}
           step == [x \in S \X (1..n) |-> Better(x[1], order[x[2]])]
           Next1(f) == [i \in 0..n |-> IF i = 0 THEN NoLease ELSE Better(f[i - 1], order[i])]
<1>1. step \in [S \X (1..n) -> S]
  BY DEF Better
<1>2. PICK f : Iterates(f, n, S, NoLease, step)
  <2> HIDE DEF step, n
  <2>1. n \in Nat /\ NoLease \in S
    BY DEF n
  <2> HIDE DEF S
  <2> QED BY <1>1, <2>1, IntervalRecursion
<1>3. \A i \in 1..n : f[i] = Better(f[i - 1], order[i])
  <2> SUFFICES ASSUME NEW i \in 1..n PROVE f[i] = Better(f[i - 1], order[i])
    OBVIOUS
  <2>1. i - 1 \in 0..n /\ f[i - 1] \in S /\ <<f[i - 1], i>> \in S \X (1..n)
    BY <1>2 DEF Iterates
  <2> QED BY <1>2, <2>1 DEF Iterates
<1>4. f = Next1(f)
  BY <1>2, <1>3 DEF Iterates
<1>5. Scan(order) = CHOOSE g : g = Next1(g)
  BY DEF Scan
<1>6. Scan(order) = Next1(Scan(order))
  <2> HIDE DEF Next1
  <2> QED BY <1>4, <1>5
<1> HIDE DEF step
<1>7. \A i \in 0..n : Scan(order)[i]
          = IF i = 0 THEN NoLease ELSE Better(Scan(order)[i - 1], order[i])
  BY <1>6, Zenon
<1> QED
  BY <1>7

(* The invariant of the loop: best is the first of the least loaded among  *)
(* the fit reports read so far, or there is none.                          *)
Fit(order, k) == {i \in 1..k : ~Refused(order[i])}
IsLeast(order, k, i) ==
    /\ i \in Fit(order, k)
    /\ \A j \in Fit(order, k) : /\ order[i].load <= order[j].load
                                /\ order[i].load = order[j].load => i <= j
BestOf(order, k, best) ==
    \/ Fit(order, k) = {} /\ best = NoLease
    \/ \E i \in 1..k : IsLeast(order, k, i) /\ best = order[i]

LEMMA ScanKeepsLeast ==
    ASSUME NEW order, Len(order) \in Nat,
           \A i \in 1..Len(order) : order[i] \in Reports
    PROVE  BestOf(order, Len(order), ChooseNode(order))
<1> DEFINE n == Len(order)
           best == Scan(order)
           P == {k \in 0..n : BestOf(order, k, best[k])}
<1>1. best[0] = NoLease /\ \A i \in 1..n : best[i] = Better(best[i - 1], order[i])
  BY ScanSteps
<1>2. \A i \in 1..n : order[i].load \in 0..MaxLoad /\ order[i] # NoLease
  BY LeasesAssumption DEF Reports
<1> HIDE DEF best, n
<1>3. n \in Nat
  BY DEF n
<1>4. 0 \in P
  BY <1>1, <1>3 DEF BestOf, Fit
<1>5. ASSUME NEW k \in 1..n, k - 1 \in P PROVE k \in P
  <2>1. best[k] = Better(best[k - 1], order[k])
    BY <1>1
  <2>2. BestOf(order, k - 1, best[k - 1])
    BY <1>5
  <2>3. k \in Nat /\ k - 1 \in Nat
    BY <1>3
  <2>4. Fit(order, k) = IF Refused(order[k]) THEN Fit(order, k - 1)
                                             ELSE Fit(order, k - 1) \union {k}
    BY <2>3 DEF Fit
  <2>5. \A i \in Fit(order, k - 1) : i \in 1..(k - 1) /\ i \in 1..n /\ i < k
    BY <1>3, <2>3 DEF Fit
  <2>6. CASE Fit(order, k - 1) = {} /\ best[k - 1] = NoLease
    <3>1. CASE Refused(order[k])
      BY <2>1, <2>4, <2>6, <3>1 DEF Better, BestOf
    <3>2. CASE ~Refused(order[k])
      <4>1. best[k] = order[k]
        BY <2>1, <2>6, <3>2 DEF Better
      <4>2. IsLeast(order, k, k)
        BY <1>2, <2>4, <2>6, <3>2 DEF IsLeast
      <4> QED BY <2>3, <4>1, <4>2 DEF BestOf
    <3> QED BY <3>1, <3>2
  <2>7. CASE \E i \in 1..(k - 1) : IsLeast(order, k - 1, i) /\ best[k - 1] = order[i]
    <3>1. PICK i \in 1..(k - 1) : IsLeast(order, k - 1, i) /\ best[k - 1] = order[i]
      BY <2>7
    <3>2. i \in 1..n /\ i \in 1..k /\ best[k - 1] # NoLease
      BY <1>2, <1>3, <2>3, <3>1
    <3>3. CASE Refused(order[k]) \/ order[k].load >= order[i].load
      <4>1. best[k] = order[i]
        BY <2>1, <3>1, <3>2, <3>3 DEF Better
      <4>2. IsLeast(order, k, i)
        BY <1>2, <2>3, <2>4, <2>5, <3>1, <3>2, <3>3 DEF IsLeast
      <4> QED BY <3>2, <4>1, <4>2 DEF BestOf
    <3>4. CASE ~(Refused(order[k]) \/ order[k].load >= order[i].load)
      <4>1. best[k] = order[k]
        BY <2>1, <3>1, <3>4 DEF Better
      <4>2. \A j \in Fit(order, k - 1) : order[k].load < order[j].load
        BY <1>2, <2>5, <3>1, <3>2, <3>4 DEF IsLeast
      <4>3. IsLeast(order, k, k)
        BY <1>2, <2>4, <2>5, <3>4, <4>2 DEF IsLeast
      <4> QED BY <2>3, <4>1, <4>3 DEF BestOf
    <3> QED BY <3>3, <3>4
  <2>8. BestOf(order, k, best[k])
    BY <2>2, <2>6, <2>7 DEF BestOf
  <2> QED BY <1>3, <2>3, <2>8
<1>6. n \in P
  <2> HIDE DEF P
  <2>1. \A i \in 0..n : i \in P
    BY <1>3, <1>4, <1>5, IntervalInduction
  <2> QED BY <1>3, <2>1
<1> QED BY <1>6 DEF n, best, ChooseNode

(* Any order of the listed leases is a sequence of reports.                *)
LEMMA OrdersAreReports ==
    ASSUME TypeOK, NEW order \in SetToSeqs(Listed)
    PROVE  /\ Len(order) \in Nat /\ DOMAIN order = 1..Len(order)
           /\ \A i \in 1..Len(order) : order[i] \in Reports
<1> DEFINE All == {lease[n] : n \in Nodes}
<1>1. IsFiniteSet(All)
  <2> DEFINE f == [n \in Nodes |-> lease[n]]
  <2>1. f \in Surjection(Nodes, All)
    BY DEF Surjection
  <2> HIDE DEF f, All
  <2> QED BY <2>1, LeasesAssumption, FS_Surjection
<1>2. IsFiniteSet(Listed) /\ Cardinality(Listed) \in Nat
  BY <1>1, FS_Subset, FS_CardinalityType DEF Listed
<1>3. order \in [1..Cardinality(Listed) -> Listed]
  BY DEF SetToSeqs
<1>4. Len(order) = Cardinality(Listed)
  <2>1. DOMAIN order = 1..Cardinality(Listed)
    BY <1>3
  <2>2. order \in Seq(Listed)
    BY <1>2, <1>3
  <2> QED BY <1>2, <2>1, <2>2
<1>5. Listed \subseteq Reports
  BY DEF TypeOK, Listed
<1> QED BY <1>2, <1>3, <1>4, <1>5

(* chooseNode finds the first of the least loaded nodes that can take the  *)
(* call, however many nodes there are and in whatever order they come.     *)
THEOREM LeastLoadedChosen == Spec => []ChoiceIsLeast
<1>1. TypeOK => ChoiceIsLeast
  <2> SUFFICES ASSUME TypeOK, NEW order \in SetToSeqs(Listed)
               PROVE  LET fit == {i \in DOMAIN order : order[i].node \notin Unfit /\ order[i].load < MaxLoad}
                          least == {i \in fit : \A j \in fit : order[i].load <= order[j].load}
                      IN ChooseNode(order) = IF fit = {} THEN NoLease
                                             ELSE order[CHOOSE i \in least : \A j \in least : i <= j]
    BY DEF ChoiceIsLeast
  <2> DEFINE n == Len(order)
             fit == {i \in DOMAIN order : order[i].node \notin Unfit /\ order[i].load < MaxLoad}
             least == {i \in fit : \A j \in fit : order[i].load <= order[j].load}
  <2>1. n \in Nat /\ DOMAIN order = 1..n /\ \A i \in 1..n : order[i] \in Reports
    BY OrdersAreReports
  <2>2. \A i \in 1..n : order[i].load \in Nat
    BY <2>1 DEF Reports
  <2>3. fit = Fit(order, n)
    BY <2>1, <2>2, LeasesAssumption DEF Fit, Refused
  <2>4. BestOf(order, n, ChooseNode(order))
    BY <2>1, ScanKeepsLeast
  <2> HIDE DEF n, fit
  <2>5. CASE fit = {}
    <3>1. ChooseNode(order) = NoLease
      BY <2>3, <2>4, <2>5 DEF BestOf, IsLeast
    <3> QED BY <2>5, <3>1 DEF fit
  <2>6. CASE fit # {}
    <3>1. PICK i \in 1..n : IsLeast(order, n, i) /\ ChooseNode(order) = order[i]
      BY <2>3, <2>4, <2>6 DEF BestOf
    <3>2. \A j \in fit : j \in 1..n
      BY <2>3 DEF Fit
    <3>3. i \in least /\ \A j \in least : i <= j
      BY <2>2, <2>3, <3>1, <3>2 DEF IsLeast
    <3>4. \A k \in least : (\A j \in least : k <= j) => k = i
      BY <3>2, <3>3
    <3> HIDE DEF least
    <3>5. i = CHOOSE k \in least : \A j \in least : k <= j
      BY <3>3, <3>4
    <3> QED BY <2>6, <3>1, <3>5 DEF fit, least
  <2> QED BY <2>5, <2>6
<1> QED BY <1>1, LeasesTypeCorrect, PTL

=============================================================================
