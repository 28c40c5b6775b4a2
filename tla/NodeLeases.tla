------------------------------ MODULE NodeLeases ------------------------------
(***************************************************************************)
(* How the nodes are known and what is made of it: heartbeats on their way *)
(* to a SIP edge, the leases the edges keep in Redis, the choice of a node *)
(* for a call (chooseNode, dispatchExistingParticipant) and the room view  *)
(* that ends the legs of another node epoch (bridgeState).                 *)
(*                                                                         *)
(* A heartbeat is a datagram to every edge: it may be lost, arrive late or *)
(* arrive at several edges, which all write the same key.  A request to    *)
(* Redis and a statement of PostgreSQL is one step.  An edge that cannot   *)
(* be reached is a lost heartbeat here, or a view that learns no epochs.   *)
(***************************************************************************)
EXTENDS Integers, FiniteSets, SequencesExt

CONSTANTS
    Nodes,
    Standalone,     \* nodes whose heartbeats come from the standalone utility
    Unfit,          \* root or draining nodes, or nodes without a control URL
    Legs,           \* call legs, one for each participant
    NoLease,        \* the key of a node is not there
    MaxLoad,        \* the load of a node without capacity
    MaxEpoch,       \* bound on the epochs of a node
    MaxWire         \* bound on the different heartbeats under way

Reports == [node : Nodes, epoch : 1..MaxEpoch, load : 0..MaxLoad]

ASSUME LeasesAssumption ==
    /\ IsFiniteSet(Nodes)
    /\ Standalone \subseteq Nodes /\ Unfit \subseteq Nodes
    /\ NoLease \notin Reports
    /\ MaxLoad \in Nat /\ MaxEpoch \in Nat \ {0} /\ MaxWire \in Nat

VARIABLES
    running,    \* nodes whose sidecar runs
    epoch,      \* its epoch: the time it was started
    wire,       \* heartbeats under way
    lease,      \* active-pbx:<node>, or NoLease
    leg,        \* call_legs: state, node_id, node_epoch
    posting,    \* legs whose originate command is under way
    up,         \* legs with a call at the engine
    view,       \* where a room view is
    seen,       \* the epochs it read; 0 where the node is not listed
    rows,       \* the legs it read
    staleEnded  \* history: legs a view ended

calls == <<leg, posting, up>>
viewing == <<view, seen, rows>>
vars == <<running, epoch, wire, lease, leg, posting, up, view, seen, rows, staleEnded>>

LegStates == {"NONE", "LIVE", "ENDED", "FAILED"}

TypeOK ==
    /\ running \subseteq Nodes
    /\ epoch \in [Nodes -> 1..MaxEpoch]
    /\ wire \subseteq Reports
    /\ lease \in [Nodes -> Reports \union {NoLease}]
    /\ leg \in [Legs -> [state : LegStates, node : Nodes, epoch : 1..MaxEpoch]]
    /\ posting \subseteq Legs
    /\ up \subseteq Legs
    /\ view \in {"idle", "rows", "end"}
    /\ seen \in [Nodes -> 0..MaxEpoch]
    /\ rows \subseteq Legs
    /\ staleEnded \subseteq Legs

Init ==
    /\ running \in SUBSET Nodes
    /\ epoch = [n \in Nodes |-> 1]
    /\ wire = {}
    /\ lease = [n \in Nodes |-> NoLease]
    /\ leg \in [Legs -> [state : {"NONE"}, node : Nodes, epoch : {1}]]
    /\ posting = {} /\ up = {}
    /\ view = "idle" /\ seen = [n \in Nodes |-> 0] /\ rows = {}
    /\ staleEnded = {}

-----------------------------------------------------------------------------
(* Nodes and leases.                                                       *)

NextEpoch(n) == IF epoch[n] < MaxEpoch THEN epoch[n] + 1 ELSE epoch[n]

(* The standalone utility knows neither load nor epoch: it sends no calls  *)
(* and the time.                                                           *)
Heartbeat(n) ==
    /\ n \in running
    /\ epoch' = IF n \in Standalone THEN [epoch EXCEPT ![n] = NextEpoch(n)] ELSE epoch
    /\ \E load \in IF n \in Standalone THEN {0} ELSE 0..MaxLoad :
          wire' = wire \union {[node |-> n, epoch |-> epoch'[n], load |-> load]}
    /\ Cardinality(wire') <= MaxWire
    /\ UNCHANGED <<running, lease, calls, viewing, staleEnded>>

(* An edge writes what a heartbeat says over what the key held.  It may    *)
(* have been sent to another edge as well.                                 *)
Deliver(r) ==
    /\ r \in wire
    /\ lease' = [lease EXCEPT ![r.node] = r]
    /\ UNCHANGED <<running, epoch, wire, calls, viewing, staleEnded>>

Lose(r) ==
    /\ r \in wire
    /\ wire' = wire \ {r}
    /\ UNCHANGED <<running, epoch, lease, calls, viewing, staleEnded>>

(* A mutant: the key is set without its time to live.                      *)
Expire_Never(n) == FALSE /\ UNCHANGED vars

(* The key outlived its time to live.                                      *)
Expire(n) ==
    /\ lease[n] # NoLease
    /\ lease' = [lease EXCEPT ![n] = NoLease]
    /\ UNCHANGED <<running, epoch, wire, calls, viewing, staleEnded>>

(* The sidecar ends.  Asked to end, it deletes its key, unless the process *)
(* is over first.  The engine is another process: its calls may go on.     *)
Stop(n) ==
    /\ n \in running
    /\ running' = running \ {n}
    /\ \/ lease' = [lease EXCEPT ![n] = NoLease]
       \/ lease' = lease
    /\ up' \in {up, {l \in up : leg[l].node # n}}
    /\ UNCHANGED <<epoch, wire, leg, posting, viewing, staleEnded>>

Start(n) ==
    /\ n \notin running
    /\ epoch[n] < MaxEpoch
    /\ running' = running \union {n}
    /\ epoch' = [epoch EXCEPT ![n] = NextEpoch(n)]
    /\ UNCHANGED <<wire, lease, calls, viewing, staleEnded>>

-----------------------------------------------------------------------------
(* The choice of a node, and the call.                                     *)

Listed == {lease[n] : n \in Nodes} \ {NoLease}

(* A mutant: a node without capacity is not passed over.                   *)
Refused_Room(r) == r.node \in Unfit

Refused(r) == r.node \in Unfit \/ r.load >= MaxLoad

(* chooseNode: the list is read once, in the order Redis gave it.          *)
Better(best, r) ==
    IF Refused(r) \/ (best # NoLease /\ r.load >= best.load) THEN best ELSE r

Scan(order) ==
    LET best[i \in 0..Len(order)] ==
            IF i = 0 THEN NoLease ELSE Better(best[i - 1], order[i])
    IN  best

ChooseNode(order) == Scan(order)[Len(order)]

(* The leg is inserted with the node and the epoch of the report.          *)
Dispatch(l) ==
    /\ leg[l].state = "NONE"
    /\ \E order \in SetToSeqs(Listed), r \in Listed :
          /\ r = ChooseNode(order)
          /\ leg' = [leg EXCEPT ![l] = [state |-> "LIVE", node |-> r.node, epoch |-> r.epoch]]
    /\ posting' = posting \union {l}
    /\ UNCHANGED <<running, epoch, wire, lease, up, viewing, staleEnded>>

Originate(l) ==
    /\ l \in posting
    /\ leg[l].node \in running
    /\ posting' = posting \ {l}
    /\ up' = up \union {l}
    /\ UNCHANGED <<running, epoch, wire, lease, leg, viewing, staleEnded>>

(* A mutant: the error is made the state.                                  *)
OriginateFails_Error(l) ==
    /\ l \in posting
    /\ posting' = posting \ {l}
    /\ up' = up
    /\ leg' = [leg EXCEPT ![l].state = "ERROR"]
    /\ UNCHANGED <<running, epoch, wire, lease, viewing, staleEnded>>

(* The command fails, perhaps after it took effect.                        *)
OriginateFails(l) ==
    /\ l \in posting
    /\ posting' = posting \ {l}
    /\ up' = up \/ (leg[l].node \in running /\ up' = up \union {l})
    /\ leg' = [leg EXCEPT ![l].state = "FAILED"]
    /\ UNCHANGED <<running, epoch, wire, lease, viewing, staleEnded>>

(* The call ends; the event that says so may be lost.                      *)
HangUp(l) ==
    /\ l \in up
    /\ up' = up \ {l}
    /\ leg' \in {leg, [leg EXCEPT ![l].state = "ENDED"]}
    /\ UNCHANGED <<running, epoch, wire, lease, posting, viewing, staleEnded>>

-----------------------------------------------------------------------------
(* The room view: the nodes, then the legs, then an update for each leg    *)
(* whose node is listed with another epoch.                                *)

ViewNodes ==
    /\ view = "idle"
    /\ view' = "rows"
    /\ seen' \in {[n \in Nodes |-> IF lease[n] = NoLease THEN 0 ELSE lease[n].epoch],
                  [n \in Nodes |-> 0]}
    /\ UNCHANGED <<running, epoch, wire, lease, calls, rows, staleEnded>>

ViewRows ==
    /\ view = "rows"
    /\ view' = "end"
    /\ rows' = {l \in Legs : leg[l].state = "LIVE"}
    /\ UNCHANGED <<running, epoch, wire, lease, calls, seen, staleEnded>>

(* A mutant: a node that is not listed has epoch 0.                        *)
Outdated_Unlisted(l) == seen[leg[l].node] # leg[l].epoch

Outdated(l) == seen[leg[l].node] \notin {0, leg[l].epoch}

EndStale(l) ==
    /\ view = "end"
    /\ l \in rows
    /\ Outdated(l)
    /\ rows' = rows \ {l}
    /\ IF leg[l].state = "LIVE"
       THEN /\ leg' = [leg EXCEPT ![l].state = "ENDED"]
            /\ staleEnded' = staleEnded \union {l}
       ELSE UNCHANGED <<leg, staleEnded>>
    /\ UNCHANGED <<running, epoch, wire, lease, posting, up, view, seen>>

ViewDone ==
    /\ view = "end"
    /\ \A l \in rows : ~Outdated(l)
    /\ view' = "idle"
    /\ rows' = {}
    /\ seen' = [n \in Nodes |-> 0]
    /\ UNCHANGED <<running, epoch, wire, lease, calls, staleEnded>>

-----------------------------------------------------------------------------
Next ==
    \/ \E n \in Nodes : Heartbeat(n) \/ Expire(n) \/ Stop(n) \/ Start(n)
    \/ \E r \in wire : Deliver(r) \/ Lose(r)
    \/ \E l \in Legs : \/ Dispatch(l) \/ Originate(l) \/ OriginateFails(l)
                       \/ HangUp(l) \/ EndStale(l)
    \/ ViewNodes \/ ViewRows \/ ViewDone

Spec == Init /\ [][Next]_vars

(* Redis drops a key in time; a datagram is not under way for ever.        *)
FairSpec ==
    /\ Spec
    /\ \A n \in Nodes : WF_vars(Expire(n))
    /\ \A r \in Reports : WF_vars(Lose(r))

-----------------------------------------------------------------------------
(* chooseNode finds the least loaded node that can take the call, the      *)
(* first listed of equals, in whatever order Redis scans the leases.       *)
ChoiceIsLeast ==
    \A order \in SetToSeqs(Listed) :
        LET fit == {i \in DOMAIN order : order[i].node \notin Unfit /\ order[i].load < MaxLoad}
            best == {i \in fit : \A j \in fit : order[i].load <= order[j].load}
        IN ChooseNode(order) = IF fit = {} THEN NoLease
                               ELSE order[CHOOSE i \in best : \A j \in best : i <= j]

(* However late, lost or repeated its heartbeats are, and whenever its     *)
(* lease runs out: looking at a room ends no leg of a node that has kept   *)
(* the epoch it had.                                                       *)
OnlyRestartedLoseLegs ==
    \A l \in staleEnded : epoch[leg[l].node] > 1

(* "Redis lease expires; no new calls route there": a node whose sidecar   *)
(* is gone for good leaves the list for good, also where a late heartbeat  *)
(* registers it again after it was deregistered.                           *)
DeadNodesLeave ==
    \A n \in Nodes :
        <>[](n \notin running) => <>[](lease[n] = NoLease)

=============================================================================
