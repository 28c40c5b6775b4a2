---------------------------- MODULE CommandContract ----------------------------
(***************************************************************************)
(* What one sidecar promises of the commands it is sent, however often and *)
(* at whatever moment each of them is delivered: a delivery enters only    *)
(* while the command has not been served, it is served only once the       *)
(* engine took it, and each delivery that entered is served once or not at *)
(* all.  A process that ends forgets what it served; the engine does not.  *)
(***************************************************************************)
EXTENDS Naturals

CONSTANTS Commands, Deliveries

VARIABLES
    inside,     \* the deliveries of each command past the look at the cache
    taken,      \* the commands the engine took from this process
    served,     \* the commands answered from the cache
    times       \* how often each was recorded

vars == <<inside, taken, served, times>>

Init ==
    /\ inside = [k \in Commands |-> {}]
    /\ taken = {} /\ served = {}
    /\ times = [k \in Commands |-> 0]

Enter(d, k) ==
    /\ k \notin served
    /\ \A j \in Commands : d \notin inside[j]
    /\ inside' = [inside EXCEPT ![k] = @ \union {d}]
    /\ UNCHANGED <<taken, served, times>>

Take(k) ==
    /\ inside[k] # {}
    /\ taken' = taken \union {k}
    /\ UNCHANGED <<inside, served, times>>

Leave(d, k) ==
    /\ d \in inside[k]
    /\ inside' = [inside EXCEPT ![k] = @ \ {d}]

Serve(d, k) ==
    /\ Leave(d, k)
    /\ k \in taken
    /\ served' = served \union {k}
    /\ times' = [times EXCEPT ![k] = @ + 1]
    /\ UNCHANGED taken

Fail(d, k) == Leave(d, k) /\ UNCHANGED <<taken, served, times>>

Forget ==
    /\ inside' = [k \in Commands |-> {}]
    /\ taken' = {} /\ served' = {}
    /\ times' = [k \in Commands |-> 0]

Next ==
    \/ \E d \in Deliveries, k \in Commands : Enter(d, k) \/ Serve(d, k) \/ Fail(d, k)
    \/ \E k \in Commands : Take(k)
    \/ Forget

Spec == Init /\ [][Next]_vars

================================================================================
