----------------------------- MODULE FloorContract -----------------------------
(***************************************************************************)
(* What the speaker queue of a room promises of the floor, whoever presses *)
(* which digit and however the operators' requests interleave: the         *)
(* requests change one at a time, a participant has one open at most, one  *)
(* that was made is never queued again, and the speakers fit the places.   *)
(* A request that was withdrawn may still be granted: the grant that was   *)
(* under way does not look.                                                *)
(***************************************************************************)
EXTENDS Naturals, FiniteSets

CONSTANTS
    Requests,   \* pairs of a participant and a number
    Places      \* the most speakers there may be

VARIABLE status     \* speaker_requests.status, "NONE" before the row exists

Open(r) == status[r] \in {"QUEUED", "ACTIVE"}
Speaking == {r \in Requests : status[r] = "ACTIVE"}

(* No other request of the participant is open.                            *)
Alone(r) == \A q \in Requests \ {r} : q[1] = r[1] => ~Open(q)

Init == status = [r \in Requests |-> "NONE"]

Ask(r) ==
    /\ status[r] = "NONE" /\ Alone(r)
    /\ status' = [status EXCEPT ![r] = "QUEUED"]

Grant(r) ==
    /\ status[r] # "NONE" /\ Alone(r)
    /\ Cardinality(Speaking \union {r}) <= Places
    /\ status' = [status EXCEPT ![r] = "ACTIVE"]

Withdraw(r) ==
    /\ Open(r)
    /\ status' = [status EXCEPT ![r] = "WITHDRAWN"]

Next == \E r \in Requests : Ask(r) \/ Grant(r) \/ Withdraw(r)

Spec == Init /\ [][Next]_status

================================================================================
