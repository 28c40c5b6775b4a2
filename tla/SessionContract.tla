---------------------------- MODULE SessionContract ----------------------------
(***************************************************************************)
(* What the sessions of one room promise, whoever starts, stops or loses   *)
(* them: at most one is open, a session is opened once, runs only after it *)
(* was opening, and once closed it never opens again.  A closed session    *)
(* may still be relabelled ENDED or FAILED by a handler that comes late.   *)
(***************************************************************************)
CONSTANT Sessions

VARIABLE status    \* room_sessions.status, "NONE" before the row exists

Open(s)   == status[s] \in {"STARTING", "RUNNING"}
Over(s)   == status[s] \in {"ENDED", "FAILED"}

Init == status = [s \in Sessions |-> "NONE"]

Begin(s) ==
    /\ status[s] = "NONE"
    /\ \A t \in Sessions : ~Open(t)
    /\ status' = [status EXCEPT ![s] = "STARTING"]

Run(s) ==
    /\ status[s] = "STARTING"
    /\ status' = [status EXCEPT ![s] = "RUNNING"]

Close(s) ==
    /\ Open(s) \/ Over(s)
    /\ \E final \in {"ENDED", "FAILED"} :
          status' = [status EXCEPT ![s] = final]

Next == \E s \in Sessions : Begin(s) \/ Run(s) \/ Close(s)

Spec == Init /\ [][Next]_status

=============================================================================
