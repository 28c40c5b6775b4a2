------------------------------ MODULE MCSidecar ------------------------------
EXTENDS Sidecar, TLC

CONSTANTS c1, p

MCPartyOf == [c \in {c1} |-> p]
MCCommands ==
    {[id |-> 1, kind |-> "originate", call |-> c1],
     [id |-> 2, kind |-> "drop", call |-> c1],
     [id |-> 3, kind |-> "unmute", call |-> c1]}

(* What an idle handler last served, and what an idle poller last wrote,   *)
(* is never read again.                                                    *)
View == <<store, restarts, pc, poll, listed, media, history,
          [h \in Handlers |-> IF pc[h] \in {"idle", "count"} THEN <<>> ELSE cmd[h]],
          IF poll = "write" THEN answer ELSE <<>>>>
==============================================================================
