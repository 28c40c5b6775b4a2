--------------------------- MODULE MCSpeakerQueue ---------------------------
EXTENDS SpeakerQueue, TLC

Symmetry == Permutations(Participants) \union Permutations(Presses)
            \union Permutations(Moderators)

(* An idle handler has no locals: what its last request left in caller and *)
(* target is never read again.                                             *)
Callers == [d \in Presses |-> IF press[d] = "idle" THEN <<>> ELSE caller[d]]
Targets == [o \in Moderators |-> IF op[o] = "idle" THEN <<>> ELSE target[o]]
View == <<request, onLeg, desired, media, accepted, press, op, Callers, Targets>>

(* For what concerns the requests alone: no step that changes one looks at *)
(* the participant rows, at the engine or at the call a request was made   *)
(* on; a handler that has only a participant row left to write changes     *)
(* none any more; and a participant without a live call may get one, from  *)
(* Dial or from CallEvent, whether or not there was a call before.         *)
Digits == [d \in Presses |->
             IF press[d] \in {"look", "insert", "withdraw"}
             THEN <<press[d], caller[d][1]>> ELSE <<press[d] = "idle">>]
Orders == [o \in Moderators |->
             IF op[o] \in {"unmute", "activate", "dismiss"}
             THEN <<op[o], target[o]>> ELSE <<op[o] = "idle">>]
FloorView == <<request, up, Digits, Orders>>
=============================================================================
