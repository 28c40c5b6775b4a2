---------------------------- MODULE MCSipDialogs -----------------------------
EXTENDS SipDialogs, TLC

Symmetry == Permutations(Requests) \union Permutations(Nodes) \union Permutations(Edges)

(* What an idle handler last served is never read again, and a binding that *)
(* is too old is treated as none.                                           *)
Kept(d, b) == IF b.made <= expired[d] /\ b.to \in Nodes THEN NoBinding ELSE b

View == <<[e \in Edges |-> [d \in Dialogs |-> Kept(d, cache[e][d])]],
          [d \in Dialogs |-> <<Kept(d, base[d]), Kept(d, tagged[d])>>],
          expired, pc, invites, faults, party, history,
          [r \in Requests |-> IF pc[r] = "idle" THEN <<>> ELSE req[r]]>>
==============================================================================
