------------------------------ MODULE MCRoster ------------------------------
EXTENDS Roster, TLC

\* Listeners, requests and details are told apart by nothing but their names.
Symmetry == Permutations(Participants) \union Permutations(Requests)
              \union Permutations(Details)
=============================================================================
