--------------------------- MODULE MCRoomLifecycle ---------------------------
EXTENDS RoomLifecycle, TLC
Symmetry == Permutations(Sessions)
=============================================================================
