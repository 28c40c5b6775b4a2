---------------------------- MODULE MCNodeLeases -----------------------------
(* Nothing to define: the configurations give the constants their values.   *)
EXTENDS NodeLeases, TLC
==============================================================================
