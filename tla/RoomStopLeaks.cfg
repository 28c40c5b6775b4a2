SPECIFICATION Spec
CONSTANTS
  Sessions = {s1}
  Listeners = {l1}
  Dialled = {}
  Stoppers = {k1}
  Host = h
  NoSession = none
  SidecarErrors = FALSE
  MaxEvents = 1
  MaxFaults = 0
INVARIANTS
  StopReleasesCalls
SYMMETRY Symmetry
\* Every request may have been served: a room may rest for ever.
CHECK_DEADLOCK FALSE
