SPECIFICATION FairSpec
CONSTANTS
  Sessions = {s1}
  Listeners = {l1}
  Dialled = {}
  Stoppers = {k1}
  Host = h
  NoSession = none
  SidecarErrors = TRUE
  MaxEvents = 2
  MaxFaults = 0
INVARIANTS
  HostAnsweredFirst
  HeldRoomHasOwner
PROPERTIES
  StopCloses
\* Every request may have been served: a room may rest for ever.
CHECK_DEADLOCK FALSE
