SPECIFICATION FairSpec
CONSTANTS
  Sessions = {s1, s2}
  Listeners = {}
  Dialled = {}
  Stoppers = {}
  Host = h
  NoSession = none
  SidecarErrors = TRUE
  MaxEvents = 1
  MaxFaults = 0
INVARIANTS
  OneActiveSession
  HeldRoomHasOwner
PROPERTIES
  SessionsKeepContract
  StartResolves
  RoomLeavesStarting
\* Every request may have been served: a room may rest for ever.
CHECK_DEADLOCK FALSE
