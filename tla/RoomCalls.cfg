SPECIFICATION Spec
CONSTANTS
  Sessions = {s1}
  Listeners = {l1}
  Dialled = {l1}
  Stoppers = {k1}
  Host = h
  NoSession = none
  SidecarErrors = FALSE
  MaxEvents = 1
  MaxFaults = 1
INVARIANTS
  TypeOK
  AddedAfterHost
PROPERTIES
  SessionsKeepContract
\* Every request may have been served: a room may rest for ever.
CHECK_DEADLOCK FALSE
