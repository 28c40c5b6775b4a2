SPECIFICATION Spec
CONSTANTS
  Participants = {p1}
  Presses = {d1, d2}
  Moderators = {o1, o2}
  MaxSpeakers = 1
  MaxRequests = 3
  MaxCalls = 1
INVARIANTS
  TypeOK
  RecordedAfterAcceptance
  OneOpenRequest
PROPERTIES
  RequestsKeepContract
VIEW View
SYMMETRY Symmetry
CHECK_DEADLOCK FALSE
