SPECIFICATION Spec
CONSTANTS
  Participants = {p1, p2, p3}
  Presses = {d1}
  Moderators = {o1, o2}
  MaxSpeakers = 1
  MaxRequests = 3
  MaxCalls = 1
INVARIANTS
  SpeakersBounded
PROPERTIES
  RequestsKeepContract
VIEW FloorView
SYMMETRY Symmetry
CHECK_DEADLOCK FALSE
