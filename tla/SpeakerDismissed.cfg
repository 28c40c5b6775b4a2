SPECIFICATION Spec
CONSTANTS
  Participants = {p1}
  Presses = {d1}
  Moderators = {o1}
  MaxSpeakers = 1
  MaxRequests = 1
  MaxCalls = 1
PROPERTIES
  SilencedAreMuted
CHECK_DEADLOCK FALSE
