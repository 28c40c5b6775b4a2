SPECIFICATION Spec
CONSTANTS
  Nodes = {n1, n2}
  NoNode = none
  Edges = {e1, e2}
  Dialogs = {d1}
  Requests = {r1, r2}
  MaxInvites = 2
  MaxFaults = 1
INVARIANTS
  TypeOK
  RoutedAsInvited
  AnsweredIsKnown
SYMMETRY Symmetry
VIEW View
\* Every call may be over and no INVITE left: then nothing happens.
CHECK_DEADLOCK FALSE
