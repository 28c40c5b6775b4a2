SPECIFICATION FairSpec
CONSTANTS
  Nodes = {n1, n2}
  Standalone = {n2}
  Unfit = {}
  Legs = {l1}
  NoLease = NoLease
  MaxLoad = 2
  MaxEpoch = 2
  MaxWire = 2
INVARIANTS
  TypeOK
  ChoiceIsLeast
  OnlyRestartedLoseLegs
PROPERTIES
  DeadNodesLeave
