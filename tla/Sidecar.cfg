SPECIFICATION FairSpec
CONSTANTS
  c1 = c1
  p = p
  Calls = {c1}
  PartyOf <- MCPartyOf
  Commands <- MCCommands
  Handlers = {h1, h2}
  MaxRestarts = 1
INVARIANTS
  TypeOK
  RecordedAfterEngine
  CounterExact
VIEW View
CHECK_DEADLOCK FALSE
PROPERTIES
  TableConverges
  CommandsKeepContract
