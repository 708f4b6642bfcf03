SPECIFICATION FairSpec
CONSTANT MaxCalls = 5
CHECK_DEADLOCK FALSE
INVARIANTS
  TypeOK
  NoLeftover
PROPERTIES
  ImplementsMutex
  EveryCallStarts
