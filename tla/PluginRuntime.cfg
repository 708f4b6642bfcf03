SPECIFICATION FairSpec
CONSTANTS
  j1 = j1
  j2 = j2
  c1 = c1
  o1 = o1
  o2 = o2
  Jobs = {j1, j2}
  MaxJobRuns = 3
  MaxConcurrentJobs = 1
  Callers = {c1}
  Handles = {1, 2}
  NoHandle = 0
  MaxProcs = 3
  MaxCrashes = 1
  Ops = {o1, o2}
  BootOp = o1
  EventKinds = {"due", "trigger", "enable", "disable", "restart", "exit", "reject", "crash"}
  MaxEvents <- MCMaxEvents
  MaxTotal = 3
CHECK_DEADLOCK FALSE
INVARIANTS
  TypeOK
  CallHasProcess
  ScheduledOnce
  ScheduledLimit
  MarkHasDispatch
PROPERTIES
  FinalOutcome
  OneProcess
  ComesToRest
