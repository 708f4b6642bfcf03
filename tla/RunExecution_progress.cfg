SPECIFICATION FairSpec
CONSTANTS
  a1 = a1
  a2 = a2
  i1 = i1
  Agents = {a1}
  NoAgent = NoAgent
  Issues = {i1}
  NoIssue = NoIssue
  NameKeys = {a1, a2}
  NoKey = NoKey
  NameKey <- MCNameKey
  MaxRuns = 6
  MaxWakes = 6
  MaxConcurrent <- MCMaxConcurrent
  LocalAgents = {a1}
  FirstAssignee <- MCFirstAssignee
  RetryDelays = 1
  CommentWakes = {TRUE}
  Outcomes = {"succeeded"}
  EditStatuses = {}
  MaxEvents <- Progress
  MaxTotal = 3
CHECK_DEADLOCK FALSE
PROPERTIES
  DeferredSettles
  RunEnds
  QueuedIsStarted
