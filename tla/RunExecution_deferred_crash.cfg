SPECIFICATION FairSpec
CONSTANTS
  a1 = a1
  a2 = a2
  i1 = i1
  Agents = {a1}
  NoAgent = NoAgent
  Issues = {i1}
  NoIssue = NoIssue
  NameKeys = {a1, a2}
  NoKey = NoKey
  NameKey <- MCNameKey
  MaxRuns = 5
  MaxWakes = 5
  MaxConcurrent <- MCMaxConcurrent
  LocalAgents = {}
  FirstAssignee <- MCFirstAssignee
  RetryDelays = 1
  CommentWakes = {TRUE}
  Outcomes = {"succeeded"}
  EditStatuses = {}
  MaxEvents <- CrashAndReconcile
  MaxTotal = 4
CHECK_DEADLOCK FALSE
PROPERTY
  DeferredSurvivesCrash
