SPECIFICATION FairSpec
CONSTANTS
  a1 = a1
  a2 = a2
  i1 = i1
  Agents = {a1}
  NoAgent = NoAgent
  Issues = {i1}
  NoIssue = NoIssue
  NameKeys = {a1, a2}
  NoKey = NoKey
  NameKey <- MCNameKey
  MaxRuns = 4
  MaxWakes = 4
  MaxConcurrent <- MCMaxConcurrent
  LocalAgents = {}
  FirstAssignee <- MCFirstAssignee
  RetryDelays = 1
  CommentWakes = {FALSE}
  Outcomes = {"succeeded"}
  EditStatuses = {}
  MaxEvents <- BudgetAndResume
  MaxTotal = 3
CHECK_DEADLOCK FALSE
PROPERTY
  QueuedIsStarted
