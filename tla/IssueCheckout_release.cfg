SPECIFICATION Spec
CONSTANTS
  a1 = a1
  a2 = a2
  i1 = i1
  Agents = {a1, a2}
  NoAgent = NoAgent
  Issues = {i1}
  NameKeys = {a1, a2}
  NoKey = NoKey
  NameKey <- MCNameKey
  MaxRuns = 3
  AgentOf <- MCAgentOf
  Tracked = {1}
  ExpectedSets <- MCExpectedSets
  BoardStatuses = {"in_progress"}
  MaxCalls = 3
  MaxBoard = 1
CHECK_DEADLOCK FALSE
PROPERTY
  OnlyOwnerReleases
