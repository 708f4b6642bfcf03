SPECIFICATION FairSpec
CONSTANTS
  i1 = i1
  p1 = p1
  p2 = p2
  outboxWorker = outboxWorker
  Interactions = {i1}
  Kinds = {"request_confirmation", "ask_user_questions"}
  MaxReplies = 2
  Signals <- MCSignals
  Outbox = outboxWorker
  Reconcilers = {p1, p2}
  MaxBridges = 4
  MaxAttempts = 2
  NoInteraction = NoInteraction
  EventKinds = {"undelivered", "unpolled", "old", "post", "ui", "close", "crash"}
  MaxEvents <- MCMaxEvents
  MaxTotal = 2
CHECK_DEADLOCK FALSE
INVARIANTS
  TypeOK
  OneOpenBridge
  PostOnce
  DecisionSettles
PROPERTIES
  ImplementsDecision
  OutboxSettles
  PostHeard
