SPECIFICATION FairSpec
CONSTANTS
  Tasks = {a, b, c}
  NoTask = NoTask
  Background = {c}
  Retryable = {a}
  CancelIds = {a, c}
  PriorityMaps <- Maps
  MaxAttempts = 2
  MaxConcurrent = 1
  MaxBatch = 1
CHECK_DEADLOCK FALSE
INVARIANT
  TypeOK
  NothingLostWithoutTies
  CancelsItsOwn
PROPERTY
  TakesTheFirst
  FinalIsLast
  QueuedIsStarted
  StopEnds
