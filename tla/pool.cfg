SPECIFICATION FairSpec
CONSTANTS
  Tasks = {t1, t2}
  NoTask = NoTask
  Threads = {w1, w2, w3, w4, w5}
  NoThread = NoThread
  Stopper = Stopper
  CoreThreads = 1
  MaxThreads = 2
  MaxDeaths = 2
  MaxRefusals = 1
CHECK_DEADLOCK FALSE
INVARIANT
  TypeOK
  CountAndCore
PROPERTY
  RunsEachTaskOnce
  TasksRun
  WorkersEnd
