SPECIFICATION FairSpec
CONSTANTS
  Tasks = {t1, t2, t3}
  AutoTasks = {t3}
  MaxHistory = 1
  MaxFaults = 2
CHECK_DEADLOCK FALSE
INVARIANT
  TypeOK
  FinalKept
PROPERTY
  NeverBack
  ServerLearns
