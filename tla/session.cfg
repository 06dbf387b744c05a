SPECIFICATION FairSpec
CONSTANTS
  Caches = 2
  QueueSize = 1
  MaxUpdates = 2
  MaxSends = 6
  MaxFaults = 1
CHECK_DEADLOCK FALSE
INVARIANT
  TypeOK
  QueueOwned
  CachesCurrent
PROPERTY
  Registers
