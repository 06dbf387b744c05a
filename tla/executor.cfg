SPECIFICATION FairSpec
CONSTANTS
  Commands = {c1, c2}
  None = None
  Heartbeat = hb
  Handlers = {h1}
  Workers = {w1, w2}
  QueueCap = 1
  ResultCap = 1
  Hanging = {}
  MaxLoops = 2
  MaxBatch = 2
  MaxPolls = 1
  MaxFails = 1
INVARIANT
  TypeOK
  PointersAccountedFor
  SingleRunsOnce
  ClosedChannelsAreIdle
PROPERTY
  AcceptedIsSettled
  StopEnds
