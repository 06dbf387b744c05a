SPECIFICATION FairSpec
CONSTANTS
  Names = {"node-1"}
  Similar <- NoSimilar
  Unaddressed = {"node-1"}
  Requests = {r1, r2}
  MaxId = 1
  MaxCrashes = 1
INVARIANTS TypeOK SettledWhenIdle
PROPERTY HeartbeatHeals
CHECK_DEADLOCK FALSE
