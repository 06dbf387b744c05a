SPECIFICATION Spec
CONSTANTS
  Names = {"node-1"}
  Similar <- NoSimilar
  Unaddressed = {"node-1"}
  Requests = {r1}
  MaxId = 2
  MaxCrashes = 0
PROPERTY DeletedStaysDeleted
CHECK_DEADLOCK FALSE
