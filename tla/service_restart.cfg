SPECIFICATION FairSpec
CONSTANTS
  Names = {"HDFS"}
  Requests = {r1, r2}
  DefaultDeps <- NoDeps
  MaxCrashes = 1
INVARIANT NeverStranded
PROPERTY OperationsEnd
