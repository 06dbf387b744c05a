SPECIFICATION FairSpec
CONSTANTS
  Callers = {c1, c2, c3}
  FailureLimit = 5
  SuccessLimit = 3
  TrialLimit = 3
  MaxCount = 6
INVARIANTS TypeOK ReadIsFresh ClosedBelowLimit
PROPERTY OpenIsLeft
