CONSTANTS
  w1 = w1
  w2 = w2
  Worker = {w1, w2}
  Client = Client
  NumJobs = 1
  MaxSize = 1
  MaxRetries = 2
  MaxCrashes = 2
SPECIFICATION Spec
SYMMETRY Symmetry
INVARIANTS
  LostForCause
  GivenUpForCause
  LeaseExclusive
CHECK_DEADLOCK FALSE
