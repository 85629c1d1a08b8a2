CONSTANTS
  r1 = r1
  r2 = r2
  r3 = r3
  Run = {r1, r2, r3}
  NoRun = NoRun
  NumStages = 4
  Required <- SmallRequired
  DependsOn <- SmallDependsOn
  Kinds = {"http"}
  MaxRetries = 0
SPECIFICATION Spec
INVARIANT ResetHolds
CHECK_DEADLOCK FALSE
