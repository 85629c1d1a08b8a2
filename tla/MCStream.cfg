CONSTANTS
  r1 = r1
  r2 = r2
  Run = {r1, r2}
  NoRun = NoRun
  NumStages = 4
  Required <- SmallRequired
  DependsOn <- SmallDependsOn
  Kinds = {"http"}
  MaxRetries = 0
SPECIFICATION StreamSpec
PROPERTY StreamEnds
CHECK_DEADLOCK FALSE
