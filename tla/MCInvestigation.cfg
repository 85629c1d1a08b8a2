CONSTANTS
  r1 = r1
  r2 = r2
  r3 = r3
  Run = {r1, r2, r3}
  NoRun = NoRun
  NumStages = 3
  Required <- TinyRequired
  DependsOn <- TinyDependsOn
  Kinds = {"http", "report", "queue"}
  MaxRetries = 1
SPECIFICATION FairSpec
INVARIANTS
  SingleInvestigation
  ProgressHonest
  RowsHonest
PROPERTIES
  CancelIsFinal
  RunningIsTemporary
  EveryRunEnds
CHECK_DEADLOCK FALSE
