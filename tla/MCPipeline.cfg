CONSTANTS
  r1 = r1
  Run = {r1}
  NumStages <- CanonicalNumStages
  Required <- CanonicalRequired
  DependsOn <- CanonicalDependsOn
SPECIFICATION FairSpec
INVARIANTS
  TypeOK
  PrerequisitesMet
  VerdictMatchesStages
  RowsBackVerdict
PROPERTIES
  CancelIsFinal
  FinishedStagesStay
  RunEnds
  KeepsPromise
