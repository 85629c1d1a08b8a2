------------------------ MODULE PipelineSystemProofs ------------------------
(***************************************************************************)
(* What holds of PipelineSystem for any number of runs, any number of      *)
(* stages and any graph of prerequisites.                                  *)
(***************************************************************************)
EXTENDS PipelineSystem, PipelineProofs

(* The invariant of each run is inductive: it holds of runs that have not  *)
(* started and every action keeps it.                                      *)
LEMMA InitInv == Init => PipelineInv
<1> SUFFICES ASSUME Init PROVE PipelineInv
  OBVIOUS
<1>1. TypeOK
  BY StageFacts DEF Init, TypeOK, Fresh, Control, StageStatus, RunStates
<1>2. ASSUME NEW r \in Run PROVE RunInv(r)
  BY DEF Init, RunInv, CancelledInv, StartInv, StageInv, EndInv, Fresh
<1> QED
  BY <1>1, <1>2 DEF PipelineInv

LEMMA StepInv == PipelineInv /\ [Next]_pipelineVars => PipelineInv'
<1> SUFFICES ASSUME PipelineInv, [Next]_pipelineVars PROVE PipelineInv'
  OBVIOUS
<1>1. CASE Next
  <2> SUFFICES ASSUME NEW r \in Run, Start(r) \/ Step(r) \/ Cancel(r) \/ Interrupt(r)
               PROVE  PipelineInv'
    BY <1>1 DEF Next
  <2>1. CASE Start(r)
    BY <2>1, StartKeeps
  <2>2. CASE ProcessIncident(r)
    BY <2>2, ProcessIncidentKeeps
  <2>3. CASE RunPipeline(r)
    BY <2>3, RunPipelineKeeps
  <2>4. CASE StageSucceeds(r)
    BY <2>4, StageSucceedsKeeps
  <2>5. CASE StageDegrades(r)
    BY <2>5, StageDegradesKeeps
  <2>6. CASE StageFails(r)
    BY <2>6, StageFailsKeeps
  <2>7. CASE Unwind(r)
    BY <2>7, UnwindKeeps
  <2>8. CASE Settle(r)
    BY <2>8, SettleKeeps
  <2>9. CASE Cancel(r)
    BY <2>9, CancelKeeps
  <2>10. CASE Interrupt(r)
    BY <2>10, InterruptKeeps
  <2> QED
    BY <2>1, <2>2, <2>3, <2>4, <2>5, <2>6, <2>7, <2>8, <2>9, <2>10 DEF Step
<1>2. CASE UNCHANGED pipelineVars
  <2>1. TypeOK'
    BY <1>2 DEF PipelineInv, TypeOK, pipelineVars
  <2>2. ASSUME NEW r \in Run PROVE RunInv(r)'
    BY <1>2, KeepsRunInv DEF PipelineInv, pipelineVars, Keeps
  <2> QED
    BY <2>1, <2>2 DEF PipelineInv
<1> QED
  BY <1>1, <1>2

(* Every reachable state is typed and ties each run's variables together.  *)
THEOREM PipelineInvariant == Spec => []PipelineInv
BY InitInv, StepInv, PTL DEF Spec

(* The type invariant, for any graph.                                      *)
THEOREM PipelineTyped == Spec => []TypeOK
<1>1. PipelineInv => TypeOK
  BY DEF PipelineInv
<1> QED
  BY <1>1, PipelineInvariant, PTL

(* No stage is executed before each of its prerequisites ended well: the   *)
(* refusal in _execute_stage is dead code, whatever the graph.             *)
THEOREM PrerequisitesAlwaysMet == Spec => []PrerequisitesMet
BY PipelineInvariant, PrerequisitesFollow, PTL
-----------------------------------------------------------------------------
(* A cancelled run is not at a stage's await, so no step moves it to       *)
(* another stage or clears its flag; the invariant does the rest.          *)
LEMMA CancelStep ==
  ASSUME PipelineInv, [Next]_pipelineVars, NEW q \in Run, cancelled[q]
  PROVE  cancelled'[q] /\ at'[q] = at[q]
<1>1. pc[q] \notin {"free", "created", "executing"}
  BY DEF PipelineInv, RunInv, CancelledInv
<1>2. ASSUME NEW r \in Run, Next PROVE cancelled'[q] /\ at'[q] = at[q]
  BY <1>1, <1>2 DEF Next, Start, Step, ProcessIncident, RunPipeline, StageSucceeds, StageDegrades,
     StageFails, Proceed, EnterStage, Return, Unwind, Settle, Cancel, Interrupt,
     PipelineInv, TypeOK
<1> QED
  BY <1>2 DEF pipelineVars

(* An operator's cancellation is never undone, and no stage starts or is   *)
(* left running behind it.                                                 *)
THEOREM CancellationIsFinal == Spec => CancelIsFinal
<1>1. PipelineInv /\ PipelineInv' /\ [Next]_pipelineVars
      => [\A r \in Run : cancelled[r] =>
            /\ cancelled'[r] /\ state'[r] = "CANCELLED"
            /\ at'[r] = at[r]
            /\ \A s \in Stage : status'[r][s] # "RUNNING"]_pipelineVars
  <2> SUFFICES ASSUME PipelineInv, PipelineInv', [Next]_pipelineVars,
                      NEW r \in Run, cancelled[r]
               PROVE  /\ cancelled'[r] /\ state'[r] = "CANCELLED"
                      /\ at'[r] = at[r]
                      /\ \A s \in Stage : status'[r][s] # "RUNNING"
    OBVIOUS
  <2>1. cancelled'[r] /\ at'[r] = at[r]
    BY CancelStep
  <2> QED
    BY <2>1 DEF PipelineInv, RunInv, CancelledInv, StageInv
<1> QED
  BY <1>1, PipelineInvariant, PTL DEF Spec, CancelIsFinal
-----------------------------------------------------------------------------
(* The status a finished stage has after any step.                         *)
LEMMA FinishedStep ==
  ASSUME PipelineInv, [Next]_pipelineVars,
         NEW q \in Run, NEW s \in Stage, status[q][s] \in Finished
  PROVE  status'[q][s] = status[q][s]
BY FinishedKept DEF Next, Step, Start, ProcessIncident, Settle, Interrupt, pipelineVars

(* No later step relabels a stage that has ended with a verdict.           *)
THEOREM FinishedStagesAreFinal == Spec => FinishedStagesStay
<1>1. PipelineInv /\ [Next]_pipelineVars
      => [\A r \in Run, s \in Stage :
            status[r][s] \in {"SUCCESS", "DEGRADED", "PARTIAL", "FAILED"} =>
              status'[r][s] = status[r][s]]_pipelineVars
  BY FinishedStep DEF Finished
<1> QED
  BY <1>1, PipelineInvariant, PTL DEF Spec, FinishedStagesStay

-----------------------------------------------------------------------------
LEMMA VerdictStep ==
  ASSUME PipelineInv, [Next]_pipelineVars, NEW q \in Run, VerdictInv(q)
  PROVE  VerdictInv(q)'
<1>1. CASE UNCHANGED <<status[q], state[q], cancelled[q]>>
  BY <1>1 DEF VerdictInv
<1>2. ASSUME NEW r \in Run, Start(r) \/ ProcessIncident(r) PROVE VerdictInv(q)'
  <2>1. CASE q # r
    BY <1>1, <1>2, <2>1 DEF Start, ProcessIncident, PipelineInv, TypeOK
  <2>2. CASE q = r
    BY <1>2, <2>2, VerdictOpens DEF Start, ProcessIncident, PipelineInv, TypeOK
  <2> QED
    BY <2>1, <2>2
<1>3. ASSUME NEW r \in Run, Settle(r) \/ Interrupt(r) PROVE VerdictInv(q)'
  BY <1>1, <1>3 DEF Settle, Interrupt
<1> QED
  BY <1>1, <1>2, <1>3, VerdictKept DEF Next, Step, pipelineVars

(* The verdict is the one the stages justify, for any graph in which every *)
(* later stage depends on each required one.                               *)
THEOREM VerdictsMatchStages == Spec => []VerdictMatchesStages
<1> DEFINE Inv == \A r \in Run : VerdictInv(r)
<1>1. Init => Inv
  BY DEF Init, VerdictInv, Justified
<1>2. PipelineInv /\ Inv /\ [Next]_pipelineVars => Inv'
  BY VerdictStep
<1>3. PipelineInv /\ Inv => VerdictMatchesStages
  BY JustifiedSets DEF VerdictMatchesStages
<1> QED
  BY <1>1, <1>2, <1>3, PipelineInvariant, PTL DEF Spec
-----------------------------------------------------------------------------
(* Rows of a run that has them for itself: those of the stages it has      *)
(* entered are up to date, and at the verdict all are.                     *)
RowsInv(r) ==
  /\ pc[r] = "executing" => \A s \in Stage : s <= at[r] => rows[s] = status[r][s]
  /\ state[r] \in Verdicts => rows = status[r]

Alone(r) == Run = {r}

(* No stage is left waiting behind a verdict.                              *)
LEMMA NothingWaits ==
  ASSUME NEW st \in [Stage -> StageStatus], NEW v \in Verdicts, Justified(st, v),
         NEW s \in Stage
  PROVE  st[s] # "NOT_STARTED"
<1>1. s \in Nat /\ s <= NumStages /\ PackageStage = NumStages - 1 /\ ReadyStage = NumStages
      /\ NumStages \in Nat
  BY StageFacts
<1>2. CASE v \in {"SUCCESS", "DEGRADED"}
  BY <1>2 DEF Justified, WellEnded
<1>3. CASE v = "PARTIAL"
  <2>1. s < PackageStage \/ s = PackageStage \/ s = ReadyStage
    BY <1>1
  <2> QED
    BY <1>3, <2>1 DEF Justified, WellEnded
<1>4. CASE v = "FAILED"
  <2>1. PICK t \in Required : /\ st[t] = "FAILED"
                              /\ s < t => WellEnded(st, s)
                              /\ s > t => st[s] = "BLOCKED"
    BY <1>4 DEF Justified
  <2>2. t \in Nat
    BY <2>1, StageFacts, GraphAssumption
  <2>3. s < t \/ s = t \/ s > t
    BY <1>1, <2>2
  <2> QED
    BY <2>1, <2>3 DEF WellEnded
<1> QED
  BY <1>2, <1>3, <1>4 DEF Verdicts

(* The rows at a verdict.                                                  *)
LEMMA ReturnRows ==
  ASSUME NEW r \in Run, PipelineInv, RowsInv(r), pc[r] = "executing",
         NEW st \in [Stage -> StageStatus], NEW v \in Verdicts,
         Return(r, st, v), Justified(st, v), PersistChanges(r)
  PROVE  rows' = status'[r]
<1>1. /\ status'[r] = st /\ status[r] \in [Stage -> StageStatus]
      /\ at[r] \in Stage /\ InOrder(r)
  BY DEF Return, PipelineInv, TypeOK, RunInv, StageInv
<1>2. ASSUME NEW s \in Stage, st[s] = status[r][s] PROVE rows[s] = st[s]
  <2>1. s \in Nat /\ at[r] \in Nat
    BY <1>1, StageFacts
  <2>2. ~(s > at[r])
    BY <1>1, <1>2, NothingWaits DEF InOrder
  <2>3. s <= at[r]
    BY <2>1, <2>2
  <2> QED
    BY <1>2, <2>3 DEF RowsInv
<1>3. rows' = [s \in Stage |-> IF st[s] # status[r][s] THEN st[s] ELSE rows[s]]
  BY <1>1 DEF PersistChanges
<1>4. rows' = [s \in Stage |-> st[s]]
  BY <1>2, <1>3
<1> QED
  BY <1>1, <1>4

LEMMA RowsStep ==
  ASSUME PipelineInv, PipelineInv', [Next]_pipelineVars, NEW q \in Run, Alone(q), RowsInv(q)
  PROVE  RowsInv(q)'
<1>1. CASE UNCHANGED <<rows, status, state>> /\ (pc'[q] = "executing" => pc[q] = "executing" /\ at' = at)
  BY <1>1 DEF RowsInv
<1>2. CASE pc'[q] # "executing" /\ state'[q] \notin Verdicts
  BY <1>2 DEF RowsInv
<1>3. CASE Start(q) \/ ProcessIncident(q) \/ Unwind(q) \/ Cancel(q)
  <2>1. pc'[q] # "executing"
    <3>1. pc[q] \in Control /\ Interrupted(pc[q]) # "executing"
      BY InterruptedCases DEF PipelineInv, TypeOK, Control
    <3> QED
      BY <1>3, <3>1 DEF Start, ProcessIncident, Unwind, Cancel, PipelineInv, TypeOK
  <2>2. state'[q] \notin Verdicts
    BY <1>3 DEF Start, ProcessIncident, Unwind, Cancel, PipelineInv, TypeOK, Verdicts
  <2> QED
    BY <1>2, <2>1, <2>2
<1>4. CASE Settle(q) \/ Interrupt(q) \/ UNCHANGED pipelineVars
  <2>1. pc[q] \in Control /\ (pc[q] \in {"created", "executing"} => Interrupted(pc[q]) # "executing")
    BY InterruptedCases DEF PipelineInv, TypeOK, Control
  <2> QED
    BY <1>1, <1>4, <2>1 DEF Settle, Interrupt, pipelineVars, PipelineInv, TypeOK
<1>5. CASE RunPipeline(q)
  <2>1. /\ status[q] = Fresh /\ state[q] = "RUNNING" /\ 1 \in Stage
        /\ status' = [status EXCEPT ![q] = [Fresh EXCEPT ![1] = "RUNNING"]]
        /\ state' = state /\ at'[q] = 1
        /\ rows' = [Initialized(rows) EXCEPT ![1] = "RUNNING"]
    BY <1>5, StageFacts DEF RunPipeline, EnterStage, PipelineInv, TypeOK, RunInv, CancelledInv, StartInv
  <2>2. rows'[1] = "RUNNING" /\ status'[q][1] = "RUNNING"
    BY <2>1 DEF Initialized, Fresh, PipelineInv, TypeOK
  <2>3. \A s \in Stage : s <= 1 => s = 1
    BY StageFacts
  <2> QED
    BY <2>1, <2>2, <2>3 DEF RowsInv, Verdicts
<1>6. CASE StageSucceeds(q) \/ StageDegrades(q) \/ StageFails(q)
  <2>1. pc[q] = "executing" /\ PersistChanges(q)
    BY <1>6 DEF StageSucceeds, StageDegrades, StageFails
  <2>2. ASSUME NEW st \in [Stage -> StageStatus], NEW v \in Verdicts,
               Return(q, st, v), Justified(st, v)
        PROVE  RowsInv(q)'
    <3>1. rows' = status'[q]
      BY <2>1, <2>2, ReturnRows
    <3>2. pc'[q] = "returned"
      BY <2>2 DEF Return, PipelineInv, TypeOK
    <3> QED
      BY <3>1, <3>2 DEF RowsInv
  <2>3. ASSUME NEW outcome \in {"SUCCESS", "DEGRADED"}, at[q] + 1 \in Stage,
               EnterStage(q, at[q] + 1, [status[q] EXCEPT ![at[q]] = outcome])
        PROVE  RowsInv(q)'
    <3>1. /\ state'[q] = "RUNNING" /\ at'[q] = at[q] + 1 /\ at[q] \in Stage
          /\ status'[q] = [[status[q] EXCEPT ![at[q]] = outcome] EXCEPT ![at[q] + 1] = "RUNNING"]
          /\ status[q] \in [Stage -> StageStatus] /\ InOrder(q)
      BY <2>1, <2>3 DEF EnterStage, PipelineInv, TypeOK, RunInv, StageInv, CancelledInv, StartInv
    <3>2. ASSUME NEW s \in Stage, s <= at[q] + 1 PROVE rows'[s] = status'[q][s]
      <4>1. s \in Nat /\ at[q] \in Nat
        BY <3>1, StageFacts
      <4>2. CASE s <= at[q]
        BY <2>1, <4>2 DEF RowsInv, PersistChanges
      <4>3. CASE s = at[q] + 1
        <5>1. status[q][s] = "NOT_STARTED" /\ status'[q][s] = "RUNNING"
          BY <3>1, <4>1, <4>3 DEF InOrder
        <5> QED
          BY <2>1, <5>1 DEF PersistChanges
      <4> QED
        BY <3>2, <4>1, <4>2, <4>3
    <3> QED
      BY <3>1, <3>2 DEF RowsInv, Verdicts
  <2> QED
    BY <1>6, <2>2, <2>3, StageStep
<1> QED
  BY <1>3, <1>4, <1>5, <1>6 DEF Next, Step, Alone

(* The rows of an incident that only one run works on agree with its       *)
(* stages at the verdict, whatever an earlier run had left in them.        *)
THEOREM RowsBackVerdicts == (\E q \in Run : Alone(q)) => (Spec => []RowsBackVerdict)
<1> SUFFICES ASSUME NEW q \in Run, Alone(q) PROVE Spec => []RowsBackVerdict
  OBVIOUS
<1>1. Init => RowsInv(q)
  BY DEF Init, RowsInv, Verdicts
<1>2. PipelineInv /\ PipelineInv' /\ RowsInv(q) /\ [Next]_pipelineVars => RowsInv(q)'
  BY RowsStep
<1>3. RowsInv(q) => RowsBackVerdict
  BY DEF RowsInv, RowsBackVerdict, Verdicts, FinalStates, Alone
<1> QED
  BY <1>1, <1>2, <1>3, PipelineInvariant, PTL DEF Spec
-----------------------------------------------------------------------------
(* Only the API registers orchestrators that are never run.                *)
NoneIdle == \A r \in Run : pc[r] # "idle"

LEMMA NoneIdleStep == PipelineInv /\ NoneIdle /\ [Next]_pipelineVars => NoneIdle'
<1> SUFFICES ASSUME PipelineInv, NoneIdle, [Next]_pipelineVars, NEW q \in Run
             PROVE  pc'[q] # "idle"
  BY DEF NoneIdle
<1>1. pc \in [Run -> Control] /\ pc[q] # "idle" /\ Interrupted(pc[q]) # "idle"
  BY InterruptedCases DEF PipelineInv, TypeOK, NoneIdle
<1>2. ASSUME NEW r \in Run, Start(r) \/ Step(r) \/ Cancel(r) \/ Interrupt(r)
      PROVE  pc'[q] # "idle"
  BY <1>1, <1>2 DEF Start, Step, ProcessIncident, RunPipeline, StageSucceeds, StageDegrades,
     StageFails, Proceed, EnterStage, Return, Unwind, Settle, Cancel, Interrupt
<1> QED
  BY <1>1, <1>2 DEF Next, pipelineVars

(* The refinement: starting is Begin, entering a stage is EnterNext, a     *)
(* verdict is Conclude, cancelling is Stop and the rest is invisible.      *)
LEMMA PromiseStep ==
  ASSUME PipelineInv, NoneIdle, Next
  PROVE  Promise!Next \/ UNCHANGED <<state, at>>
<1>1. PICK r \in Run : Start(r) \/ Step(r) \/ Cancel(r) \/ Interrupt(r)
  BY DEF Next
<1>2. /\ state \in [Run -> RunStates] /\ at \in [Run -> 0 .. NumStages]
      /\ NumStages \in Nat
  BY StageFacts DEF PipelineInv, TypeOK
<1>3. CASE Start(r)
  <2>1. Promise!Begin(r)
    BY <1>3 DEF Start, Promise!Begin, PipelineInv, RunInv, StartInv
  <2> QED
    BY <2>1 DEF Promise!Next
<1>4. CASE ProcessIncident(r)
  <2>1. state[r] = IF cancelled[r] THEN "CANCELLED" ELSE "RUNNING"
    BY <1>4 DEF ProcessIncident, PipelineInv, RunInv, CancelledInv, StartInv
  <2> QED
    BY <1>2, <1>4, <2>1 DEF ProcessIncident
<1>5. CASE RunPipeline(r)
  <2>1. at[r] = 0 /\ state[r] = "RUNNING"
    BY <1>5 DEF RunPipeline, PipelineInv, RunInv, StartInv, CancelledInv
  <2>2. Promise!EnterNext(r)
    BY <1>2, <1>5, <2>1, StageFacts DEF RunPipeline, EnterStage, Promise!EnterNext
  <2> QED
    BY <2>2 DEF Promise!Next
<1>6. ASSUME NEW outcome \in {"SUCCESS", "DEGRADED"}, pc[r] = "executing",
             at[r] \in Required => outcome = "SUCCESS", Proceed(r, outcome)
      PROVE  Promise!Next
  <2>1. at[r] \in Stage /\ at[r] \in Nat /\ state[r] = "RUNNING"
    BY <1>6, StageFacts DEF PipelineInv, RunInv, StageInv, StartInv, CancelledInv
  <2>2. ASSUME NEW st, at[r] # ReadyStage, EnterStage(r, at[r] + 1, st) PROVE Promise!Next
    <3>1. at[r] < NumStages
      BY <1>2, <2>1, <2>2, StageFacts
    <3>2. Promise!EnterNext(r)
      BY <1>2, <2>1, <2>2, <3>1 DEF EnterStage, Promise!EnterNext
    <3> QED
      BY <3>2 DEF Promise!Next
  <2>3. ASSUME NEW st, at[r] + 1 = PackageStage, Return(r, st, "PARTIAL") PROVE Promise!Next
    <3>1. at[r] = NumStages - 2
      BY <1>2, <2>1, <2>3, StageFacts
    <3>2. "PARTIAL" \in Promise!VerdictsAt(at[r])
      BY <3>1 DEF Promise!VerdictsAt
    <3>3. Promise!Conclude(r)
      BY <2>1, <2>3, <3>2 DEF Return, Promise!Conclude
    <3> QED
      BY <3>3 DEF Promise!Next
  <2>4. ASSUME NEW st, NEW v \in {"SUCCESS", "DEGRADED"}, at[r] = ReadyStage, Return(r, st, v)
        PROVE  Promise!Next
    <3>1. v \in Promise!VerdictsAt(at[r])
      BY <2>4, StageFacts DEF Promise!VerdictsAt
    <3>2. Promise!Conclude(r)
      BY <2>1, <2>4, <3>1 DEF Return, Promise!Conclude
    <3> QED
      BY <3>2 DEF Promise!Next
  <2> QED
    BY <1>6, <2>2, <2>3, <2>4, ProceedCases
<1>7. CASE StageFails(r)
  <2>1. state[r] = "RUNNING" /\ "FAILED" \in Promise!VerdictsAt(at[r])
    BY <1>7 DEF StageFails, PipelineInv, RunInv, StartInv, CancelledInv, Promise!VerdictsAt
  <2>2. Promise!Conclude(r)
    BY <1>7, <2>1 DEF StageFails, Return, Promise!Conclude
  <2> QED
    BY <2>2 DEF Promise!Next
<1>8. CASE Unwind(r) \/ Cancel(r)
  <2>1. state[r] # "IDLE"
    BY <1>8 DEF Unwind, Cancel, NoneIdle, PipelineInv, RunInv, StartInv
  <2>2. Promise!Stop(r)
    BY <1>8, <2>1 DEF Unwind, Cancel, Promise!Stop
  <2> QED
    BY <2>2 DEF Promise!Next
<1>9. CASE Settle(r) \/ Interrupt(r)
  BY <1>9 DEF Settle, Interrupt
<1> QED
  BY <1>1, <1>3, <1>4, <1>5, <1>6, <1>7, <1>8, <1>9 DEF Step, StageSucceeds, StageDegrades

(* The pipeline implements the life cycle its callers rely on: stages in   *)
(* order, one verdict, given only where a pipeline may end, and nothing    *)
(* after a cancellation.                                                   *)
THEOREM PipelineKeepsPromise == Spec => KeepsPromise
<1>1. Init => Promise!Init
  BY DEF Init, Promise!Init
<1>2. Init => NoneIdle
  BY DEF Init, NoneIdle
<1>3. PipelineInv /\ NoneIdle /\ [Next]_pipelineVars => [Promise!Next]_(Promise!lifecycleVars)
  BY PromiseStep DEF pipelineVars, Promise!lifecycleVars
<1> QED
  BY <1>1, <1>2, <1>3, NoneIdleStep, PipelineInvariant, PTL DEF Spec, KeepsPromise, Promise!Spec
=============================================================================
