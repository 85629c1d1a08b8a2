------------------------ MODULE WorkerPipelineProofs ------------------------
(***************************************************************************)
(* Workers that run pipelines, for any number of workers and jobs and any  *)
(* stage graph: they use the queue as SQLiteQueue describes it, a job is   *)
(* only completed for one of two causes, and a row that says RUNNING has a *)
(* process behind it, alive or dead. Until its lease runs out a job has    *)
(* one runner, which is the worker its row names, and the rows of a lone   *)
(* job are those of its run.                                               *)
(***************************************************************************)
EXTENDS WorkerPipeline, SQLiteQueueProofs

-----------------------------------------------------------------------------
(* Every step of the system is a step of the queue or leaves it alone.     *)
LEMMA SystemStepIsQueueStep ==
  ASSUME [SystemNext]_workerPipelineVars PROVE [Next]_vars
<1>1. ASSUME NEW w \in Worker, QueueStep(w) \/ HandlerStep(w) \/ Stop(w) \/ Die(w)
      PROVE  [Next]_vars
  <2>1. CASE QueueStep(w)
    BY <2>1 DEF QueueStep, Next, WorkerStep
  <2>2. CASE Launch(w) \/ PipelineStep(w) \/ Stop(w)
    BY <2>2 DEF Launch, PipelineStep, Stop
  <2>3. CASE Finish(w) \/ Fail(w) \/ Die(w)
    BY <2>3 DEF Finish, Fail, Die, Next, WorkerStep
  <2> QED
    BY <1>1, <2>1, <2>2, <2>3 DEF HandlerStep
<1>2. ASSUME NEW j \in Job, Lapse(j) \/ ApiStep(j) PROVE [Next]_vars
  BY <1>2 DEF Lapse, ApiStep, Next
<1>3. CASE UNCHANGED workerPipelineVars
  BY <1>3 DEF workerPipelineVars
<1> QED
  BY <1>1, <1>2, <1>3 DEF SystemNext

(* Workers that run pipelines use the queue as its module says: whatever   *)
(* holds of the queue holds of them.                                       *)
THEOREM KeepsQueue == SystemSpec => Spec
<1>1. SystemInit => Init
  BY DEF SystemInit
<1> QED
  BY <1>1, SystemStepIsQueueStep, PTL DEF SystemSpec, Spec

-----------------------------------------------------------------------------
PipeTypeOK ==
  /\ run \in [Worker -> Pipe!Control]
  /\ at \in [Worker -> 0 .. NumStages]
  /\ stages \in [Worker -> [Stage -> StageStatus]]
  /\ state \in [Worker -> Pipe!RunStates]
  /\ rows \in [Stage -> StageStatus \cup {"ABSENT"}]

(* A pipeline belongs to a worker that runs a job.                         *)
HandlerInv == \A w \in Worker : run[w] # "free" => pc[w] = "running"

(* How a pipeline has ended, or is about to.                               *)
EndsInv ==
  \A w \in Worker :
    /\ run[w] = "returned" => state[w] \in Verdicts
    /\ run[w] \in {"cancelling", "raised", "aborting"} => job[w] \in stopped

(* The stage in memory that is RUNNING is the one the worker is in.        *)
InStage(w) == run[w] \in {"executing", "cancelling"}

StageInv ==
  \A w \in Worker :
    /\ InStage(w) => at[w] \in Stage /\ stages[w][at[w]] = "RUNNING"
    /\ \A s \in Stage : stages[w][s] = "RUNNING" => InStage(w) /\ at[w] = s

WorkerPipelineInv ==
  /\ QueueInv /\ PipeTypeOK /\ HandlerInv /\ EndsInv /\ StageInv
  /\ CompletedForCause /\ RunningRowsHeld

(* What a step of the pipeline of w does: it ends, or is in a stage which  *)
(* is the only one RUNNING and the only one whose row it marks so; and the *)
(* row of the stage it was in is settled.                                  *)
PipelineEffect(w) ==
  /\ run[w] \in {"created", "executing", "cancelling"}
  /\ \E p \in {"executing", "returned", "raised"} : run' = [run EXCEPT ![w] = p]
  /\ \E a \in 0 .. NumStages : at' = [at EXCEPT ![w] = a]
  /\ \E st \in [Stage -> StageStatus] : stages' = [stages EXCEPT ![w] = st]
  /\ \E x \in Pipe!RunStates : state' = [state EXCEPT ![w] = x]
  /\ rows' \in [Stage -> StageStatus \cup {"ABSENT"}]
  /\ run'[w] = "returned" => state'[w] \in Verdicts
  /\ run'[w] = "raised" => run[w] = "cancelling"
  /\ run'[w] = "executing" => at'[w] \in Stage /\ stages'[w][at'[w]] = "RUNNING"
  /\ \A s \in Stage : stages'[w][s] = "RUNNING" => run'[w] = "executing" /\ at'[w] = s
  /\ \A s \in Stage : rows'[s] = "RUNNING" =>
       \/ run'[w] = "executing" /\ at'[w] = s
       \/ rows[s] = "RUNNING" /\ ~(InStage(w) /\ at[w] = s)

LEMMA SameStages == Pipe!Stage = Stage /\ Pipe!StageStatus = StageStatus
BY DEF Pipe!Stage, Stage, Pipe!StageStatus, StageStatus

LEMMA StagesInRange ==
  /\ 1 \in Stage /\ PackageStage \in Stage /\ ReadyStage \in Stage
  /\ PackageStage # ReadyStage
  /\ Stage \subseteq 0 .. NumStages
  /\ \A s \in Stage : s # ReadyStage => s + 1 \in Stage
BY GraphAssumption DEF Stage, PackageStage, ReadyStage

LEMMA Blocking ==
  ASSUME NEW st \in [Stage -> StageStatus], NEW s \in Stage
  PROVE  /\ Pipe!BlockDependents(st, s) \in [Stage -> StageStatus]
         /\ \A t \in Stage : Pipe!BlockDependents(st, s)[t] \in {st[t], "BLOCKED"}
BY SameStages DEF Pipe!BlockDependents, StageStatus

LEMMA Verdicting ==
  ASSUME NEW st, NEW v \in BOOLEAN PROVE Pipe!Verdict(st, v) \in Verdicts
BY DEF Pipe!Verdict, Verdicts, Pipe!FinalStates

LEMMA VerdictsAreStates ==
  /\ Verdicts \subseteq Pipe!RunStates
  /\ "FAILED" \in Verdicts /\ "CANCELLED" \in Pipe!RunStates
BY DEF Verdicts, Pipe!FinalStates, Pipe!RunStates

LEMMA RunPipelineEffect ==
  ASSUME WorkerPipelineInv, NEW w \in Worker, Pipe!RunPipeline(w)
  PROVE  PipelineEffect(w)
<1> USE DEF WorkerPipelineInv, PipeTypeOK
<1>1. /\ run[w] = "created"
      /\ run' = [run EXCEPT ![w] = "executing"]
      /\ at' = [at EXCEPT ![w] = 1]
      /\ stages' = [stages EXCEPT ![w] = [stages[w] EXCEPT ![1] = "RUNNING"]]
      /\ state' = state
      /\ rows' = [Pipe!Initialized(rows) EXCEPT ![1] = "RUNNING"]
  BY DEF Pipe!RunPipeline, Pipe!EnterStage
<1>2. /\ Pipe!Initialized(rows) \in [Stage -> StageStatus \cup {"ABSENT"}]
      /\ \A s \in Stage : Pipe!Initialized(rows)[s] = "RUNNING" => rows[s] = "RUNNING"
  BY SameStages DEF Pipe!Initialized, StageStatus
<1>3. /\ [stages[w] EXCEPT ![1] = "RUNNING"] \in [Stage -> StageStatus]
      /\ \A s \in Stage : stages[w][s] # "RUNNING"
  BY <1>1 DEF StageStatus, StageInv, InStage
<1>4. rows' \in [Stage -> StageStatus \cup {"ABSENT"}]
  BY <1>1, <1>2 DEF StageStatus
<1>5. state' = [state EXCEPT ![w] = state[w]] /\ state[w] \in Pipe!RunStates
  BY <1>1
<1>6. 1 \in 0 .. NumStages
  BY StagesInRange
<1> QED
  BY <1>1, <1>2, <1>3, <1>4, <1>5, <1>6, StagesInRange DEF PipelineEffect, InStage

(* What persisting the changes of a step does to the rows.                 *)
LEMMA PersistedRows ==
  ASSUME WorkerPipelineInv, NEW w \in Worker, run[w] = "executing",
         NEW st \in [Stage -> StageStatus], stages' = [stages EXCEPT ![w] = st],
         Pipe!PersistChanges(w), st[at[w]] # "RUNNING"
  PROVE  /\ rows' \in [Stage -> StageStatus \cup {"ABSENT"}]
         /\ \A s \in Stage : rows'[s] = "RUNNING" =>
              st[s] = "RUNNING" \/ (rows[s] = "RUNNING" /\ s # at[w])
<1> USE DEF WorkerPipelineInv, PipeTypeOK
<1>1. stages'[w] = st
  OBVIOUS
<1>2. rows' = [s \in Stage |-> IF st[s] # stages[w][s] THEN st[s] ELSE rows[s]]
  BY <1>1, SameStages DEF Pipe!PersistChanges
<1>3. at[w] \in Stage /\ stages[w][at[w]] = "RUNNING"
  BY DEF StageInv, InStage
<1> QED
  BY <1>2, <1>3

LEMMA ProceedEffect ==
  ASSUME WorkerPipelineInv, NEW w \in Worker, run[w] = "executing",
         NEW outcome \in {"SUCCESS", "DEGRADED"},
         Pipe!Proceed(w, outcome), Pipe!PersistChanges(w)
  PROVE  PipelineEffect(w)
<1> DEFINE done == [stages[w] EXCEPT ![at[w]] = outcome]
<1>0. at[w] \in Stage /\ \A s \in Stage : stages[w][s] = "RUNNING" => s = at[w]
  BY DEF WorkerPipelineInv, StageInv, InStage
<1>1. done \in [Stage -> StageStatus] /\ \A s \in Stage : done[s] # "RUNNING"
  BY <1>0 DEF WorkerPipelineInv, PipeTypeOK, StageStatus
<1>2. CASE at[w] # Pipe!ReadyStage /\ Pipe!EnterStage(w, at[w] + 1, done)
  <2> DEFINE st == [done EXCEPT ![at[w] + 1] = "RUNNING"]
  <2>1. at[w] + 1 \in Stage
    BY <1>0, <1>2, StagesInRange DEF Pipe!ReadyStage, ReadyStage
  <2>2. /\ run' = [run EXCEPT ![w] = "executing"]
        /\ at' = [at EXCEPT ![w] = at[w] + 1]
        /\ stages' = [stages EXCEPT ![w] = st]
        /\ state' = [state EXCEPT ![w] = state[w]]
    BY <1>2 DEF Pipe!EnterStage, WorkerPipelineInv, PipeTypeOK
  <2>3. /\ st \in [Stage -> StageStatus] /\ st[at[w] + 1] = "RUNNING"
        /\ \A s \in Stage : st[s] = "RUNNING" => s = at[w] + 1
    BY <1>1, <2>1 DEF StageStatus
  <2> HIDE DEF st, done
  <2>4. st[at[w]] # "RUNNING"
    <3>1. at[w] # at[w] + 1
      BY <1>0 DEF Stage
    <3> QED
      BY <1>0, <2>3, <3>1
  <2>5. /\ rows' \in [Stage -> StageStatus \cup {"ABSENT"}]
        /\ \A s \in Stage : rows'[s] = "RUNNING" =>
              st[s] = "RUNNING" \/ (rows[s] = "RUNNING" /\ s # at[w])
    BY <2>2, <2>3, <2>4, PersistedRows
  <2>6. /\ run'[w] = "executing" /\ at'[w] = at[w] + 1 /\ stages'[w] = st
        /\ at[w] + 1 \in 0 .. NumStages /\ state[w] \in Pipe!RunStates
    BY <2>1, <2>2, StagesInRange DEF WorkerPipelineInv, PipeTypeOK
  <2> QED
    BY <2>1, <2>2, <2>3, <2>5, <2>6 DEF PipelineEffect
<1>3. ASSUME NEW st \in [Stage -> StageStatus], NEW v \in Verdicts,
             \A s \in Stage : st[s] # "RUNNING", Pipe!Return(w, st, v)
      PROVE  PipelineEffect(w)
  <2>1. /\ run' = [run EXCEPT ![w] = "returned"]
        /\ at' = [at EXCEPT ![w] = at[w]] /\ at[w] \in 0 .. NumStages
        /\ stages' = [stages EXCEPT ![w] = st]
        /\ state' = [state EXCEPT ![w] = v] /\ v \in Pipe!RunStates
    BY <1>3, VerdictsAreStates DEF Pipe!Return, WorkerPipelineInv, PipeTypeOK
  <2>2. /\ rows' \in [Stage -> StageStatus \cup {"ABSENT"}]
        /\ \A s \in Stage : rows'[s] = "RUNNING" => rows[s] = "RUNNING" /\ s # at[w]
    BY <1>0, <1>3, <2>1, PersistedRows
  <2>3. run'[w] = "returned" /\ stages'[w] = st /\ state'[w] = v
    BY <2>1 DEF WorkerPipelineInv, PipeTypeOK
  <2> QED
    BY <1>3, <2>1, <2>2, <2>3 DEF PipelineEffect
<1>4. CASE Pipe!Return(w, [done EXCEPT ![Pipe!PackageStage] = "PARTIAL",
                                       ![Pipe!ReadyStage] = "BLOCKED"],
                       Pipe!Verdict([done EXCEPT ![Pipe!PackageStage] = "PARTIAL",
                                                 ![Pipe!ReadyStage] = "BLOCKED"], FALSE))
  <2> DEFINE none == [done EXCEPT ![Pipe!PackageStage] = "PARTIAL",
                                  ![Pipe!ReadyStage] = "BLOCKED"]
  <2>1. none \in [Stage -> StageStatus] /\ \A s \in Stage : none[s] # "RUNNING"
    BY <1>1 DEF StageStatus
  <2> HIDE DEF none
  <2>2. Pipe!Verdict(none, FALSE) \in Verdicts
    BY Verdicting
  <2> QED
    BY <1>3, <1>4, <2>1, <2>2 DEF none
<1>5. CASE Pipe!Return(w, done, Pipe!Verdict(done, TRUE))
  BY <1>1, <1>3, <1>5, Verdicting
<1> QED
  BY <1>2, <1>4, <1>5 DEF Pipe!Proceed

LEMMA StageFailsEffect ==
  ASSUME WorkerPipelineInv, NEW w \in Worker, Pipe!StageFails(w)
  PROVE  PipelineEffect(w)
<1> DEFINE failed == [stages[w] EXCEPT ![at[w]] = "FAILED"]
           st     == Pipe!BlockDependents(failed, at[w])
<1>0. /\ run[w] = "executing" /\ at[w] \in Stage
      /\ \A s \in Stage : stages[w][s] = "RUNNING" => s = at[w]
  BY DEF Pipe!StageFails, WorkerPipelineInv, StageInv, InStage
<1>1. failed \in [Stage -> StageStatus] /\ \A s \in Stage : failed[s] # "RUNNING"
  BY <1>0 DEF WorkerPipelineInv, PipeTypeOK, StageStatus
<1>2. st \in [Stage -> StageStatus] /\ \A s \in Stage : st[s] # "RUNNING"
  BY <1>0, <1>1, Blocking
<1>3. /\ run' = [run EXCEPT ![w] = "returned"]
      /\ at' = [at EXCEPT ![w] = at[w]] /\ at[w] \in 0 .. NumStages
      /\ stages' = [stages EXCEPT ![w] = st]
      /\ state' = [state EXCEPT ![w] = "FAILED"]
      /\ Pipe!PersistChanges(w)
  BY DEF Pipe!StageFails, Pipe!Return, WorkerPipelineInv, PipeTypeOK
<1> HIDE DEF st
<1>4. /\ rows' \in [Stage -> StageStatus \cup {"ABSENT"}]
      /\ \A s \in Stage : rows'[s] = "RUNNING" => rows[s] = "RUNNING" /\ s # at[w]
  BY <1>0, <1>2, <1>3, PersistedRows
<1>5. run'[w] = "returned" /\ stages'[w] = st /\ state'[w] = "FAILED"
  BY <1>3 DEF WorkerPipelineInv, PipeTypeOK
<1> QED
  BY <1>0, <1>2, <1>3, <1>4, <1>5, VerdictsAreStates DEF PipelineEffect

LEMMA UnwindEffect ==
  ASSUME WorkerPipelineInv, NEW w \in Worker, Pipe!Unwind(w)
  PROVE  PipelineEffect(w)
<1> DEFINE halted == [stages[w] EXCEPT ![at[w]] = "CANCELLED"]
           st     == Pipe!BlockDependents(halted, at[w])
<1>0. /\ run[w] = "cancelling" /\ at[w] \in Stage
      /\ \A s \in Stage : stages[w][s] = "RUNNING" => s = at[w]
  BY DEF Pipe!Unwind, WorkerPipelineInv, StageInv, InStage
<1>1. halted \in [Stage -> StageStatus] /\ \A s \in Stage : halted[s] # "RUNNING"
  BY <1>0 DEF WorkerPipelineInv, PipeTypeOK, StageStatus
<1>2. st \in [Stage -> StageStatus] /\ \A s \in Stage : st[s] # "RUNNING"
  BY <1>0, <1>1, Blocking
<1>3. /\ run' = [run EXCEPT ![w] = "raised"]
      /\ at' = [at EXCEPT ![w] = at[w]] /\ at[w] \in 0 .. NumStages
      /\ stages' = [stages EXCEPT ![w] = st]
      /\ state' = [state EXCEPT ![w] = "CANCELLED"]
      /\ rows' = [t \in Stage |-> IF t = at[w] \/ st[t] # stages[w][t] THEN st[t] ELSE rows[t]]
  BY SameStages DEF Pipe!Unwind, WorkerPipelineInv, PipeTypeOK
<1> HIDE DEF st
<1>4. /\ rows' \in [Stage -> StageStatus \cup {"ABSENT"}]
      /\ \A s \in Stage : rows'[s] = "RUNNING" => rows[s] = "RUNNING" /\ s # at[w]
  BY <1>2, <1>3 DEF WorkerPipelineInv, PipeTypeOK
<1>5. run'[w] = "raised" /\ stages'[w] = st
  BY <1>3 DEF WorkerPipelineInv, PipeTypeOK
<1> QED
  BY <1>0, <1>2, <1>3, <1>4, <1>5, VerdictsAreStates DEF PipelineEffect

LEMMA PipelineStepEffect ==
  ASSUME WorkerPipelineInv, NEW w \in Worker, PipelineStep(w)
  PROVE  PipelineEffect(w)
BY RunPipelineEffect, ProceedEffect, StageFailsEffect, UnwindEffect
   DEF PipelineStep, Pipe!StageSucceeds, Pipe!StageDegrades

-----------------------------------------------------------------------------
LEMMA QueueKeeps ==
  ASSUME WorkerPipelineInv, [SystemNext]_workerPipelineVars PROVE QueueInv'
BY SystemStepIsQueueStep, QueueStepInv DEF WorkerPipelineInv

(* What the steps of the queue do to the parts the pipelines depend on.    *)
LEMMA LoopSteps ==
  ASSUME WorkerPipelineInv, NEW w \in Worker,
         ReadDead(w) \/ ClaimNothing(w) \/ Claim(w) \/ Retry(w) \/ GiveUp(w)
  PROVE  /\ pc[w] # "running"
         /\ \A v \in Worker : v # w => pc'[v] = pc[v] /\ job'[v] = job[v]
         /\ \A j \in Job : status'[j] = "completed" => status[j] = "completed"
<1> USE DEF WorkerPipelineInv, QueueInv, TypeOK
<1>1. CASE ReadDead(w)
  BY <1>1 DEF ReadDead, rowVars
<1>2. ASSUME NEW j \in Job, Swept(w)[j] = "completed" PROVE status[j] = "completed"
  BY <1>2 DEF Swept, Reclaimed
<1>3. CASE ClaimNothing(w)
  BY <1>2, <1>3 DEF ClaimNothing
<1>4. CASE Claim(w)
  <2>1. PICK i \in Ready(w) :
          status' = [Swept(w) EXCEPT ![i] = "processing"] /\ job' = [job EXCEPT ![w] = i]
    BY <1>4 DEF Claim
  <2>2. pc[w] = "claiming" /\ pc' = [pc EXCEPT ![w] = "running"]
    BY <1>4 DEF Claim
  <2>3. DOMAIN Swept(w) = Job
    BY DEF Swept
  <2>4. ASSUME NEW j \in Job, status'[j] = "completed" PROVE status[j] = "completed"
    <3>1. Swept(w)[j] = "completed"
      BY <2>1, <2>3, <2>4
    <3> QED
      BY <1>2, <3>1
  <2> QED
    BY <2>1, <2>2, <2>4
<1>5. CASE Retry(w)
  BY <1>5 DEF Retry
<1>6. CASE GiveUp(w)
  BY <1>6 DEF GiveUp
<1> QED
  BY <1>1, <1>3, <1>4, <1>5, <1>6

LEMMA QueueStepKeeps ==
  ASSUME WorkerPipelineInv, QueueInv', NEW w \in Worker, QueueStep(w)
  PROVE  WorkerPipelineInv'
<1>1. UNCHANGED <<pipeVars, historyVars, stops>>
  BY DEF QueueStep
<1>2. /\ pc[w] # "running"
      /\ \A v \in Worker : v # w => pc'[v] = pc[v] /\ job'[v] = job[v]
      /\ \A j \in Job : status'[j] = "completed" => status[j] = "completed"
  BY LoopSteps DEF QueueStep
<1>3. run[w] = "free"
  BY <1>2 DEF WorkerPipelineInv, HandlerInv
<1>4. HandlerInv' /\ EndsInv' /\ CompletedForCause'
  BY <1>1, <1>2, <1>3
     DEF WorkerPipelineInv, HandlerInv, EndsInv, CompletedForCause, pipeVars, runVars, historyVars
<1>5. PipeTypeOK' /\ StageInv' /\ RunningRowsHeld'
  BY <1>1 DEF WorkerPipelineInv, PipeTypeOK, StageInv, InStage, RunningRowsHeld, pipeVars,
              runVars, historyVars
<1> QED
  BY <1>4, <1>5 DEF WorkerPipelineInv

LEMMA LaunchKeeps ==
  ASSUME WorkerPipelineInv, QueueInv', NEW w \in Worker, Launch(w)
  PROVE  WorkerPipelineInv'
<1>1. /\ pc[w] = "running" /\ run[w] = "free"
      /\ run' = [run EXCEPT ![w] = "created"]
      /\ state' = [state EXCEPT ![w] = "RUNNING"]
      /\ UNCHANGED <<pc, job, status, at, stages, rows, concluded, stopped, orphaned>>
  BY DEF Launch, vars, rowVars, workerVars, historyVars
<1>2. PipeTypeOK'
  BY <1>1 DEF WorkerPipelineInv, PipeTypeOK, Pipe!Control, Pipe!RunStates
<1>3. HandlerInv' /\ EndsInv'
  BY <1>1 DEF WorkerPipelineInv, PipeTypeOK, HandlerInv, EndsInv
<1>4. StageInv' /\ RunningRowsHeld'
  BY <1>1 DEF WorkerPipelineInv, PipeTypeOK, StageInv, InStage, RunningRowsHeld
<1>5. CompletedForCause'
  BY <1>1 DEF WorkerPipelineInv, CompletedForCause
<1> QED
  BY <1>2, <1>3, <1>4, <1>5 DEF WorkerPipelineInv

LEMMA PipelineKeeps ==
  ASSUME WorkerPipelineInv, QueueInv', NEW w \in Worker, PipelineStep(w)
  PROVE  WorkerPipelineInv'
<1>1. PipelineEffect(w)
  BY PipelineStepEffect
<1>2. UNCHANGED <<pc, job, status, concluded, stopped, orphaned>>
  BY DEF PipelineStep, vars, rowVars, workerVars, historyVars
<1>3. \A v \in Worker : v # w =>
        /\ run'[v] = run[v] /\ at'[v] = at[v] /\ stages'[v] = stages[v] /\ state'[v] = state[v]
  BY <1>1 DEF PipelineEffect, WorkerPipelineInv, PipeTypeOK
<1>4. run'[w] \in {"executing", "returned", "raised"}
  BY <1>1 DEF PipelineEffect, WorkerPipelineInv, PipeTypeOK
<1>5. PipeTypeOK'
  BY <1>1 DEF PipelineEffect, WorkerPipelineInv, PipeTypeOK, Pipe!Control
<1>6. HandlerInv'
  BY <1>1, <1>2, <1>3 DEF PipelineEffect, WorkerPipelineInv, HandlerInv
<1>7. EndsInv'
  BY <1>1, <1>2, <1>3, <1>4 DEF PipelineEffect, WorkerPipelineInv, EndsInv
<1>8. StageInv'
  BY <1>1, <1>3, <1>4 DEF PipelineEffect, WorkerPipelineInv, StageInv, InStage
<1>9. RunningRowsHeld'
  <2> SUFFICES ASSUME NEW s \in Stage, rows'[s] = "RUNNING", s \notin orphaned
               PROVE  \E v \in Worker : run'[v] \in {"executing", "cancelling"} /\ at'[v] = s
    BY <1>2 DEF RunningRowsHeld
  <2>1. CASE run'[w] = "executing" /\ at'[w] = s
    BY <2>1
  <2>2. CASE rows[s] = "RUNNING" /\ ~(InStage(w) /\ at[w] = s)
    <3>1. PICK v \in Worker : run[v] \in {"executing", "cancelling"} /\ at[v] = s
      BY <2>2 DEF WorkerPipelineInv, RunningRowsHeld
    <3>2. v # w
      BY <2>2, <3>1 DEF InStage
    <3> QED
      BY <1>3, <3>1, <3>2
  <2> QED
    BY <1>1, <2>1, <2>2 DEF PipelineEffect
<1>10. CompletedForCause'
  BY <1>2 DEF WorkerPipelineInv, CompletedForCause
<1> QED
  BY <1>5, <1>6, <1>7, <1>8, <1>9, <1>10 DEF WorkerPipelineInv

(* An orchestrator is only forgotten outside its stages, or by a process   *)
(* whose death is on record.                                               *)
LEMMA DiscardKeeps ==
  ASSUME WorkerPipelineInv, NEW w \in Worker, Discard(w), rows' = rows,
         orphaned \subseteq orphaned', InStage(w) => at[w] \in orphaned',
         stopped' = stopped,
         \A v \in Worker : v # w => pc'[v] = pc[v] /\ job'[v] = job[v]
  PROVE  PipeTypeOK' /\ HandlerInv' /\ EndsInv' /\ StageInv' /\ RunningRowsHeld'
<1>1. /\ run' = [run EXCEPT ![w] = "free"] /\ at' = [at EXCEPT ![w] = 0]
      /\ stages' = [stages EXCEPT ![w] = Fresh] /\ state' = [state EXCEPT ![w] = "IDLE"]
  BY DEF Discard
<1>2. Fresh \in [Stage -> StageStatus] /\ \A s \in Stage : Fresh[s] # "RUNNING"
  BY DEF Fresh, StageStatus
<1>3. PipeTypeOK'
  BY <1>1, <1>2, GraphAssumption
     DEF WorkerPipelineInv, PipeTypeOK, Pipe!Control, Pipe!RunStates
<1>4. /\ run'[w] = "free" /\ stages'[w] = Fresh
      /\ \A v \in Worker : v # w =>
           run'[v] = run[v] /\ at'[v] = at[v] /\ stages'[v] = stages[v] /\ state'[v] = state[v]
  BY <1>1 DEF WorkerPipelineInv, PipeTypeOK
<1>5. HandlerInv' /\ EndsInv'
  BY <1>4 DEF WorkerPipelineInv, HandlerInv, EndsInv
<1>6. StageInv'
  BY <1>2, <1>4 DEF WorkerPipelineInv, StageInv, InStage
<1>7. RunningRowsHeld'
  BY <1>4 DEF WorkerPipelineInv, RunningRowsHeld, InStage
<1> QED
  BY <1>3, <1>5, <1>6, <1>7

LEMMA FinishKeeps ==
  ASSUME WorkerPipelineInv, QueueInv', NEW w \in Worker, Finish(w)
  PROVE  WorkerPipelineInv'
<1>1. /\ run[w] \in {"returned", "raised", "aborting"} /\ Discard(w)
      /\ pc' = [pc EXCEPT ![w] = "idle"] /\ job' = [job EXCEPT ![w] = 0]
      /\ status' = [status EXCEPT ![job[w]] = "completed"]
      /\ concluded' = concluded \cup (IF state[w] \in Verdicts THEN {job[w]} ELSE {})
      /\ rows' = rows /\ stopped' = stopped /\ orphaned' = orphaned
  BY DEF Finish, Complete
<1>2. \A v \in Worker : v # w => pc'[v] = pc[v] /\ job'[v] = job[v]
  BY <1>1 DEF WorkerPipelineInv, QueueInv, TypeOK
<1>3. PipeTypeOK' /\ HandlerInv' /\ EndsInv' /\ StageInv' /\ RunningRowsHeld'
  BY <1>1, <1>2, DiscardKeeps DEF InStage
<1>4. job[w] \in concluded' \cup stopped'
  BY <1>1 DEF WorkerPipelineInv, EndsInv
<1>5. CompletedForCause'
  BY <1>1, <1>4 DEF WorkerPipelineInv, QueueInv, TypeOK, CompletedForCause
<1> QED
  BY <1>3, <1>5 DEF WorkerPipelineInv

LEMMA FailKeeps ==
  ASSUME WorkerPipelineInv, QueueInv', NEW w \in Worker, Fail(w)
  PROVE  WorkerPipelineInv'
<1>1. /\ run[w] \in {"free", "returned", "raised", "aborting"} /\ Discard(w)
      /\ pc' = [pc EXCEPT ![w] = "failing"]
      /\ UNCHANGED <<status, job, rows, concluded, stopped, orphaned>>
  BY DEF Fail, ReadRetries, rowVars, historyVars
<1>2. \A v \in Worker : v # w => pc'[v] = pc[v] /\ job'[v] = job[v]
  BY <1>1 DEF WorkerPipelineInv, QueueInv, TypeOK
<1>3. PipeTypeOK' /\ HandlerInv' /\ EndsInv' /\ StageInv' /\ RunningRowsHeld'
  BY <1>1, <1>2, DiscardKeeps DEF InStage
<1>4. CompletedForCause'
  BY <1>1 DEF WorkerPipelineInv, CompletedForCause
<1> QED
  BY <1>3, <1>4 DEF WorkerPipelineInv

LEMMA DieKeeps ==
  ASSUME WorkerPipelineInv, QueueInv', NEW w \in Worker, Die(w)
  PROVE  WorkerPipelineInv'
<1>1. /\ Discard(w)
      /\ pc' = [pc EXCEPT ![w] = "idle"] /\ job' = [job EXCEPT ![w] = 0]
      /\ UNCHANGED <<status, rows, concluded, stopped>>
      /\ orphaned' = orphaned \cup (IF run[w] \in {"executing", "cancelling"} THEN {at[w]} ELSE {})
  BY DEF Die, Crash, rowVars
<1>2. \A v \in Worker : v # w => pc'[v] = pc[v] /\ job'[v] = job[v]
  BY <1>1 DEF WorkerPipelineInv, QueueInv, TypeOK
<1>3. orphaned \subseteq orphaned' /\ (InStage(w) => at[w] \in orphaned')
  BY <1>1 DEF InStage
<1>4. PipeTypeOK' /\ HandlerInv' /\ EndsInv' /\ StageInv' /\ RunningRowsHeld'
  BY <1>1, <1>2, <1>3, DiscardKeeps
<1>5. CompletedForCause'
  BY <1>1 DEF WorkerPipelineInv, CompletedForCause
<1> QED
  BY <1>4, <1>5 DEF WorkerPipelineInv

LEMMA StopKeeps ==
  ASSUME WorkerPipelineInv, QueueInv', NEW w \in Worker, Stop(w)
  PROVE  WorkerPipelineInv'
<1>1. /\ run[w] \in {"created", "executing"}
      /\ run' = [run EXCEPT ![w] = Pipe!Interrupted(@)]
      /\ stopped' = stopped \cup {job[w]}
      /\ UNCHANGED <<pc, job, status, at, stages, state, rows, concluded, orphaned>>
  BY DEF Stop, Pipe!Interrupt, vars, rowVars, workerVars
<1>2. /\ run[w] = "created" => run' = [run EXCEPT ![w] = "aborting"]
      /\ run[w] = "executing" => run' = [run EXCEPT ![w] = "cancelling"]
  BY <1>1 DEF Pipe!Interrupted
<1>3. /\ \/ run'[w] = "aborting" /\ run[w] = "created"
         \/ run'[w] = "cancelling" /\ run[w] = "executing"
      /\ \A v \in Worker : v # w => run'[v] = run[v]
  BY <1>1, <1>2 DEF WorkerPipelineInv, PipeTypeOK
<1>4. PipeTypeOK'
  BY <1>1, <1>2 DEF WorkerPipelineInv, PipeTypeOK, Pipe!Control
<1>5. HandlerInv' /\ EndsInv'
  BY <1>1, <1>3 DEF WorkerPipelineInv, HandlerInv, EndsInv
<1>6. StageInv' /\ RunningRowsHeld'
  BY <1>1, <1>3 DEF WorkerPipelineInv, StageInv, InStage, RunningRowsHeld
<1>7. CompletedForCause'
  BY <1>1 DEF WorkerPipelineInv, CompletedForCause
<1> QED
  BY <1>4, <1>5, <1>6, <1>7 DEF WorkerPipelineInv

LEMMA OthersKeep ==
  ASSUME WorkerPipelineInv, QueueInv', NEW j \in Job, Lapse(j) \/ ApiStep(j)
  PROVE  WorkerPipelineInv'
<1>1. /\ UNCHANGED <<pc, job, run, at, stages, state, rows, concluded, stopped, orphaned>>
      /\ \E x \in JobStatus \ {"completed"} : status' = [status EXCEPT ![j] = x] \/ status' = status
  BY DEF Lapse, ApiStep, LeaseEnds, CountJobs, Insert, CancelJob, workerVars, pipeVars,
         runVars, historyVars, JobStatus, Terminal
<1>2. \A k \in Job : status'[k] = "completed" => status[k] = "completed"
  BY <1>1 DEF WorkerPipelineInv, QueueInv, TypeOK
<1>3. CompletedForCause'
  BY <1>1, <1>2 DEF WorkerPipelineInv, CompletedForCause
<1>4. PipeTypeOK' /\ HandlerInv' /\ EndsInv' /\ StageInv' /\ RunningRowsHeld'
  BY <1>1 DEF WorkerPipelineInv, PipeTypeOK, HandlerInv, EndsInv, StageInv, InStage,
              RunningRowsHeld
<1> QED
  BY <1>3, <1>4 DEF WorkerPipelineInv

LEMMA WorkerPipelineInit == SystemInit => WorkerPipelineInv
<1> SUFFICES ASSUME SystemInit PROVE WorkerPipelineInv
  OBVIOUS
<1>1. QueueInv
  BY QueueInitInv DEF SystemInit
<1>2. PipeTypeOK
  BY GraphAssumption
     DEF SystemInit, PipeTypeOK, Pipe!Control, Pipe!RunStates, Fresh, StageStatus
<1>3. HandlerInv /\ EndsInv /\ StageInv
  BY DEF SystemInit, HandlerInv, EndsInv, StageInv, InStage, Fresh
<1>4. CompletedForCause /\ RunningRowsHeld
  BY DEF SystemInit, Init, CompletedForCause, RunningRowsHeld
<1> QED
  BY <1>1, <1>2, <1>3, <1>4 DEF WorkerPipelineInv

LEMMA WorkerPipelineStep ==
  WorkerPipelineInv /\ [SystemNext]_workerPipelineVars => WorkerPipelineInv'
<1> SUFFICES ASSUME WorkerPipelineInv, [SystemNext]_workerPipelineVars
             PROVE  WorkerPipelineInv'
  OBVIOUS
<1>0. QueueInv'
  BY QueueKeeps
<1>1. CASE UNCHANGED workerPipelineVars
  BY <1>0, <1>1
     DEF workerPipelineVars, vars, rowVars, workerVars, pipeVars, runVars, historyVars,
         WorkerPipelineInv, PipeTypeOK, HandlerInv, EndsInv, StageInv, InStage,
         CompletedForCause, RunningRowsHeld
<1>2. ASSUME NEW w \in Worker, QueueStep(w) \/ HandlerStep(w) \/ Stop(w) \/ Die(w)
      PROVE  WorkerPipelineInv'
  BY <1>0, <1>2, QueueStepKeeps, LaunchKeeps, PipelineKeeps, FinishKeeps, FailKeeps, StopKeeps,
     DieKeeps DEF HandlerStep
<1> QED
  BY <1>0, <1>1, <1>2, OthersKeep DEF SystemNext

(* The queue's rows, the workers' loops, their pipelines and the stage     *)
(* rows fit together in every reachable state.                             *)
THEOREM WorkerPipelineInvariant == SystemSpec => []WorkerPipelineInv
BY WorkerPipelineInit, WorkerPipelineStep, PTL DEF SystemSpec

(* However often leases run out, processes die or are stopped, a job is    *)
(* only completed on a verdict of its pipeline or on a stop of its worker. *)
THEOREM JobsCompletedForCause == SystemSpec => []CompletedForCause
<1>1. WorkerPipelineInv => CompletedForCause
  BY DEF WorkerPipelineInv
<1> QED
  BY <1>1, WorkerPipelineInvariant, PTL

(* However many workers are at one incident, no row is left RUNNING but by *)
(* a process that is in that stage or has died in it.                      *)
THEOREM RunningRowsAreHeld == SystemSpec => []RunningRowsHeld
<1>1. WorkerPipelineInv => RunningRowsHeld
  BY DEF WorkerPipelineInv
<1> QED
  BY <1>1, WorkerPipelineInvariant, PTL

-----------------------------------------------------------------------------
(* A job whose lease has never run out: no other process takes it for dead *)
(* or has it, and while it waits none has.                                 *)
Lone(j) ==
  /\ ~overdue[j]
  /\ \A w \in Worker : j \notin dead[w]
  /\ \A w \in Worker : j \in budget[w] => pc[w] = "failing" /\ job[w] = j
  /\ \A v, w \in Worker : job[v] = j /\ job[w] = j => v = w
  /\ status[j] \in {"new", "counted", "queued"} => \A w \in Worker : job[w] # j

LoneInv == \A j \in Job : j \notin lapsed => Lone(j)

(* Two processes have the same job only if its lease has run out.          *)
LoneRunner ==
  \A v, w \in Worker : job[v] = job[w] /\ job[v] # 0 => v = w \/ job[v] \in lapsed

LEMMA SweptLone ==
  ASSUME NEW j \in Job, Lone(j), NEW w \in Worker, pc[w] = "claiming"
  PROVE  /\ j \notin budget[w]
         /\ Swept(w)[j] = status[j] \/ Swept(w)[j] = "dead_letter"
         /\ status[j] # "queued" => Swept(w)[j] = status[j]
<1>1. j \notin budget[w] /\ j \notin dead[w]
  BY DEF Lone
<1> QED
  BY <1>1 DEF Swept, Reclaimed

LEMMA ClaimKeepsLone ==
  ASSUME QueueInv, NEW j \in Job, Lone(j), NEW w \in Worker, Claim(w) PROVE Lone(j)'
<1>1. PICK i \in Ready(w) :
        /\ status' = [Swept(w) EXCEPT ![i] = "processing"]
        /\ overdue' = [k \in Job |-> overdue[k] /\ k \notin budget[w] \cup {i}]
        /\ job' = [job EXCEPT ![w] = i]
  BY DEF Claim
<1>2. pc[w] = "claiming" /\ pc' = [pc EXCEPT ![w] = "running"] /\ Forget(w)
  BY DEF Claim
<1>3. i \in Job /\ Swept(w)[i] = "queued" /\ Swept(w) \in [Job -> JobStatus]
  BY <1>2, SweptFacts DEF Ready
<1>4. /\ job'[w] = i /\ pc'[w] = "running" /\ dead'[w] = {} /\ budget'[w] = {}
      /\ \A v \in Worker : v # w => /\ job'[v] = job[v] /\ pc'[v] = pc[v]
                                    /\ dead'[v] = dead[v] /\ budget'[v] = budget[v]
  BY <1>1, <1>2 DEF Forget, QueueInv, TypeOK
<1>5. ~overdue'[j] /\ (\A v \in Worker : j \notin dead'[v])
  BY <1>1, <1>4 DEF Lone
<1>6. \A v \in Worker : j \in budget'[v] => pc'[v] = "failing" /\ job'[v] = j
  BY <1>4 DEF Lone
<1>7. CASE i = j
  <2>1. status[j] = "queued"
    BY <1>2, <1>3, <1>7, SweptLone
  <2>2. \A v \in Worker : job[v] # j
    BY <2>1 DEF Lone
  <2>3. \A v \in Worker : job'[v] = j => v = w
    BY <1>4, <2>2
  <2>4. status'[j] = "processing"
    BY <1>1, <1>3, <1>7
  <2> QED
    BY <1>5, <1>6, <2>3, <2>4 DEF Lone
<1>8. CASE i # j
  <2>1. \A v \in Worker : job'[v] = j => v # w /\ job[v] = j
    BY <1>4, <1>8
  <2>2. status'[j] = status[j] \/ status'[j] = "dead_letter"
    BY <1>1, <1>2, <1>3, <1>8, SweptLone
  <2> QED
    BY <1>5, <1>6, <2>1, <2>2 DEF Lone
<1> QED
  BY <1>7, <1>8

LEMMA LoopKeepsLone ==
  ASSUME QueueInv, NEW j \in Job, Lone(j), NEW w \in Worker,
         ReadDead(w) \/ ClaimNothing(w) \/ Retry(w) \/ GiveUp(w)
  PROVE  Lone(j)'
<1> USE DEF QueueInv, TypeOK
<1>1. CASE ReadDead(w)
  BY <1>1 DEF ReadDead, Lone, rowVars
<1>2. CASE ClaimNothing(w)
  <2>1. pc[w] = "claiming" /\ status' = Swept(w) /\ job' = job
    BY <1>2 DEF ClaimNothing
  <2>2. status'[j] = status[j] \/ status'[j] = "dead_letter"
    BY <2>1, SweptLone
  <2> QED
    BY <1>2, <2>1, <2>2 DEF ClaimNothing, Forget, Lone
<1>3. CASE Retry(w)
  BY <1>3, QueueAssumption DEF Retry, Forget, Lone, WorkersInv, Job
<1>4. CASE GiveUp(w)
  BY <1>4, QueueAssumption DEF GiveUp, Lone, WorkersInv, Job
<1> QED
  BY <1>1, <1>2, <1>3, <1>4

LEMMA HandlerKeepsLone ==
  ASSUME QueueInv, NEW j \in Job, Lone(j), NEW w \in Worker,
         Complete(w) \/ ReadRetries(w) \/ Crash(w)
  PROVE  Lone(j)'
<1> USE DEF QueueInv, TypeOK
<1>1. CASE Complete(w)
  BY <1>1 DEF Complete, Lone, WorkersInv, Job
<1>2. CASE ReadRetries(w)
  BY <1>2 DEF ReadRetries, Lone, rowVars
<1>3. CASE Crash(w)
  BY <1>3 DEF Crash, Forget, Lone, rowVars, Job
<1> QED
  BY <1>1, <1>2, <1>3

LEMMA ApiKeepsLone ==
  ASSUME QueueInv, NEW j \in Job, Lone(j), NEW k \in Job,
         CountJobs(k) \/ Insert(k) \/ CancelJob(k) \/ (LeaseEnds(k) /\ k # j)
  PROVE  Lone(j)'
<1> USE DEF QueueInv, TypeOK, workerVars
<1>1. CASE CountJobs(k)
  BY <1>1 DEF CountJobs, Lone
<1>2. CASE Insert(k)
  BY <1>2 DEF Insert, Lone
<1>3. CASE CancelJob(k)
  BY <1>3 DEF CancelJob, Lone
<1>4. CASE LeaseEnds(k) /\ k # j
  BY <1>4 DEF LeaseEnds, Lone
<1> QED
  BY <1>1, <1>2, <1>3, <1>4

LEMMA LoneStep ==
  WorkerPipelineInv /\ LoneInv /\ [SystemNext]_workerPipelineVars => LoneInv'
<1> SUFFICES ASSUME WorkerPipelineInv, LoneInv, [SystemNext]_workerPipelineVars,
                    NEW j \in Job, j \notin lapsed'
             PROVE  Lone(j)'
  BY DEF LoneInv
<1>0. QueueInv
  BY DEF WorkerPipelineInv
<1>1. CASE lapsed' = lapsed /\ UNCHANGED vars
  BY <1>1 DEF LoneInv, Lone, vars, rowVars, workerVars
<1>2. ASSUME NEW w \in Worker, QueueStep(w) PROVE Lone(j)'
  BY <1>0, <1>2, ClaimKeepsLone, LoopKeepsLone DEF QueueStep, LoneInv, historyVars
<1>3. ASSUME NEW w \in Worker, Finish(w) \/ Fail(w) \/ Die(w) PROVE Lone(j)'
  BY <1>0, <1>3, HandlerKeepsLone DEF Finish, Fail, Die, LoneInv, historyVars
<1>4. ASSUME NEW k \in Job, Lapse(k) \/ ApiStep(k) PROVE Lone(j)'
  BY <1>0, <1>4, ApiKeepsLone DEF Lapse, ApiStep, LoneInv, historyVars
<1>5. ASSUME NEW w \in Worker, Launch(w) \/ PipelineStep(w) \/ Stop(w) PROVE Lone(j)'
  BY <1>1, <1>5 DEF Launch, PipelineStep, Stop, historyVars
<1>6. CASE UNCHANGED workerPipelineVars
  BY <1>1, <1>6 DEF workerPipelineVars, historyVars
<1> QED
  BY <1>2, <1>3, <1>4, <1>5, <1>6 DEF SystemNext, HandlerStep

LEMMA LoneInit == SystemInit => LoneInv
BY DEF SystemInit, Init, LoneInv, Lone, Job

(* Two processes work on one job only when its lease has run out, however  *)
(* many processes there are and whoever dies, is stopped or retries.       *)
THEOREM JobsHaveOneRunner == SystemSpec => []LoneRunner
<1>1. WorkerPipelineInv /\ LoneInv => LoneRunner
  BY DEF WorkerPipelineInv, QueueInv, TypeOK, LoneInv, Lone, LoneRunner
<1> QED
  BY <1>1, LoneInit, LoneStep, WorkerPipelineInvariant, PTL DEF SystemSpec

(* The row of a job whose lease has never run out names the worker that    *)
(* has it, and says that it is at work unless the API has cancelled it.    *)
Own(j) ==
  \A w \in Worker : job[w] = j => owner[j] = w /\ status[j] \in {"processing", "cancelled"}

OwnInv == \A j \in Job : j \notin lapsed => Own(j)

LEMMA ClaimKeepsOwn ==
  ASSUME QueueInv, NEW j \in Job, Lone(j), Own(j), NEW w \in Worker, Claim(w)
  PROVE  /\ Own(j)'
         /\ status[j] = "processing" => owner'[j] = owner[j]
<1>1. PICK i \in Ready(w) :
        /\ status' = [Swept(w) EXCEPT ![i] = "processing"]
        /\ owner' = [k \in Job |-> IF k = i THEN w
                                   ELSE IF k \in budget[w] THEN NoWorker ELSE owner[k]]
        /\ job' = [job EXCEPT ![w] = i]
  BY DEF Claim
<1>2. /\ pc[w] = "claiming" /\ j \notin budget[w]
      /\ i \in Job /\ Swept(w)[i] = "queued" /\ Swept(w) \in [Job -> JobStatus]
  BY SweptFacts, SweptLone DEF Claim, Ready
<1>3. job'[w] = i /\ \A v \in Worker : v # w => job'[v] = job[v]
  BY <1>1 DEF QueueInv, TypeOK
<1>4. CASE i = j
  <2>1. status[j] = "queued"
    BY <1>2, <1>4, SweptLone
  <2>2. \A v \in Worker : job'[v] = j => v = w
    BY <1>3, <2>1 DEF Lone
  <2>3. owner'[j] = w /\ status'[j] = "processing"
    BY <1>1, <1>2, <1>4
  <2> QED
    BY <2>1, <2>2, <2>3 DEF Own
<1>5. CASE i # j
  <2>1. owner'[j] = owner[j] /\ status'[j] = Swept(w)[j]
    BY <1>1, <1>2, <1>5
  <2>2. status[j] \in {"processing", "cancelled"} => status'[j] = status[j]
    BY <1>2, <2>1, SweptLone
  <2> QED
    BY <1>3, <1>5, <2>1, <2>2 DEF Own
<1> QED
  BY <1>4, <1>5

LEMMA LoopKeepsOwn ==
  ASSUME QueueInv, NEW j \in Job, Lone(j), Own(j), NEW w \in Worker,
         ReadDead(w) \/ ClaimNothing(w) \/ Retry(w) \/ GiveUp(w)
  PROVE  /\ Own(j)'
         /\ status[j] = "processing" /\ status'[j] = "processing" => owner'[j] = owner[j]
<1> USE DEF QueueInv, TypeOK
<1>1. CASE ReadDead(w)
  BY <1>1 DEF ReadDead, Own, rowVars
<1>2. CASE ClaimNothing(w)
  <2>1. /\ pc[w] = "claiming" /\ status' = Swept(w) /\ job' = job
        /\ owner' = [k \in Job |-> IF k \in budget[w] THEN NoWorker ELSE owner[k]]
    BY <1>2 DEF ClaimNothing
  <2>2. /\ owner'[j] = owner[j]
        /\ status[j] \in {"processing", "cancelled"} => status'[j] = status[j]
    BY <2>1, SweptLone
  <2> QED
    BY <2>1, <2>2 DEF Own
<1>3. CASE Retry(w) \/ GiveUp(w)
  <2>1. job[w] \in Job /\ job'[w] = 0 /\ \A v \in Worker : v # w => job'[v] = job[v]
    BY <1>3 DEF Retry, GiveUp, WorkersInv
  <2>2. job[w] # j => owner'[j] = owner[j] /\ status'[j] = status[j]
    BY <1>3 DEF Retry, GiveUp
  <2>3. ASSUME job[w] = j PROVE \A v \in Worker : job'[v] # j
    BY <2>1, <2>3 DEF Lone, Job
  <2>4. job[w] = j => status'[j] # "processing"
    BY <1>3 DEF Retry, GiveUp
  <2> QED
    BY <2>1, <2>2, <2>3, <2>4 DEF Own, Job
<1> QED
  BY <1>1, <1>2, <1>3

LEMMA HandlerKeepsOwn ==
  ASSUME QueueInv, NEW j \in Job, Lone(j), Own(j), NEW w \in Worker,
         Complete(w) \/ ReadRetries(w) \/ Crash(w)
  PROVE  Own(j)' /\ owner' = owner
<1> USE DEF QueueInv, TypeOK
<1>1. CASE Complete(w)
  <2>1. job[w] \in Job /\ job'[w] = 0 /\ \A v \in Worker : v # w => job'[v] = job[v]
    BY <1>1 DEF Complete, WorkersInv
  <2>2. owner' = owner /\ (job[w] # j => status'[j] = status[j])
    BY <1>1 DEF Complete
  <2> QED
    BY <2>1, <2>2 DEF Own, Lone, Job
<1>2. CASE ReadRetries(w)
  BY <1>2 DEF ReadRetries, Own, rowVars
<1>3. CASE Crash(w)
  BY <1>3 DEF Crash, Own, rowVars, Job
<1> QED
  BY <1>1, <1>2, <1>3

LEMMA ApiKeepsOwn ==
  ASSUME QueueInv, NEW j \in Job, Own(j), NEW k \in Job,
         CountJobs(k) \/ Insert(k) \/ CancelJob(k) \/ LeaseEnds(k)
  PROVE  Own(j)' /\ owner' = owner
BY DEF QueueInv, TypeOK, workerVars, CountJobs, Insert, CancelJob, LeaseEnds, Own

LEMMA OwnStep ==
  ASSUME WorkerPipelineInv, LoneInv, OwnInv, [SystemNext]_workerPipelineVars,
         NEW j \in Job, j \notin lapsed'
  PROVE  /\ Own(j)'
         /\ status[j] = "processing" /\ status'[j] = "processing" => owner'[j] = owner[j]
<1>0. QueueInv /\ (j \notin lapsed => Lone(j) /\ Own(j))
  BY DEF WorkerPipelineInv, LoneInv, OwnInv
<1>1. CASE lapsed' = lapsed /\ UNCHANGED vars
  BY <1>0, <1>1 DEF Own, vars, rowVars, workerVars
<1>2. ASSUME NEW w \in Worker, QueueStep(w)
      PROVE  /\ Own(j)'
             /\ status[j] = "processing" /\ status'[j] = "processing" => owner'[j] = owner[j]
  BY <1>0, <1>2, ClaimKeepsOwn, LoopKeepsOwn DEF QueueStep, historyVars
<1>3. ASSUME NEW w \in Worker, Finish(w) \/ Fail(w) \/ Die(w) PROVE Own(j)' /\ owner' = owner
  BY <1>0, <1>3, HandlerKeepsOwn DEF Finish, Fail, Die, historyVars
<1>4. ASSUME NEW k \in Job, Lapse(k) \/ ApiStep(k) PROVE Own(j)' /\ owner' = owner
  BY <1>0, <1>4, ApiKeepsOwn DEF Lapse, ApiStep, historyVars
<1>5. ASSUME NEW w \in Worker, Launch(w) \/ PipelineStep(w) \/ Stop(w)
      PROVE  lapsed' = lapsed /\ UNCHANGED vars
  BY <1>5 DEF Launch, PipelineStep, Stop, historyVars
<1>6. CASE UNCHANGED workerPipelineVars
  BY <1>1, <1>6 DEF workerPipelineVars, historyVars
<1> QED
  BY <1>1, <1>2, <1>3, <1>4, <1>5, <1>6 DEF SystemNext, HandlerStep

LEMMA OwnInit == SystemInit => OwnInv
BY DEF SystemInit, Init, OwnInv, Own, Job

(* What a worker writes to a job's row, it writes to its own job: complete *)
(* and fail look at neither status nor worker, and until the lease of the  *)
(* job has run out they need not.                                          *)
THEOREM WorkersOwnTheirJobs == SystemSpec => []OwnInv
<1>1. WorkerPipelineInv /\ LoneInv /\ OwnInv /\ [SystemNext]_workerPipelineVars => OwnInv'
  BY OwnStep DEF OwnInv
<1> QED
  BY <1>1, OwnInit, LoneInit, LoneStep, WorkerPipelineInvariant, PTL DEF SystemSpec

(* A job that is being processed stays with the worker that claimed it.    *)
LeasesHold ==
  [][\A j \in Job : j \notin lapsed' /\ status[j] = "processing" /\ status'[j] = "processing"
       => owner'[j] = owner[j]]_workerPipelineVars

(* "Multi-process safe", as far as it is true: a job that is being         *)
(* processed changes hands only after its lease has run out once.          *)
THEOREM LeasesAreHeld == SystemSpec => LeasesHold
<1>1. WorkerPipelineInv /\ LoneInv /\ OwnInv /\ [SystemNext]_workerPipelineVars
      => [\A j \in Job : j \notin lapsed' /\ status[j] = "processing" /\ status'[j] = "processing"
            => owner'[j] = owner[j]]_workerPipelineVars
  BY OwnStep
<1> QED
  BY <1>1, WorkersOwnTheirJobs, LoneInit, LoneStep, WorkerPipelineInvariant, PTL
     DEF SystemSpec, LeasesHold

-----------------------------------------------------------------------------
(* Stages run in order: those before the one that is running ended well,   *)
(* those behind it have not started.                                       *)
Ordered(st, a) ==
  \A s \in Stage :
    /\ s < a => st[s] \in IF s \in Required THEN {"SUCCESS"} ELSE {"SUCCESS", "DEGRADED"}
    /\ s = a => st[s] = "RUNNING"
    /\ s > a => st[s] = "NOT_STARTED"

OrderInv ==
  \A w \in Worker : /\ run[w] \in {"free", "created"} => stages[w] = Fresh
                    /\ run[w] = "executing" => Ordered(stages[w], at[w])

(* The rows are those of the pipeline of w: of the stages it has entered,  *)
(* and at its verdict of all.                                              *)
Mirrors(w) ==
  /\ run[w] = "executing" => \A s \in 1 .. at[w] : rows[s] = stages[w][s]
  /\ run[w] = "returned" => rows = stages[w]

MirrorInv == NumJobs = 1 => \A w \in Worker : job[w] \notin lapsed => Mirrors(w)

LEMMA SameBlocking ==
  ASSUME NEW st, NEW s \in Stage PROVE Pipe!BlockDependents(st, s) = BlockDependents(st, s)
<1>1. Pipe!Ancestors = Ancestors
  BY SameStages DEF Pipe!Ancestors, Ancestors
<1>2. Pipe!Dependents(s) = Dependents(s)
  BY <1>1, SameStages DEF Pipe!Dependents, Dependents
<1> QED
  BY <1>2, SameStages DEF Pipe!BlockDependents, BlockDependents

LEMMA StageNumbers == \A s \in Stage : s \in Nat /\ s >= 1 /\ s <= NumStages
BY GraphAssumption DEF Stage

(* A verdict that leaves no later stage waiting brings the rows up to date. *)
LEMMA ReturnMirrors ==
  ASSUME WorkerPipelineInv, NEW w \in Worker, run[w] = "executing",
         Ordered(stages[w], at[w]), Mirrors(w),
         NEW st \in [Stage -> StageStatus], stages' = [stages EXCEPT ![w] = st],
         run' = [run EXCEPT ![w] = "returned"], Pipe!PersistChanges(w),
         \A s \in Stage : s > at[w] => st[s] # "NOT_STARTED"
  PROVE  Mirrors(w)'
<1>1. at[w] \in Stage /\ stages'[w] = st /\ run'[w] = "returned"
  BY DEF WorkerPipelineInv, PipeTypeOK, StageInv, InStage
<1>2. rows' = [s \in Stage |-> IF st[s] # stages[w][s] THEN st[s] ELSE rows[s]]
  BY <1>1, SameStages DEF Pipe!PersistChanges
<1>3. ASSUME NEW s \in Stage, st[s] = stages[w][s] PROVE rows[s] = st[s]
  <2>1. ~(s > at[w])
    BY <1>3 DEF Ordered
  <2>2. s \in 1 .. at[w]
    BY <1>1, <2>1, StageNumbers
  <2> QED
    BY <1>3, <2>2 DEF Mirrors
<1>4. rows' = st
  <2>1. rows' = [s \in Stage |-> st[s]]
    BY <1>2, <1>3
  <2> QED
    BY <2>1
<1> QED
  BY <1>1, <1>4 DEF Mirrors

(* What a step of the pipeline of w does to the order and the mirror.      *)
OrderEffect(w) ==
  /\ run'[w] \notin {"free", "created"}
  /\ run'[w] = "executing" => Ordered(stages'[w], at'[w])
  /\ Mirrors(w) => Mirrors(w)'

LEMMA RunPipelineOrder ==
  ASSUME WorkerPipelineInv, OrderInv, NEW w \in Worker, Pipe!RunPipeline(w)
  PROVE  OrderEffect(w)
<1>1. /\ run[w] = "created" /\ run'[w] = "executing" /\ at'[w] = 1
      /\ stages[w] = Fresh
      /\ stages'[w] = [stages[w] EXCEPT ![1] = "RUNNING"]
      /\ rows' = [Pipe!Initialized(rows) EXCEPT ![1] = "RUNNING"]
  BY DEF Pipe!RunPipeline, Pipe!EnterStage, OrderInv, WorkerPipelineInv, PipeTypeOK
<1>2. rows'[1] = "RUNNING" /\ stages'[w][1] = "RUNNING"
  BY <1>1, SameStages, StagesInRange DEF Pipe!Initialized, Fresh
<1>3. Ordered(stages'[w], 1)
  BY <1>1, StageNumbers DEF Ordered, Fresh
<1> QED
  BY <1>1, <1>2, <1>3 DEF OrderEffect, Mirrors

LEMMA ProceedOrder ==
  ASSUME WorkerPipelineInv, OrderInv, NEW w \in Worker, run[w] = "executing",
         NEW outcome \in {"SUCCESS", "DEGRADED"}, at[w] \in Required => outcome = "SUCCESS",
         Pipe!Proceed(w, outcome), Pipe!PersistChanges(w)
  PROVE  OrderEffect(w)
<1> DEFINE done == [stages[w] EXCEPT ![at[w]] = outcome]
<1>0. at[w] \in Stage /\ Ordered(stages[w], at[w]) /\ stages[w] \in [Stage -> StageStatus]
  BY DEF WorkerPipelineInv, PipeTypeOK, StageInv, InStage, OrderInv
<1>1. done \in [Stage -> StageStatus]
  BY <1>0 DEF StageStatus
<1>2. \A s \in Stage :
        /\ s <= at[w] => done[s] \in IF s \in Required THEN {"SUCCESS"} ELSE {"SUCCESS", "DEGRADED"}
        /\ s > at[w] => done[s] = "NOT_STARTED"
  BY <1>0, StageNumbers DEF Ordered
<1>3. CASE at[w] # Pipe!ReadyStage /\ Pipe!EnterStage(w, at[w] + 1, done)
  <2> DEFINE st == [done EXCEPT ![at[w] + 1] = "RUNNING"]
  <2>1. at[w] + 1 \in Stage
    BY <1>0, <1>3, StagesInRange DEF Pipe!ReadyStage, ReadyStage
  <2>2. run'[w] = "executing" /\ at'[w] = at[w] + 1 /\ stages'[w] = st
    BY <1>3 DEF Pipe!EnterStage, WorkerPipelineInv, PipeTypeOK
  <2>3. /\ st[at[w] + 1] = "RUNNING"
        /\ \A s \in Stage : s # at[w] + 1 => st[s] = done[s]
    BY <1>1, <2>1
  <2>4. \A s \in Stage : (s < at[w] + 1 <=> s <= at[w]) /\ (s > at[w] + 1 => s > at[w])
    BY <1>0, StageNumbers
  <2> HIDE DEF st, done
  <2>5. Ordered(st, at[w] + 1)
    BY <1>0, <1>2, <2>3, <2>4, StageNumbers DEF Ordered
  <2>6. ASSUME Mirrors(w), NEW s \in 1 .. (at[w] + 1) PROVE rows'[s] = st[s]
    <3>1. s \in Stage
      BY <2>1, <2>6, StageNumbers, GraphAssumption DEF Stage
    <3>2. rows'[s] = IF st[s] # stages[w][s] THEN st[s] ELSE rows[s]
      BY <2>2, <3>1, SameStages DEF Pipe!PersistChanges
    <3>3. CASE s = at[w] + 1
      <4>1. stages[w][s] = "NOT_STARTED" /\ st[s] = "RUNNING"
        BY <1>0, <2>3, <3>1, <3>3, StageNumbers DEF Ordered
      <4> QED
        BY <3>2, <4>1
    <3>4. CASE s \in 1 .. at[w]
      BY <2>6, <3>2, <3>4 DEF Mirrors
    <3> QED
      BY <1>0, <2>6, <3>3, <3>4, StageNumbers
  <2> QED
    BY <2>2, <2>5, <2>6 DEF OrderEffect, Mirrors
<1>4. ASSUME NEW st \in [Stage -> StageStatus], NEW v, Pipe!Return(w, st, v),
             \A s \in Stage : s > at[w] => st[s] # "NOT_STARTED"
      PROVE  OrderEffect(w)
  <2>1. /\ run' = [run EXCEPT ![w] = "returned"] /\ run'[w] = "returned"
        /\ stages' = [stages EXCEPT ![w] = st]
    BY <1>4 DEF Pipe!Return, WorkerPipelineInv, PipeTypeOK
  <2>2. Mirrors(w) => Mirrors(w)'
    BY <1>0, <1>4, <2>1, ReturnMirrors
  <2> QED
    BY <2>1, <2>2 DEF OrderEffect
<1>5. CASE /\ at[w] + 1 = Pipe!PackageStage
           /\ Pipe!Return(w, [done EXCEPT ![Pipe!PackageStage] = "PARTIAL",
                                          ![Pipe!ReadyStage] = "BLOCKED"],
                          Pipe!Verdict([done EXCEPT ![Pipe!PackageStage] = "PARTIAL",
                                                    ![Pipe!ReadyStage] = "BLOCKED"], FALSE))
  <2> DEFINE none == [done EXCEPT ![Pipe!PackageStage] = "PARTIAL",
                                  ![Pipe!ReadyStage] = "BLOCKED"]
  <2>1. none \in [Stage -> StageStatus]
    BY <1>1 DEF StageStatus
  <2>2. ASSUME NEW s \in Stage, s > at[w] PROVE none[s] # "NOT_STARTED"
    <3>1. s = Pipe!PackageStage \/ s = Pipe!ReadyStage
      BY <1>0, <1>5, <2>2, StageNumbers, GraphAssumption
         DEF Pipe!PackageStage, Pipe!ReadyStage
    <3> QED
      BY <1>1, <3>1
  <2> HIDE DEF none
  <2> QED
    BY <1>4, <1>5, <2>1, <2>2 DEF none
<1>6. CASE at[w] = Pipe!ReadyStage /\ Pipe!Return(w, done, Pipe!Verdict(done, TRUE))
  <2>1. \A s \in Stage : ~(s > at[w])
    BY <1>6, StageNumbers, GraphAssumption DEF Pipe!ReadyStage
  <2> QED
    BY <1>1, <1>4, <1>6, <2>1
<1> QED
  BY <1>3, <1>5, <1>6 DEF Pipe!Proceed

LEMMA StageFailsOrder ==
  ASSUME WorkerPipelineInv, OrderInv, NEW w \in Worker, Pipe!StageFails(w)
  PROVE  OrderEffect(w)
<1> DEFINE failed == [stages[w] EXCEPT ![at[w]] = "FAILED"]
           st     == BlockDependents(failed, at[w])
<1>0. /\ run[w] = "executing" /\ at[w] \in Stage /\ at[w] \in Required
      /\ Ordered(stages[w], at[w]) /\ stages[w] \in [Stage -> StageStatus]
  BY DEF Pipe!StageFails, WorkerPipelineInv, PipeTypeOK, StageInv, InStage, OrderInv
<1>1. st \in [Stage -> StageStatus]
  BY <1>0 DEF BlockDependents, StageStatus
<1>2. \A s \in Stage : s > at[w] => s \in Dependents(at[w])
  BY <1>0, LeadAssumption, StageNumbers
<1>3. \A s \in Stage : s > at[w] => st[s] # "NOT_STARTED"
  BY <1>2 DEF BlockDependents
<1>4. /\ run' = [run EXCEPT ![w] = "returned"] /\ run'[w] = "returned"
      /\ stages' = [stages EXCEPT ![w] = st] /\ Pipe!PersistChanges(w)
  BY <1>0, SameBlocking DEF Pipe!StageFails, Pipe!Return, WorkerPipelineInv, PipeTypeOK
<1> HIDE DEF st
<1>5. Mirrors(w) => Mirrors(w)'
  BY <1>0, <1>1, <1>3, <1>4, ReturnMirrors
<1> QED
  BY <1>4, <1>5 DEF OrderEffect

LEMMA PipelineStepOrder ==
  ASSUME WorkerPipelineInv, OrderInv, NEW w \in Worker, PipelineStep(w)
  PROVE  OrderEffect(w)
<1>1. CASE Pipe!RunPipeline(w)
  BY <1>1, RunPipelineOrder
<1>2. CASE Pipe!StageSucceeds(w) \/ Pipe!StageDegrades(w)
  BY <1>2, ProceedOrder DEF Pipe!StageSucceeds, Pipe!StageDegrades
<1>3. CASE Pipe!StageFails(w)
  BY <1>3, StageFailsOrder
<1>4. CASE Pipe!Unwind(w)
  <2>1. run'[w] = "raised"
    BY <1>4 DEF Pipe!Unwind, WorkerPipelineInv, PipeTypeOK
  <2> QED
    BY <2>1 DEF OrderEffect, Mirrors
<1> QED
  BY <1>1, <1>2, <1>3, <1>4 DEF PipelineStep

LEMMA OrderStep ==
  WorkerPipelineInv /\ OrderInv /\ [SystemNext]_workerPipelineVars => OrderInv'
<1> SUFFICES ASSUME WorkerPipelineInv, OrderInv, [SystemNext]_workerPipelineVars,
                    NEW v \in Worker
             PROVE  /\ run'[v] \in {"free", "created"} => stages'[v] = Fresh
                    /\ run'[v] = "executing" => Ordered(stages'[v], at'[v])
  BY DEF OrderInv
<1> USE DEF WorkerPipelineInv, PipeTypeOK
<1>1. CASE UNCHANGED runVars
  BY <1>1 DEF OrderInv, runVars
<1>2. ASSUME NEW w \in Worker, QueueStep(w) PROVE UNCHANGED runVars
  BY <1>2 DEF QueueStep, pipeVars
<1>3. ASSUME NEW w \in Worker, Launch(w)
      PROVE  /\ run'[v] \in {"free", "created"} => stages'[v] = Fresh
             /\ run'[v] = "executing" => Ordered(stages'[v], at'[v])
  BY <1>3 DEF Launch, OrderInv
<1>4. ASSUME NEW w \in Worker, PipelineStep(w)
      PROVE  /\ run'[v] \in {"free", "created"} => stages'[v] = Fresh
             /\ run'[v] = "executing" => Ordered(stages'[v], at'[v])
  <2>1. PipelineEffect(w) /\ OrderEffect(w)
    BY <1>4, PipelineStepEffect, PipelineStepOrder
  <2>2. CASE v = w
    BY <2>1, <2>2 DEF OrderEffect
  <2>3. CASE v # w
    BY <2>1, <2>3 DEF PipelineEffect, OrderInv
  <2> QED
    BY <2>2, <2>3
<1>5. ASSUME NEW w \in Worker, Discard(w)
      PROVE  /\ run'[v] \in {"free", "created"} => stages'[v] = Fresh
             /\ run'[v] = "executing" => Ordered(stages'[v], at'[v])
  BY <1>5 DEF Discard, OrderInv
<1>6. ASSUME NEW w \in Worker, Stop(w)
      PROVE  /\ run'[v] \in {"free", "created"} => stages'[v] = Fresh
             /\ run'[v] = "executing" => Ordered(stages'[v], at'[v])
  <2>1. /\ run[w] \in {"created", "executing"}
        /\ run' = [run EXCEPT ![w] = Pipe!Interrupted(run[w])]
        /\ Pipe!Interrupted(run[w]) \in {"aborting", "cancelling"}
        /\ UNCHANGED <<at, stages>>
    BY <1>6 DEF Stop, Pipe!Interrupt, Pipe!Interrupted
  <2> QED
    BY <2>1 DEF OrderInv
<1>7. ASSUME NEW j \in Job, Lapse(j) \/ ApiStep(j) PROVE UNCHANGED runVars
  BY <1>7 DEF Lapse, ApiStep, pipeVars
<1>8. CASE UNCHANGED workerPipelineVars
  BY <1>1, <1>8 DEF workerPipelineVars, pipeVars
<1> QED
  BY <1>1, <1>2, <1>3, <1>4, <1>5, <1>6, <1>7, <1>8
     DEF SystemNext, HandlerStep, Finish, Fail, Die

(* A worker that the steps of others leave alone.                          *)
LEMMA MirrorStays ==
  ASSUME NEW v \in Worker, Mirrors(v), rows' = rows,
         \/ run'[v] = run[v] /\ at'[v] = at[v] /\ stages'[v] = stages[v]
         \/ run'[v] \notin {"executing", "returned"}
  PROVE  Mirrors(v)'
BY DEF Mirrors

LEMMA MirrorStep ==
  /\ WorkerPipelineInv /\ LoneInv /\ OrderInv /\ MirrorInv
  /\ [SystemNext]_workerPipelineVars
  => MirrorInv'
<1> SUFFICES ASSUME WorkerPipelineInv, LoneInv, OrderInv, MirrorInv,
                    [SystemNext]_workerPipelineVars,
                    NumJobs = 1, NEW v \in Worker, job'[v] \notin lapsed',
                    run'[v] \in {"executing", "returned"}
             PROVE  Mirrors(v)'
  BY DEF MirrorInv, Mirrors
<1> DEFINE Kept == job'[v] = job[v] /\ run[v] # "free" /\ lapsed \subseteq lapsed'
<1>1. Kept
  <2>1. ASSUME NEW w \in Worker, QueueStep(w) PROVE Kept
    <3>1. UNCHANGED <<run, lapsed>> /\ pc[w] # "running"
      BY <2>1, LoopSteps DEF QueueStep, pipeVars, runVars, historyVars
    <3>2. \A u \in Worker : u # w => job'[u] = job[u]
      BY <2>1, LoopSteps DEF QueueStep
    <3> QED
      BY <3>1, <3>2 DEF WorkerPipelineInv, HandlerInv
  <2>2. CASE UNCHANGED <<run, job>> /\ lapsed \subseteq lapsed'
    BY <2>2
  <2>3. ASSUME NEW w \in Worker, Launch(w) PROVE Kept
    BY <2>3 DEF Launch, vars, workerVars, historyVars, WorkerPipelineInv, PipeTypeOK
  <2>4. ASSUME NEW w \in Worker, PipelineStep(w) PROVE Kept
    <3>1. UNCHANGED <<job, lapsed>>
      BY <2>4 DEF PipelineStep, vars, workerVars, historyVars
    <3>2. run[w] # "free" /\ \E p \in {"executing", "returned", "raised"} : run' = [run EXCEPT ![w] = p]
      BY <2>4, PipelineStepEffect DEF PipelineEffect
    <3> QED
      BY <3>1, <3>2 DEF WorkerPipelineInv, PipeTypeOK
  <2>5. ASSUME NEW w \in Worker, Stop(w) PROVE Kept
    BY <2>5 DEF Stop, Pipe!Interrupt, vars, workerVars, WorkerPipelineInv, PipeTypeOK
  <2>6. ASSUME NEW w \in Worker, Finish(w) \/ Fail(w) \/ Die(w) PROVE Kept
    BY <2>6 DEF Finish, Fail, Die, Complete, ReadRetries, Crash, Discard, historyVars,
                WorkerPipelineInv, PipeTypeOK, QueueInv, TypeOK
  <2>7. ASSUME NEW j \in Job, Lapse(j) \/ ApiStep(j)
        PROVE  UNCHANGED <<run, job>> /\ lapsed \subseteq lapsed'
    BY <2>7 DEF Lapse, ApiStep, LeaseEnds, CountJobs, Insert, CancelJob, workerVars, pipeVars,
                runVars, historyVars
  <2>8. CASE UNCHANGED workerPipelineVars
    BY <2>2, <2>8 DEF workerPipelineVars, vars, workerVars, pipeVars, runVars, historyVars
  <2> HIDE DEF Kept
  <2> QED
    BY <2>1, <2>2, <2>3, <2>4, <2>5, <2>6, <2>7, <2>8 DEF SystemNext, HandlerStep
<1>2. job[v] = 1 /\ 1 \in Job /\ 1 \notin lapsed
  BY <1>1 DEF WorkerPipelineInv, HandlerInv, QueueInv, WorkersInv, Job
<1>3. ASSUME NEW w \in Worker, run[w] # "free" PROVE w = v
  <2>1. job[w] = 1
    BY <1>3 DEF WorkerPipelineInv, HandlerInv, QueueInv, WorkersInv, Job
  <2> QED
    BY <1>2, <2>1 DEF LoneInv, Lone
<1>4. Mirrors(v)
  BY <1>2 DEF MirrorInv
<1>5. CASE UNCHANGED pipeVars
  BY <1>4, <1>5, MirrorStays DEF pipeVars, runVars
<1>6. ASSUME NEW w \in Worker, PipelineStep(w) PROVE Mirrors(v)'
  <2>1. w = v
    BY <1>3, <1>6, PipelineStepEffect DEF PipelineEffect
  <2> QED
    BY <1>4, <1>6, <2>1, PipelineStepOrder DEF OrderEffect
<1>7. ASSUME NEW w \in Worker, Launch(w) \/ Stop(w) PROVE Mirrors(v)'
  <2>1. /\ rows' = rows /\ at' = at /\ stages' = stages
        /\ \E x \in {"created", "aborting", "cancelling"} : run' = [run EXCEPT ![w] = x]
    BY <1>7 DEF Launch, Stop, Pipe!Interrupt, Pipe!Interrupted
  <2> QED
    BY <1>4, <2>1, MirrorStays DEF WorkerPipelineInv, PipeTypeOK
<1>8. ASSUME NEW w \in Worker, Finish(w) \/ Fail(w) \/ Die(w) PROVE Mirrors(v)'
  <2>1. Discard(w) /\ rows' = rows
    BY <1>8 DEF Finish, Fail, Die
  <2> QED
    BY <1>4, <2>1, MirrorStays DEF Discard, WorkerPipelineInv, PipeTypeOK
<1>9. ASSUME NEW j \in Job, Lapse(j) \/ ApiStep(j) PROVE UNCHANGED pipeVars
  BY <1>9 DEF Lapse, ApiStep
<1>10. ASSUME NEW w \in Worker, QueueStep(w) PROVE UNCHANGED pipeVars
  BY <1>10 DEF QueueStep
<1> QED
  BY <1>5, <1>6, <1>7, <1>8, <1>9, <1>10 DEF SystemNext, HandlerStep, workerPipelineVars

LEMMA OrderMirrorInit == SystemInit => OrderInv /\ MirrorInv
BY DEF SystemInit, OrderInv, MirrorInv, Mirrors

(* A worker goes through the stages in order, whoever else stops, dies or  *)
(* runs the same incident: while it is in one, those before it have ended  *)
(* well, required ones undegraded, and those after it are untouched.       *)
THEOREM StagesInOrder == SystemSpec => []OrderInv
BY OrderMirrorInit, OrderStep, WorkerPipelineInvariant, PTL DEF SystemSpec

(* No worker executes a stage before the stages it depends on have ended   *)
(* well, so the refusal in _execute_stage is unreachable there as well.    *)
THEOREM PrerequisitesMetByWorkers == SystemSpec => []Pipe!PrerequisitesMet
<1>1. WorkerPipelineInv /\ OrderInv => Pipe!PrerequisitesMet
  <2> SUFFICES ASSUME WorkerPipelineInv, OrderInv, NEW w \in Worker, run[w] = "executing",
                      NEW d \in DependsOn[at[w]]
               PROVE  stages[w][d] \in IF d \in Required THEN {"SUCCESS"} ELSE {"SUCCESS", "DEGRADED"}
    BY DEF Pipe!PrerequisitesMet
  <2>1. at[w] \in Stage /\ Ordered(stages[w], at[w])
    BY DEF WorkerPipelineInv, StageInv, InStage, OrderInv
  <2>2. d \in Stage /\ d < at[w]
    BY <2>1, GraphAssumption
  <2> QED
    BY <2>1, <2>2 DEF Ordered
<1> QED
  BY <1>1, StagesInOrder, WorkerPipelineInvariant, PTL

(* When the incident has one job and its lease has never run out, the rows *)
(* in the store are those of the run whose verdict the worker reports: no  *)
(* other process has written over them. With a second job it need not be   *)
(* so, for the jobs of one incident share its rows.                        *)
THEOREM RowsBackLoneVerdicts == NumJobs = 1 => (SystemSpec => []RowsBackLoneVerdict)
<1> SUFFICES ASSUME NumJobs = 1 PROVE SystemSpec => []RowsBackLoneVerdict
  OBVIOUS
<1>1. MirrorInv => RowsBackLoneVerdict
  BY DEF MirrorInv, Mirrors, RowsBackLoneVerdict
<1> QED
  BY <1>1, OrderMirrorInit, LoneInit, OrderStep, LoneStep, MirrorStep, WorkerPipelineInvariant,
     PTL DEF SystemSpec
=============================================================================
