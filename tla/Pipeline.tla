------------------------------ MODULE Pipeline ------------------------------
(***************************************************************************)
(* PipelineOrchestrator (state_machine/orchestrator.py) with the stage rows *)
(* of PipelinePersistenceStore.                                            *)
(*                                                                         *)
(* Every run is one orchestrator object.  A run executes on an asyncio     *)
(* loop: code between two awaits is one step, and a run can be overtaken   *)
(* only where pc says it is waiting:                                       *)
(*   free        no such object yet                                        *)
(*   idle        constructed at creation or reset, never run               *)
(*   scheduled   process_incident is in a task that has not run yet        *)
(*   created     process_incident made the inner task, which has not run   *)
(*   executing   suspended in the action of stage at                       *)
(*   cancelling  the same, with a CancelledError on its way to it          *)
(*   aborting    the inner task was cancelled before its first step        *)
(*   returned    the inner task returned its context to its caller         *)
(*   raised      the inner task ended with CancelledError                  *)
(*   done        the caller has seen the end                               *)
(***************************************************************************)
EXTENDS StageGraph

CONSTANT Run   \* the orchestrator objects

VARIABLES pc,         \* where each run is
          at,         \* the stage it entered last, 0 before the first
          status,     \* in-memory status of its stages
          state,      \* current_state
          cancelled,  \* the _cancelled flag
          rows        \* the persisted status of each stage of the incident

pipelineVars == <<pc, at, status, state, cancelled, rows>>

Control == {"free", "idle", "scheduled", "created", "executing", "cancelling",
            "aborting", "returned", "raised", "done"}

FinalStates == {"SUCCESS", "DEGRADED", "PARTIAL", "FAILED", "CANCELLED"}
RunStates   == {"IDLE", "RUNNING"} \cup FinalStates

-----------------------------------------------------------------------------
(* Defect: only the stage itself is persisted, not those it blocks.        *)
PersistOwnStage(r) == rows' = [rows EXCEPT ![at[r]] = status'[r][at[r]]]

(* _persist_stage is called for every stage whose status a step changes.   *)
PersistChanges(r) ==
  rows' = [s \in Stage |-> IF status'[r][s] # status[r][s] THEN status'[r][s]
                           ELSE rows[s]]

(* initialize_incident_stages, without overwrite: missing rows only.       *)
Initialized(rw) ==
  [s \in Stage |-> IF rw[s] = "ABSENT" THEN "NOT_STARTED" ELSE rw[s]]

(* _execute_stage up to its await.  Its two refusals, of a stage behind a  *)
(* prerequisite that failed and of any stage of a cancelled run, have no   *)
(* action: PrerequisitesMet and CancelIsFinal say no stage reaches them.   *)
EnterStage(r, s, st) ==
  /\ at' = [at EXCEPT ![r] = s]
  /\ status' = [status EXCEPT ![r] = [st EXCEPT ![s] = "RUNNING"]]
  /\ pc' = [pc EXCEPT ![r] = "executing"]
  /\ UNCHANGED <<state, cancelled>>

(* Defects: degraded stages overlooked; no verdict without a patch.        *)
VerdictBlind(st, verified) ==
  IF \E s \in Stage : st[s] = "FAILED" THEN "FAILED"
  ELSE IF ~verified THEN "PARTIAL" ELSE "SUCCESS"

VerdictOpen(st, verified) ==
  IF \E s \in Stage : st[s] = "FAILED" THEN "FAILED"
  ELSE IF ~verified THEN "RUNNING" ELSE "SUCCESS"

(* The verdict at the end of _run_pipeline.                                *)
Verdict(st, verified) ==
  IF \E s \in Stage : st[s] = "FAILED" THEN "FAILED"
  ELSE IF ~verified THEN "PARTIAL"
  ELSE IF \E s \in Stage : st[s] = "DEGRADED" THEN "DEGRADED"
  ELSE "SUCCESS"

Return(r, st, verdict) ==
  /\ status' = [status EXCEPT ![r] = st]
  /\ state' = [state EXCEPT ![r] = verdict]
  /\ pc' = [pc EXCEPT ![r] = "returned"]
  /\ UNCHANGED <<at, cancelled>>

(* Defect: the last stage has a successor.                                 *)
ProceedPastEnd(r, outcome) == EnterStage(r, at[r] + 1, [status[r] EXCEPT ![at[r]] = outcome])

(* Stage at[r] ended well enough (_execute_stage returned True, or the     *)
(* stage is optional): run on to the next await or to the end.  Whether    *)
(* there is a verified patch is decided when the package stages are due.   *)
Proceed(r, outcome) ==
  LET s  == at[r]
      st == [status[r] EXCEPT ![s] = outcome]
  IN  \/ s # ReadyStage /\ EnterStage(r, s + 1, st)
      \/ s + 1 = PackageStage /\
         LET none == [st EXCEPT ![PackageStage] = "PARTIAL", ![ReadyStage] = "BLOCKED"]
         IN  Return(r, none, Verdict(none, FALSE))
      \/ s = ReadyStage /\ Return(r, st, Verdict(st, TRUE))

-----------------------------------------------------------------------------
(* A new orchestrator whose process_incident is handed to a task.          *)
Start(r) ==
  /\ pc[r] = "free"
  /\ pc' = [pc EXCEPT ![r] = "scheduled"]
  /\ state' = [state EXCEPT ![r] = "RUNNING"]
  /\ UNCHANGED <<at, status, cancelled, rows>>

(* Defect: the flag of a run cancelled before it began is not looked at.   *)
ProcessIncidentAnyway(r) ==
  /\ pc[r] = "scheduled"
  /\ state' = [state EXCEPT ![r] = "RUNNING"]
  /\ pc' = [pc EXCEPT ![r] = "created"]
  /\ UNCHANGED <<at, status, cancelled, rows>>

(* process_incident: a run cancelled before it began is not resurrected.   *)
ProcessIncident(r) ==
  /\ pc[r] = "scheduled"
  /\ IF cancelled[r]
     THEN /\ state' = [state EXCEPT ![r] = "CANCELLED"]
          /\ pc' = [pc EXCEPT ![r] = "done"]
     ELSE /\ state' = [state EXCEPT ![r] = "RUNNING"]
          /\ pc' = [pc EXCEPT ![r] = "created"]
  /\ UNCHANGED <<at, status, cancelled, rows>>

(* The first step of _run_pipeline: make sure there are rows, enter stage 1. *)
RunPipeline(r) ==
  /\ pc[r] = "created"
  /\ EnterStage(r, 1, status[r])
  /\ rows' = [Initialized(rows) EXCEPT ![1] = "RUNNING"]

StageSucceeds(r) ==
  /\ pc[r] = "executing"
  /\ Proceed(r, "SUCCESS")
  /\ PersistChanges(r)

(* Defect: the failure of any stage is a mere degradation.                 *)
StageDegradesAny(r) ==
  /\ pc[r] = "executing"
  /\ Proceed(r, "DEGRADED")
  /\ PersistChanges(r)

(* The action of an optional stage raised.                                 *)
StageDegrades(r) ==
  /\ pc[r] = "executing"
  /\ at[r] \notin Required
  /\ Proceed(r, "DEGRADED")
  /\ PersistChanges(r)

(* Defect: the failure of an optional stage fails the pipeline.            *)
StageFailsAny(r) ==
  /\ pc[r] = "executing"
  /\ Return(r, BlockDependents([status[r] EXCEPT ![at[r]] = "FAILED"], at[r]), "FAILED")
  /\ PersistChanges(r)

(* The action of a required stage raised; then _fail_pipeline.             *)
StageFails(r) ==
  /\ pc[r] = "executing"
  /\ at[r] \in Required
  /\ Return(r, BlockDependents([status[r] EXCEPT ![at[r]] = "FAILED"], at[r]), "FAILED")
  /\ PersistChanges(r)

(* Defect: an inner task that has not run yet is not cancelled.            *)
InterruptedLate(p) == IF p = "executing" THEN "cancelling" ELSE p

(* Task.cancel on the inner task: the error is delivered at its next step. *)
Interrupted(p) ==
  CASE p = "created"   -> "aborting"
    [] p = "executing" -> "cancelling"
    [] OTHER           -> p

(* Defect: the cancellation is not persisted.                              *)
RowsUnswept(r) == rows

(* The rows after PipelineOrchestrator.cancel on r: its changed stages are *)
(* persisted, then cancel_incident_stages sweeps all rows of the incident. *)
RowsAfterCancel(r) ==
  Halt([s \in Stage |-> IF Halt(status[r])[s] # status[r][s]
                        THEN Halt(status[r])[s] ELSE rows[s]])

(* PipelineOrchestrator.cancel.                                            *)
Cancel(r) ==
  /\ pc[r] # "free"
  /\ cancelled' = [cancelled EXCEPT ![r] = TRUE]
  /\ status' = [status EXCEPT ![r] = Halt(@)]
  /\ state' = [state EXCEPT ![r] = "CANCELLED"]
  /\ pc' = [pc EXCEPT ![r] = Interrupted(@)]
  /\ rows' = RowsAfterCancel(r)
  /\ UNCHANGED at

(* The task is cancelled from outside (stop_worker, loop shutdown) without *)
(* a call of PipelineOrchestrator.cancel.                                  *)
Interrupt(r) ==
  /\ pc[r] \in {"created", "executing"}
  /\ pc' = [pc EXCEPT ![r] = Interrupted(@)]
  /\ UNCHANGED <<at, status, state, cancelled, rows>>

(* CancelledError arrives: the handler of _execute_stage persists its stage *)
(* whatever it was, blocks the stages behind it, and that of _run_pipeline *)
(* marks the run cancelled.                                                *)
Unwind(r) ==
  LET s  == at[r]
      st == BlockDependents([status[r] EXCEPT ![s] = "CANCELLED"], s)
  IN  /\ pc[r] = "cancelling"
      /\ status' = [status EXCEPT ![r] = st]
      /\ cancelled' = [cancelled EXCEPT ![r] = TRUE]
      /\ state' = [state EXCEPT ![r] = "CANCELLED"]
      /\ pc' = [pc EXCEPT ![r] = "raised"]
      /\ rows' = [t \in Stage |-> IF t = s \/ st[t] # status[r][t] THEN st[t] ELSE rows[t]]
      /\ UNCHANGED at

(* Defect: a task cancelled before its first step is never collected.      *)
SettleUnlessAborted(r) ==
  /\ pc[r] \in {"returned", "raised"}
  /\ pc' = [pc EXCEPT ![r] = "done"]
  /\ UNCHANGED <<at, status, state, cancelled, rows>>

(* The task that awaits the inner task resumes.                            *)
Settle(r) ==
  /\ pc[r] \in {"returned", "raised", "aborting"}
  /\ pc' = [pc EXCEPT ![r] = "done"]
  /\ UNCHANGED <<at, status, state, cancelled, rows>>

-----------------------------------------------------------------------------
TypeOK ==
  /\ pc \in [Run -> Control]
  /\ at \in [Run -> 0 .. NumStages]
  /\ status \in [Run -> [Stage -> StageStatus]]
  /\ state \in [Run -> RunStates]
  /\ cancelled \in [Run -> BOOLEAN]
  /\ rows \in [Stage -> StageStatus \cup {"ABSENT"}]

(* A stage is only being executed when each of its prerequisites ended     *)
(* well: with SUCCESS if it is a required stage, and at worst DEGRADED if  *)
(* it is optional.  So the refusal in _execute_stage never fires.          *)
PrerequisitesMet ==
  \A r \in Run : pc[r] = "executing" =>
    \A d \in DependsOn[at[r]] :
      status[r][d] \in IF d \in Required THEN {"SUCCESS"} ELSE {"SUCCESS", "DEGRADED"}

(* Once a run is cancelled it stays so, whatever it still has to unwind:   *)
(* it does not start another stage (process_incident: "Do not reset the    *)
(* cancellation flag and resurrect a job the operator already stopped").   *)
CancelIsFinal ==
  [][\A r \in Run : cancelled[r] =>
       /\ cancelled'[r] /\ state'[r] = "CANCELLED"
       /\ at'[r] = at[r]
       /\ \A s \in Stage : status'[r][s] # "RUNNING"]_pipelineVars

(* A stage that ended with a verdict keeps it: neither blocking dependents *)
(* nor cancelling relabels a finished stage.                               *)
FinishedStagesStay ==
  [][\A r \in Run, s \in Stage :
       status[r][s] \in {"SUCCESS", "DEGRADED", "PARTIAL", "FAILED"} =>
         status'[r][s] = status[r][s]]_pipelineVars
=============================================================================
