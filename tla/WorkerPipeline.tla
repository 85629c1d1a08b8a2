--------------------------- MODULE WorkerPipeline ---------------------------
(***************************************************************************)
(* Worker processes (worker.py) that run the pipeline jobs of an incident: *)
(* the queue of SQLiteQueue decides which process runs the job and when,   *)
(* the handler process_pipeline_job runs the orchestrator of Pipeline, and *)
(* the processes share the queue's database and the incident's stage rows. *)
(*                                                                         *)
(* The orchestrator of a worker lives from the load of its incident to the *)
(* return of the handler.  Nobody outside the handler knows it, so it is   *)
(* never cancelled by an operator; stop_worker cancels the task it is in.  *)
(***************************************************************************)
EXTENDS SQLiteQueue, StageGraph

CONSTANT MaxStops   \* bound: how often stop_worker interrupts a pipeline

ASSUME StopsAssumption == MaxStops \in Nat

VARIABLES run, at, stages, state, cancelled,   \* each worker's orchestrator
          rows,       \* the incident's stage rows
          lapsed,     \* history: the jobs whose lease has ever run out
          concluded,  \* history: the jobs completed on a verdict of their run
          stopped,    \* history: the jobs whose run stop_worker has cancelled
          orphaned,   \* history: the stages processes died in
          stops       \* how often stop_worker has done so

runVars      == <<run, at, stages, state, cancelled>>
pipeVars     == <<runVars, rows>>
historyVars  == <<lapsed, concluded, stopped, orphaned>>
workerPipelineVars == <<vars, pipeVars, historyVars, stops>>

Pipe == INSTANCE Pipeline WITH Run <- Worker, pc <- run, status <- stages

Verdicts == Pipe!FinalStates \ {"CANCELLED"}

-----------------------------------------------------------------------------
(* What the loop does with the queue while no handler runs.                *)
QueueStep(w) ==
  /\ \/ ReadDead(w)
     \/ ClaimNothing(w)
     \/ Claim(w)
     \/ Retry(w)
     \/ GiveUp(w)
  /\ UNCHANGED <<pipeVars, historyVars, stops>>

(* process_pipeline_job: the incident is loaded, an orchestrator is made,  *)
(* and _run_pipeline awaits process_incident up to its inner task.         *)
Launch(w) ==
  /\ pc[w] = "running" /\ run[w] = "free"
  /\ run' = [run EXCEPT ![w] = "created"]
  /\ state' = [state EXCEPT ![w] = "RUNNING"]
  /\ UNCHANGED <<vars, at, stages, cancelled, rows, historyVars, stops>>

(* The inner task of process_incident.                                     *)
PipelineStep(w) ==
  /\ \/ Pipe!RunPipeline(w)
     \/ Pipe!StageSucceeds(w)
     \/ Pipe!StageDegrades(w)
     \/ Pipe!StageFails(w)
     \/ Pipe!Unwind(w)
  /\ UNCHANGED <<vars, historyVars, stops>>

(* The handler ends and its orchestrator with it.                          *)
Discard(w) ==
  /\ run' = [run EXCEPT ![w] = "free"]
  /\ at' = [at EXCEPT ![w] = 0]
  /\ stages' = [stages EXCEPT ![w] = Fresh]
  /\ state' = [state EXCEPT ![w] = "IDLE"]
  /\ cancelled' = [cancelled EXCEPT ![w] = FALSE]

(* Defect: the handler does not await the pipeline it starts.              *)
FinishUnawaited(w) ==
  /\ run[w] = "created"
  /\ Complete(w)
  /\ Discard(w)
  /\ concluded' = concluded \cup (IF state[w] \in Verdicts THEN {job[w]} ELSE {})
  /\ UNCHANGED <<rows, lapsed, stopped, orphaned, stops>>

(* _run_pipeline returns whichever way process_incident ended: it logs and *)
(* swallows a CancelledError and every Exception.  So the handler returns  *)
(* and the loop completes the job, without another await in between.       *)
Finish(w) ==
  /\ run[w] \in {"returned", "raised", "aborting"}
  /\ Complete(w)
  /\ Discard(w)
  /\ concluded' = concluded \cup (IF state[w] \in Verdicts THEN {job[w]} ELSE {})
  /\ UNCHANGED <<rows, lapsed, stopped, orphaned, stops>>

(* The incident could not be loaded, or complete raised: the loop fails    *)
(* the job.                                                                *)
Fail(w) ==
  /\ run[w] \in {"free", "returned", "raised", "aborting"}
  /\ ReadRetries(w)
  /\ Discard(w)
  /\ UNCHANGED <<rows, historyVars, stops>>

-----------------------------------------------------------------------------
(* Defect: the tasks of a stopped worker are dropped, not awaited.         *)
StopUnawaited(w) ==
  /\ stops < MaxStops
  /\ run[w] \in {"created", "executing"}
  /\ Complete(w)
  /\ Discard(w)
  /\ stops' = stops + 1
  /\ stopped' = stopped \cup {job[w]}
  /\ UNCHANGED <<rows, lapsed, concluded, orphaned>>

(* stop_worker ran into its timeout and cancels the loop, with it the      *)
(* pipeline the handler awaits.  The process ends, or is started again,    *)
(* once the handler has returned.                                          *)
Stop(w) ==
  /\ stops < MaxStops
  /\ Pipe!Interrupt(w)
  /\ stops' = stops + 1
  /\ stopped' = stopped \cup {job[w]}
  /\ UNCHANGED <<vars, lapsed, concluded, orphaned>>

(* A process dies, or is stopped before its handler has begun: the job     *)
(* stays claimed and the rows stay as they are.                            *)
Die(w) ==
  /\ Crash(w)
  /\ Discard(w)
  /\ orphaned' = orphaned \cup (IF run[w] \in {"executing", "cancelling"} THEN {at[w]} ELSE {})
  /\ UNCHANGED <<rows, lapsed, concluded, stopped, stops>>

Lapse(j) ==
  /\ LeaseEnds(j)
  /\ lapsed' = lapsed \cup {j}
  /\ UNCHANGED <<pipeVars, concluded, stopped, orphaned, stops>>

(* The API submits or cancels the job.  Its TTL is long: what happens to a *)
(* job whose TTL is over is the queue's own matter.                        *)
ApiStep(j) ==
  /\ CountJobs(j) \/ Insert(j) \/ CancelJob(j)
  /\ UNCHANGED <<pipeVars, historyVars, stops>>

-----------------------------------------------------------------------------
(* An earlier investigation of the incident may have left its rows.        *)
SystemInit ==
  /\ Init
  /\ run = [w \in Worker |-> "free"]
  /\ at = [w \in Worker |-> 0]
  /\ stages = [w \in Worker |-> Fresh]
  /\ state = [w \in Worker |-> "IDLE"]
  /\ cancelled = [w \in Worker |-> FALSE]
  /\ rows \in {[s \in Stage |-> x] : x \in {"ABSENT", "SUCCESS"}}
  /\ lapsed = {} /\ concluded = {} /\ stopped = {} /\ orphaned = {}
  /\ stops = 0

HandlerStep(w) == Launch(w) \/ PipelineStep(w) \/ Finish(w) \/ Fail(w)

SystemNext ==
  \/ \E w \in Worker : \/ QueueStep(w)
                       \/ HandlerStep(w)
                       \/ Stop(w)
                       \/ Die(w)
  \/ \E j \in Job : Lapse(j) \/ ApiStep(j)

(* Loops poll, stages and handlers end, leases run out; nobody is obliged  *)
(* to die, to stop a worker or to submit or cancel a job.                  *)
SystemFairness ==
  /\ \A w \in Worker : WF_workerPipelineVars(QueueStep(w) \/ HandlerStep(w))
  /\ \A j \in Job : WF_workerPipelineVars(Lapse(j))

SystemSpec     == SystemInit /\ [][SystemNext]_workerPipelineVars
FairSystemSpec == SystemSpec /\ SystemFairness

-----------------------------------------------------------------------------
(* A pipeline job that was accepted comes to an end, whichever process     *)
(* dies in whichever stage ("Survives process restarts with zero job       *)
(* loss").                                                                 *)
JobsEnd == NoJobLost

(* A job is completed because some run of its pipeline reached a verdict;  *)
(* where none did, stop_worker cancelled one: the wrapper hides this from  *)
(* the queue, which never runs the job again.                              *)
CompletedForCause ==
  \A j \in Job : status[j] = "completed" => j \in concluded \cup stopped

(* A row says RUNNING only while a process is in that stage, even with two *)
(* processes at the same incident, or because a process died in it: only   *)
(* a death leaves an incident that seems to be worked on for ever.         *)
RunningRowsHeld ==
  \A s \in Stage : rows[s] = "RUNNING" =>
    \/ s \in orphaned
    \/ \E w \in Worker : run[w] \in {"executing", "cancelling"} /\ at[w] = s

(* With one job for the incident, and as long as no lease has run out, no  *)
(* two processes are at the incident, and the rows are those of the run    *)
(* that reaches a verdict, whatever an earlier attempt or an earlier       *)
(* investigation had left in them.  (Nothing keeps two jobs for the same   *)
(* incident from running at once.)                                         *)
RowsBackLoneVerdict ==
  \A w \in Worker : run[w] = "returned" /\ job[w] \notin lapsed => rows = stages[w]
=============================================================================
