---------------------------- MODULE Investigation ----------------------------
(***************************************************************************)
(* The API's registry of one incident's investigation (api/main.py):       *)
(* pipeline_tasks, pipeline_progress, pipeline_contexts, the handlers that *)
(* start, cancel, retry and reset it, the runs they start, and a client    *)
(* that follows pipeline_progress over the websocket or the event stream.  *)
(* A handler has finished its permission checks and audit writes when its  *)
(* action is taken: what follows them has no await, except in the retry    *)
(* handler, whose state check comes before its audit write.                *)
(***************************************************************************)
EXTENDS Pipeline

CONSTANTS NoRun,        \* no context stored
          Kinds,        \* which of the three ways to start a run are in use
          MaxRetries    \* bound: retry requests between check and start

ASSUME InvestigationAssumption ==
  /\ NoRun \notin Run
  /\ Kinds \subseteq {"http", "report", "queue"}
  /\ MaxRetries \in Nat

VARIABLES registered,   \* pipeline_tasks[incident]
          kind,         \* how each run was started
          progress,     \* pipeline_progress[incident]: its state, and whose summary
          context,      \* pipeline_contexts[incident]
          retrying,     \* retry requests past their state check
          stream        \* the client's stream: "open" or "closed"

apiVars == <<registered, kind, progress, context, retrying, stream>>
vars    == <<pipelineVars, apiVars>>

Summary(r, s) == [by |-> r, state |-> s]

(* The kinds of run whose progress callback writes pipeline_progress, and  *)
(* those that api.main._run_pipeline wraps.  "report" is the run inside    *)
(* generate_incident_report, "queue" that of a worker's pipeline job.      *)
HasCallback(r) == kind[r] = "http"
IsWrapped(r)   == kind[r] \in {"http", "queue"}

(* PipelineOrchestrator.is_running: _bg_task is set for "http" runs only,  *)
(* and _task is cleared when the inner task ends.                          *)
IsRunning(r) ==
  /\ ~cancelled[r]
  /\ \/ pc[r] \in {"created", "executing", "cancelling", "aborting"}
     \/ kind[r] = "http" /\ pc[r] \in {"scheduled", "returned", "raised"}

(* A run that still has pipeline work to do.                               *)
Working(r) == ~cancelled[r] /\ pc[r] \in {"scheduled", "created", "executing"}

-----------------------------------------------------------------------------
(* A new orchestrator object.  Unused names are interchangeable, so one of *)
(* them is taken.                                                          *)
Unused(r) == pc[r] = "free" /\ r = CHOOSE q \in Run : pc[q] = "free"

(* The parts every way to start a run shares.                              *)
NewRun(r, k, p) ==
  /\ Unused(r)
  /\ k \in Kinds
  /\ kind' = [kind EXCEPT ![r] = k]
  /\ pc' = [pc EXCEPT ![r] = p]
  /\ state' = [state EXCEPT ![r] = "RUNNING"]

(* Defect: a second start is not refused.                                  *)
ReconstructAgain(r) ==
  /\ NewRun(r, "http", "scheduled")
  /\ registered' = r
  /\ progress' = Summary(r, "IDLE")
  /\ UNCHANGED <<at, status, cancelled, rows, context, retrying, stream>>

(* POST /reconstruct: refused while the registered run is running.  The    *)
(* summary is taken before current_state becomes RUNNING.                  *)
Reconstruct(r) ==
  /\ ~IsRunning(registered)
  /\ NewRun(r, "http", "scheduled")
  /\ registered' = r
  /\ progress' = Summary(r, "IDLE")
  /\ UNCHANGED <<at, status, cancelled, rows, context, retrying, stream>>

(* POST /reports, when there is no report and no finding to report on: the *)
(* handler runs a pipeline of its own.                                     *)
BuildReport(r) ==
  /\ ~IsRunning(registered)
  /\ (context # NoRun => state[context] # "SUCCESS")
  /\ NewRun(r, "report", "created")
  /\ registered' = r
  /\ UNCHANGED <<at, status, cancelled, rows, progress, context, retrying, stream>>

(* process_pipeline_job in a worker of this process: it does not register. *)
RunQueuedJob(r) ==
  /\ NewRun(r, "queue", "created")
  /\ UNCHANGED <<at, status, cancelled, rows, registered, progress, context, retrying, stream>>

(* Defect: the cancellation is not published.                              *)
CancelRequestSilent ==
  /\ IsRunning(registered)
  /\ Cancel(registered)
  /\ UNCHANGED <<progress, registered, kind, context, retrying, stream>>

(* POST /cancel.  The progress entry is a summary taken after cancel.      *)
CancelRequest ==
  /\ IF IsRunning(registered)
     THEN /\ Cancel(registered)
          /\ progress' = Summary(registered, "CANCELLED")
     ELSE /\ progress.state = "RUNNING"
          /\ progress' = [progress EXCEPT !.state = "CANCELLED"]
          /\ UNCHANGED pipelineVars
  /\ UNCHANGED <<registered, kind, context, retrying, stream>>

(* POST /retry up to its audit write.                                      *)
RetryCheck ==
  /\ progress.state # "RUNNING"
  /\ retrying < MaxRetries
  /\ retrying' = retrying + 1
  /\ UNCHANGED <<pipelineVars, registered, kind, progress, context, stream>>

(* The rest of POST /retry: cancel whatever is registered, start afresh.   *)
RetryStart(r) ==
  LET old == registered IN
  /\ retrying > 0
  /\ retrying' = retrying - 1
  /\ Unused(r) /\ "http" \in Kinds
  /\ kind' = [kind EXCEPT ![r] = "http"]
  /\ pc' = [pc EXCEPT ![old] = Interrupted(@), ![r] = "scheduled"]
  /\ cancelled' = [cancelled EXCEPT ![old] = TRUE]
  /\ status' = [status EXCEPT ![old] = Halt(@)]
  /\ state' = [state EXCEPT ![old] = "CANCELLED", ![r] = "RUNNING"]
  /\ rows' = RowsAfterCancel(old)
  /\ registered' = r
  /\ progress' = Summary(r, "IDLE")
  /\ context' = NoRun
  /\ UNCHANGED <<at, stream>>

(* POST /reset: cancel whatever is registered, register a fresh object and *)
(* overwrite the rows.                                                     *)
Reset(r) ==
  LET old == registered IN
  /\ Unused(r)
  /\ pc' = [pc EXCEPT ![old] = Interrupted(@), ![r] = "idle"]
  /\ cancelled' = [cancelled EXCEPT ![old] = TRUE]
  /\ status' = [status EXCEPT ![old] = Halt(@)]
  /\ state' = [state EXCEPT ![old] = "CANCELLED"]
  /\ rows' = Fresh
  /\ registered' = r
  /\ kind' = [kind EXCEPT ![r] = "reset"]
  /\ progress' = Summary(r, "IDLE")
  /\ context' = NoRun
  /\ UNCHANGED <<at, retrying, stream>>

(* GET /events creates the rows of an incident that has none.              *)
ReadEvents ==
  /\ \A s \in Stage : rows[s] = "ABSENT"
  /\ rows' = Initialized(rows)
  /\ UNCHANGED <<pc, at, status, state, cancelled, apiVars>>

-----------------------------------------------------------------------------
(* A step of the run up to its next await: the last thing a run with a     *)
(* callback does in it is to publish its summary.                          *)
RunStep(r) ==
  /\ \/ RunPipeline(r)
     \/ StageSucceeds(r)
     \/ StageDegrades(r)
     \/ StageFails(r)
     \/ Unwind(r)
  /\ progress' = IF HasCallback(r) THEN Summary(r, state'[r]) ELSE progress
  /\ UNCHANGED <<registered, kind, context, retrying, stream>>

(* process_incident begins; if it returns at once so does the wrapper.     *)
BeginRun(r) ==
  /\ ProcessIncident(r)
  /\ IF cancelled[r]
     THEN /\ context' = r
          /\ progress' = Summary(r, "CANCELLED")
     ELSE UNCHANGED <<context, progress>>
  /\ UNCHANGED <<registered, kind, retrying, stream>>

(* The awaiter of the inner task resumes: the wrapper keeps the context of *)
(* a run that returned and publishes the summary; the report handler only  *)
(* keeps the context.                                                      *)
EndRun(r) ==
  /\ Settle(r)
  /\ context' = IF pc[r] = "returned" THEN r ELSE context
  /\ progress' = IF IsWrapped(r) THEN Summary(r, state[r]) ELSE progress
  /\ UNCHANGED <<registered, kind, retrying, stream>>

(* One poll of websocket progress or of the event stream.                  *)
Poll ==
  /\ stream = "open"
  /\ progress.state \in {"SUCCESS", "FAILED", "CANCELLED"}
  /\ stream' = "closed"
  /\ UNCHANGED <<pipelineVars, registered, kind, progress, context, retrying>>

-----------------------------------------------------------------------------
(* One registered object: of a created incident (rows written), of an      *)
(* uploaded bundle (neither rows nor progress yet), or of an incident      *)
(* hydrated from its report after a restart.                               *)
Init ==
  \E r \in Run, s \in {"IDLE", "ABSENT", "SUCCESS"} :
    /\ r = (CHOOSE q \in Run : TRUE) /\ registered = r
    /\ pc = [q \in Run |-> IF q = r THEN "idle" ELSE "free"]
    /\ at = [q \in Run |-> 0]
    /\ status = [q \in Run |-> IF q = r /\ s = "SUCCESS"
                               THEN [t \in Stage |-> "SUCCESS"] ELSE Fresh]
    /\ state = [q \in Run |-> IF q = r /\ s = "SUCCESS" THEN "SUCCESS" ELSE "IDLE"]
    /\ cancelled = [q \in Run |-> FALSE]
    /\ kind = [q \in Run |-> "none"]
    /\ rows = [t \in Stage |-> IF s = "IDLE" THEN "NOT_STARTED" ELSE s]
    /\ progress = Summary(r, s)
    /\ context = IF s = "IDLE" THEN NoRun ELSE r
    /\ retrying = 0
    /\ stream = "open"

Next ==
  \/ \E r \in Run : \/ Reconstruct(r)
                    \/ BuildReport(r)
                    \/ RunQueuedJob(r)
                    \/ RetryStart(r)
                    \/ Reset(r)
                    \/ BeginRun(r)
                    \/ RunStep(r)
                    \/ EndRun(r)
  \/ CancelRequest
  \/ RetryCheck
  \/ ReadEvents
  \/ Poll

(* A run's steps are taken by the loop; requests, and the client's polls,  *)
(* come from outside.                                                      *)
RunFairness  == \A r \in Run : WF_vars(BeginRun(r) \/ RunStep(r) \/ EndRun(r))
PollFairness == WF_vars(Poll)

Spec       == Init /\ [][Next]_vars
FairSpec   == Spec /\ RunFairness
StreamSpec == FairSpec /\ PollFairness

-----------------------------------------------------------------------------
ApiTypeOK ==
  /\ TypeOK
  /\ registered \in Run
  /\ kind \in [Run -> Kinds \cup {"none", "reset"}]
  /\ progress \in [by : Run, state : RunStates \cup {"ABSENT"}]
  /\ context \in Run \cup {NoRun}
  /\ retrying \in 0 .. MaxRetries
  /\ stream \in {"open", "closed"}

(* One investigation per incident: of the runs the API started, only the   *)
(* registered one has work left to do.  reconstruct promises it with its   *)
(* 409; reports, retry and reset must keep it.                             *)
SingleInvestigation ==
  \A r \in Run : Working(r) /\ kind[r] # "queue" => registered = r

(* Progress that says RUNNING is about the registered run, and that run is *)
(* still at work: so the retry handler, which trusts this entry, is never  *)
(* locked out, and cancel finds a run to cancel.                           *)
ProgressHonest ==
  progress.state = "RUNNING" => progress.by = registered /\ Working(registered)

(* A row that says RUNNING is the stage some run of this process is at:    *)
(* neither a cancelled run nor one that was replaced leaves one behind.    *)
RowsHonest ==
  \A s \in Stage : rows[s] = "RUNNING" =>
    \E r \in Run : pc[r] = "executing" /\ at[r] = s /\ ~cancelled[r]

(* No progress entry stays RUNNING for ever.                               *)
RunningIsTemporary == (progress.state = "RUNNING") ~> (progress.state # "RUNNING")

(* Every run that has been started ends, and the investigation it belonged *)
(* to can be started again.                                                *)
EveryRunEnds == \A r \in Run : Working(r) ~> (pc[r] = "done")

Quiescent == \A r \in Run : pc[r] \in {"free", "idle", "done"}

(* reset_incident: "Reset an investigation and its pipeline stages back to *)
(* ready IDLE state."  When everything has settled and nothing was started *)
(* since the reset, the rows of the stages say so, also when the run that  *)
(* it cancelled was executing a stage and had to unwind.                   *)
ResetHolds == Quiescent /\ kind[registered] = "reset" => rows = Fresh

(* stream_incident_progress ends its stream when the investigation it      *)
(* follows has ended.                                                      *)
StreamEnds ==
  \A r \in Run : (pc[r] = "done" /\ registered = r) ~>
                 (stream = "closed" \/ registered # r)
=============================================================================
