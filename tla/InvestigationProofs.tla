------------------------- MODULE InvestigationProofs -------------------------
(***************************************************************************)
(* What holds of the API's handling of one incident for any number of      *)
(* runs and any pipeline.                                                  *)
(***************************************************************************)
EXTENDS Investigation, PipelineProofs

(* What ties the registry and the progress entry to the runs.              *)
RegistryInv ==
  /\ pc[registered] # "free"
  /\ \A r \in Run : /\ pc[r] = "scheduled" => kind[r] = "http"
                    /\ pc[r] \in {"cancelling", "aborting"} => cancelled[r]

ProgressInv ==
  /\ ProgressHonest
  /\ progress.state = "RUNNING" => HasCallback(progress.by)

ApiInv ==
  /\ ApiTypeOK
  /\ PipelineInv
  /\ RegistryInv
  /\ SingleInvestigation
  /\ ProgressInv

-----------------------------------------------------------------------------
(* A run that is not running, in the sense of is_running, has no work.     *)
LEMMA IdleRegistered ==
  ASSUME ApiInv, ~IsRunning(registered)
  PROVE  ~Working(registered) /\ progress.state # "RUNNING"
<1>1. ~Working(registered)
  BY DEF ApiInv, ApiTypeOK, RegistryInv, IsRunning, Working
<1> QED
  BY <1>1 DEF ApiInv, ProgressInv, ProgressHonest

(* Starting a run on a fresh orchestrator.                                 *)
LEMMA NewRunKeeps ==
  ASSUME ApiInv, NEW r \in Run, NEW k, NEW p \in {"scheduled", "created"},
         NewRun(r, k, p), UNCHANGED <<at, status, cancelled, rows>>
  PROVE  /\ PipelineInv'
         /\ kind' \in [Run -> Kinds \cup {"none", "reset"}]
         /\ ~cancelled[r]
<1>1. /\ pc \in [Run -> Control] /\ state \in [Run -> RunStates]
      /\ kind \in [Run -> Kinds \cup {"none", "reset"}] /\ TypeOK /\ RunInv(r)
  BY DEF ApiInv, ApiTypeOK, PipelineInv, TypeOK
<1>2. TypeOK'
  BY <1>1 DEF TypeOK, NewRun, Control, RunStates
<1>3. RunInv(r)'
  BY <1>1 DEF NewRun, Unused, RunInv, CancelledInv, StartInv, StageInv, EndInv
<1>4. ASSUME NEW q \in Run, q # r PROVE RunInv(q)'
  BY <1>1, <1>4, KeepsRunInv DEF NewRun, Keeps, ApiInv, PipelineInv
<1>5. ~cancelled[r]
  BY <1>1 DEF NewRun, Unused, RunInv, CancelledInv
<1> QED
  BY <1>1, <1>2, <1>3, <1>4, <1>5 DEF PipelineInv, NewRun

LEMMA ReconstructKeeps ==
  ASSUME ApiInv, NEW r \in Run, Reconstruct(r)
  PROVE  ApiInv'
<1>1. /\ PipelineInv' /\ kind' \in [Run -> Kinds \cup {"none", "reset"}] /\ ~cancelled[r]
  BY NewRunKeeps DEF Reconstruct
<1>2. /\ pc' = [pc EXCEPT ![r] = "scheduled"] /\ kind' = [kind EXCEPT ![r] = "http"]
      /\ registered' = r /\ progress' = [by |-> r, state |-> "IDLE"]
      /\ UNCHANGED <<cancelled, context, retrying, stream>>
  BY DEF Reconstruct, NewRun, Summary
<1>3. /\ pc \in [Run -> Control]
      /\ kind \in [Run -> Kinds \cup {"none", "reset"}]
  BY DEF ApiInv, ApiTypeOK, TypeOK
<1>4. ~Working(registered)
  BY IdleRegistered DEF Reconstruct
<1>5. ApiTypeOK'
  BY <1>1, <1>2 DEF ApiInv, ApiTypeOK, PipelineInv, RunStates
<1>6. RegistryInv'
  BY <1>2, <1>3 DEF ApiInv, RegistryInv
<1>7. SingleInvestigation'
  BY <1>2, <1>3, <1>4 DEF ApiInv, SingleInvestigation, Working
<1>8. ProgressInv'
  BY <1>2 DEF ProgressInv, ProgressHonest
<1> QED
  BY <1>1, <1>5, <1>6, <1>7, <1>8 DEF ApiInv

LEMMA BuildReportKeeps ==
  ASSUME ApiInv, NEW r \in Run, BuildReport(r)
  PROVE  ApiInv'
<1>1. /\ PipelineInv' /\ kind' \in [Run -> Kinds \cup {"none", "reset"}] /\ ~cancelled[r]
  BY NewRunKeeps DEF BuildReport
<1>2. /\ pc' = [pc EXCEPT ![r] = "created"] /\ kind' = [kind EXCEPT ![r] = "report"]
      /\ registered' = r
      /\ UNCHANGED <<cancelled, progress, context, retrying, stream>>
  BY DEF BuildReport, NewRun
<1>3. /\ pc \in [Run -> Control]
      /\ kind \in [Run -> Kinds \cup {"none", "reset"}]
  BY DEF ApiInv, ApiTypeOK, TypeOK
<1>4. ~Working(registered) /\ progress.state # "RUNNING"
  BY IdleRegistered DEF BuildReport
<1>5. ApiTypeOK'
  BY <1>1, <1>2 DEF ApiInv, ApiTypeOK, PipelineInv
<1>6. RegistryInv'
  BY <1>2, <1>3 DEF ApiInv, RegistryInv
<1>7. SingleInvestigation'
  BY <1>2, <1>3, <1>4 DEF ApiInv, SingleInvestigation, Working
<1>8. ProgressInv'
  BY <1>2, <1>4 DEF ProgressInv, ProgressHonest
<1> QED
  BY <1>1, <1>5, <1>6, <1>7, <1>8 DEF ApiInv

LEMMA RunQueuedJobKeeps ==
  ASSUME ApiInv, NEW r \in Run, RunQueuedJob(r)
  PROVE  ApiInv'
<1>1. /\ PipelineInv' /\ kind' \in [Run -> Kinds \cup {"none", "reset"}] /\ ~cancelled[r]
  BY NewRunKeeps DEF RunQueuedJob
<1>2. /\ pc[r] = "free"
      /\ pc' = [pc EXCEPT ![r] = "created"] /\ kind' = [kind EXCEPT ![r] = "queue"]
      /\ UNCHANGED <<registered, cancelled, progress, context, retrying, stream>>
  BY DEF RunQueuedJob, NewRun, Unused
<1>3. /\ pc \in [Run -> Control] /\ registered \in Run
      /\ kind \in [Run -> Kinds \cup {"none", "reset"}]
      /\ registered # r
  BY <1>2 DEF ApiInv, ApiTypeOK, TypeOK, RegistryInv
<1>5. ApiTypeOK'
  BY <1>1, <1>2 DEF ApiInv, ApiTypeOK, PipelineInv
<1>6. RegistryInv'
  BY <1>2, <1>3 DEF ApiInv, RegistryInv
<1>7. SingleInvestigation'
  BY <1>2, <1>3 DEF ApiInv, SingleInvestigation, Working
<1>8. ProgressInv'
  BY <1>2, <1>3 DEF ApiInv, ProgressInv, ProgressHonest, Working, HasCallback
<1> QED
  BY <1>1, <1>5, <1>6, <1>7, <1>8 DEF ApiInv
-----------------------------------------------------------------------------
LEMMA CancelRequestKeeps ==
  ASSUME ApiInv, CancelRequest
  PROVE  ApiInv'
<1>1. IsRunning(registered) /\ Cancel(registered) /\ progress' = Summary(registered, "CANCELLED")
  BY IdleRegistered DEF CancelRequest
<1>2. /\ registered \in Run /\ pc \in [Run -> Control] /\ pc[registered] \in Control
      /\ cancelled \in [Run -> BOOLEAN]
  BY DEF ApiInv, ApiTypeOK, TypeOK
<1>3. PipelineInv'
  BY <1>1, <1>2, CancelKeeps DEF ApiInv
<1>4. /\ pc' = [pc EXCEPT ![registered] = Interrupted(pc[registered])]
      /\ cancelled' = [cancelled EXCEPT ![registered] = TRUE]
      /\ UNCHANGED <<registered, kind, context, retrying, stream>>
  BY <1>1 DEF Cancel, CancelRequest
<1>5. ApiTypeOK'
  BY <1>1, <1>2, <1>3, <1>4
     DEF ApiInv, ApiTypeOK, PipelineInv, Summary, RunStates, FinalStates
<1>6. RegistryInv'
  <2>1. Interrupted(pc[registered]) = "scheduled" => pc[registered] = "scheduled"
    BY <1>2, InterruptedCases
  <2>2. Interrupted(pc[registered]) # "free"
    BY <1>2, InterruptedCases DEF ApiInv, RegistryInv
  <2> QED
    BY <1>2, <1>4, <2>1, <2>2 DEF ApiInv, RegistryInv
<1>7. SingleInvestigation'
  BY <1>2, <1>4 DEF ApiInv, SingleInvestigation, Working
<1>8. ProgressInv'
  BY <1>1 DEF ProgressInv, ProgressHonest, Summary
<1> QED
  BY <1>3, <1>5, <1>6, <1>7, <1>8 DEF ApiInv

(* Replacing the registered run by a fresh orchestrator, as retry and      *)
(* reset do: the old one is cancelled, the new one scheduled or left idle. *)
LEMMA ReplaceKeeps ==
  ASSUME ApiInv, NEW r \in Run, pc[r] = "free",
         NEW p \in {"scheduled", "idle"}, NEW k \in Kinds \cup {"reset"},
         p = "scheduled" => k = "http",
         pc' = [pc EXCEPT ![registered] = Interrupted(@), ![r] = p],
         cancelled' = [cancelled EXCEPT ![registered] = TRUE],
         status' = [status EXCEPT ![registered] = Halt(@)],
         state' = IF p = "scheduled"
                  THEN [state EXCEPT ![registered] = "CANCELLED", ![r] = "RUNNING"]
                  ELSE [state EXCEPT ![registered] = "CANCELLED"],
         rows' \in [Stage -> StageStatus \cup {"ABSENT"}],
         kind' = [kind EXCEPT ![r] = k],
         registered' = r, progress' = Summary(r, "IDLE"), context' = NoRun,
         retrying' \in 0 .. MaxRetries, UNCHANGED <<at, stream>>
  PROVE  ApiInv'
<1>0. PICK old \in Run : old = registered
  BY DEF ApiInv, ApiTypeOK
<1>1. /\ old \in Run /\ pc[old] # "free" /\ old # r
      /\ pc \in [Run -> Control] /\ pc[old] \in Control
      /\ status \in [Run -> [Stage -> StageStatus]] /\ status[old] \in [Stage -> StageStatus]
      /\ state \in [Run -> RunStates] /\ cancelled \in [Run -> BOOLEAN]
      /\ kind \in [Run -> Kinds \cup {"none", "reset"}]
      /\ TypeOK /\ RunInv(old) /\ RunInv(r)
  BY <1>0 DEF ApiInv, ApiTypeOK, TypeOK, RegistryInv, PipelineInv
<1>2. Interrupted(pc[old]) \in Control /\ Halt(status[old]) \in [Stage -> StageStatus]
  <2>1. Halt(status[old]) \in [Stage -> StageStatus]
    <3> DEFINE st == status[old]
    <3>1. st \in [Stage -> StageStatus] /\ st \in [Stage -> StageStatus \cup {"ABSENT"}]
      BY <1>1
    <3> HIDE DEF st
    <3>2. Halt(st) \in [Stage -> StageStatus]
      BY <3>1, HaltFacts
    <3> QED
      BY <3>2 DEF st
  <2> QED
    BY <1>1, <2>1, InterruptedCases
<1>3. TypeOK'
  BY <1>0, <1>1, <1>2 DEF TypeOK, Control, RunStates, FinalStates
<1>4. RunInv(old)'
  <2>1. Cancels(old)
    BY <1>0, <1>1 DEF Cancels
  <2> QED
    BY <1>1, <2>1, CancelsRunInv
<1>5. RunInv(r)'
  <2>0. at[r] = 0 /\ status[r] = Fresh /\ cancelled[r] = FALSE /\ state[r] = "IDLE"
    BY <1>1 DEF RunInv, CancelledInv, StartInv
  <2>1. /\ pc'[r] = p /\ at'[r] = 0 /\ status'[r] = Fresh /\ cancelled'[r] = FALSE
    BY <1>0, <1>1, <2>0
  <2>2. CASE p = "scheduled"
    <3>1. state' = [state EXCEPT ![old] = "CANCELLED", ![r] = "RUNNING"]
      BY <1>0, <2>2
    <3>2. state'[r] = "RUNNING"
      BY <1>1, <3>1
    <3>3. \A s \in Stage : status'[r][s] # "RUNNING"
      BY <2>1 DEF Fresh
    <3> QED
      BY <2>1, <2>2, <3>2, <3>3 DEF RunInv, CancelledInv, StartInv, StageInv, EndInv
  <2>3. CASE p = "idle"
    <3>1. state'[r] = "IDLE"
      BY <1>0, <1>1, <2>0, <2>3
    <3> QED
      BY <2>1, <2>3, <3>1 DEF RunInv, CancelledInv, StartInv, StageInv, EndInv, Fresh
  <2> QED
    BY <2>2, <2>3
<1>6. ASSUME NEW q \in Run, q # r, q # old PROVE RunInv(q)'
  <2>1. Keeps(q)
    BY <1>0, <1>1, <1>6 DEF Keeps
  <2> QED
    BY <1>6, <2>1, KeepsRunInv DEF ApiInv, PipelineInv
<1>7. PipelineInv'
  BY <1>3, <1>4, <1>5, <1>6 DEF PipelineInv
<1>8. ApiTypeOK'
  BY <1>1, <1>3 DEF ApiInv, ApiTypeOK, Summary, RunStates
<1>9. RegistryInv'
  <2>1. Interrupted(pc[old]) = "scheduled" => pc[old] = "scheduled"
    BY <1>1, InterruptedCases
  <2> QED
    BY <1>0, <1>1, <2>1 DEF ApiInv, RegistryInv
<1>10. SingleInvestigation'
  BY <1>0, <1>1 DEF ApiInv, SingleInvestigation, Working
<1>11. ProgressInv'
  BY DEF ProgressInv, ProgressHonest, Summary
<1> QED
  BY <1>7, <1>8, <1>9, <1>10, <1>11 DEF ApiInv

LEMMA RetryStartKeeps ==
  ASSUME ApiInv, NEW r \in Run, RetryStart(r)
  PROVE  ApiInv'
<1>1. RowsAfterCancel(registered) \in [Stage -> StageStatus \cup {"ABSENT"}]
  BY RowsAfterCancelType DEF ApiInv, ApiTypeOK
<1>2. retrying' \in 0 .. MaxRetries
  BY InvestigationAssumption DEF ApiInv, ApiTypeOK, RetryStart
<1> QED
  BY <1>1, <1>2, ReplaceKeeps DEF RetryStart, Unused

LEMMA ResetKeeps ==
  ASSUME ApiInv, NEW r \in Run, Reset(r)
  PROVE  ApiInv'
<1>1. Fresh \in [Stage -> StageStatus \cup {"ABSENT"}]
  BY DEF Fresh, StageStatus
<1>2. retrying' \in 0 .. MaxRetries
  BY DEF ApiInv, ApiTypeOK, Reset
<1> QED
  BY <1>1, <1>2, ReplaceKeeps DEF Reset, Unused
-----------------------------------------------------------------------------
(* What a step of run r does to the control of the runs: only that of r    *)
(* moves, and it has work left only if it had some before.                 *)
LEMMA RunStepEffect ==
  ASSUME ApiInv, NEW r \in Run, RunStep(r)
  PROVE  /\ PipelineInv'
         /\ Working(r)' => Working(r)
         /\ state'[r] = "RUNNING" => Working(r)'
         /\ pc'[r] \in {"executing", "returned", "raised"}
         /\ \A q \in Run : q # r => pc'[q] = pc[q] /\ cancelled'[q] = cancelled[q]
<1>1. PipelineInv /\ PipelineInv'
  BY RunPipelineKeeps, StageSucceedsKeeps, StageDegradesKeeps, StageFailsKeeps, UnwindKeeps
     DEF RunStep, ApiInv
<1>2. /\ TypeOK /\ RunInv(r)
  BY <1>1 DEF PipelineInv
<1>3. CASE RunPipeline(r)
  BY <1>1, <1>2, <1>3 DEF RunPipeline, EnterStage, TypeOK, RunInv, CancelledInv, Working
<1>4. ASSUME NEW outcome \in {"SUCCESS", "DEGRADED"}, pc[r] = "executing",
             at[r] \in Required => outcome = "SUCCESS", Proceed(r, outcome)
      PROVE  /\ Working(r)' => Working(r)
             /\ state'[r] = "RUNNING" => Working(r)'
             /\ pc'[r] \in {"executing", "returned", "raised"}
             /\ \A q \in Run : q # r => pc'[q] = pc[q] /\ cancelled'[q] = cancelled[q]
  <2>1. ~cancelled[r]
    BY <1>2, <1>4 DEF RunInv, CancelledInv
  <2>2. ASSUME NEW s, NEW st, EnterStage(r, s, st)
        PROVE  /\ pc'[r] = "executing" /\ cancelled' = cancelled
               /\ \A q \in Run : q # r => pc'[q] = pc[q]
    BY <1>2, <2>2 DEF EnterStage, TypeOK
  <2>3. ASSUME NEW v \in {"SUCCESS", "DEGRADED", "PARTIAL"}, NEW st, Return(r, st, v)
        PROVE  /\ pc'[r] = "returned" /\ cancelled' = cancelled /\ state'[r] # "RUNNING"
               /\ \A q \in Run : q # r => pc'[q] = pc[q]
    BY <1>2, <2>3 DEF Return, TypeOK
  <2>4. CASE pc'[r] = "executing" /\ cancelled' = cancelled /\ \A q \in Run : q # r => pc'[q] = pc[q]
    BY <1>4, <2>1, <2>4 DEF Working
  <2>5. CASE /\ pc'[r] = "returned" /\ cancelled' = cancelled /\ state'[r] # "RUNNING"
             /\ \A q \in Run : q # r => pc'[q] = pc[q]
    BY <2>5 DEF Working
  <2> QED
    BY <1>1, <1>4, <2>2, <2>3, <2>4, <2>5, ProceedCases
<1>5. CASE StageFails(r)
  <2>1. /\ pc'[r] = "returned" /\ cancelled' = cancelled /\ state'[r] = "FAILED"
        /\ \A q \in Run : q # r => pc'[q] = pc[q]
    BY <1>2, <1>5 DEF StageFails, Return, TypeOK
  <2> QED
    BY <1>1, <2>1 DEF Working
<1>6. CASE Unwind(r)
  <2>1. /\ pc'[r] = "raised" /\ state'[r] = "CANCELLED"
        /\ \A q \in Run : q # r => pc'[q] = pc[q] /\ cancelled'[q] = cancelled[q]
    BY <1>2, <1>6 DEF Unwind, TypeOK
  <2> QED
    BY <1>1, <2>1 DEF Working
<1> QED
  BY <1>1, <1>3, <1>4, <1>5, <1>6 DEF RunStep, StageSucceeds, StageDegrades

LEMMA RunStepKeeps ==
  ASSUME ApiInv, NEW r \in Run, RunStep(r)
  PROVE  ApiInv'
<1>1. /\ PipelineInv'
      /\ Working(r)' => Working(r)
      /\ state'[r] = "RUNNING" => Working(r)'
      /\ pc'[r] \in {"executing", "returned", "raised"}
      /\ \A q \in Run : q # r => pc'[q] = pc[q] /\ cancelled'[q] = cancelled[q]
  BY RunStepEffect
<1>2. /\ progress' = IF HasCallback(r) THEN Summary(r, state'[r]) ELSE progress
      /\ UNCHANGED <<registered, kind, context, retrying, stream>>
  BY DEF RunStep
<1>3. state'[r] \in RunStates
  BY <1>1 DEF PipelineInv, TypeOK
<1>4. ApiTypeOK'
  BY <1>1, <1>2, <1>3 DEF ApiInv, ApiTypeOK, PipelineInv, Summary
<1>5. RegistryInv'
  BY <1>1, <1>2 DEF ApiInv, ApiTypeOK, RegistryInv
<1>6. \A q \in Run : Working(q)' => Working(q)
  BY <1>1 DEF Working
<1>7. SingleInvestigation'
  BY <1>2, <1>6 DEF ApiInv, SingleInvestigation
<1>8. ProgressInv'
  <2>1. CASE HasCallback(r)
    <3>1. state'[r] = "RUNNING" => registered = r
      BY <1>1, <2>1 DEF ApiInv, SingleInvestigation, HasCallback
    <3> QED
      BY <1>1, <1>2, <2>1, <3>1 DEF ProgressInv, ProgressHonest, HasCallback, Summary
  <2>2. CASE ~HasCallback(r)
    <3>1. progress.state = "RUNNING" => registered \in Run /\ registered # r /\ Working(registered)
      BY <2>2 DEF ApiInv, ApiTypeOK, ProgressInv, ProgressHonest
    <3> QED
      BY <1>1, <1>2, <2>2, <3>1 DEF ApiInv, ProgressInv, ProgressHonest, HasCallback, Working
  <2> QED
    BY <2>1, <2>2
<1> QED
  BY <1>1, <1>4, <1>5, <1>7, <1>8 DEF ApiInv

LEMMA BeginRunKeeps ==
  ASSUME ApiInv, NEW r \in Run, BeginRun(r)
  PROVE  ApiInv'
<1>1. PipelineInv'
  BY ProcessIncidentKeeps DEF ApiInv, BeginRun
<1>2. /\ pc \in [Run -> Control] /\ pc[r] = "scheduled"
      /\ pc' = [pc EXCEPT ![r] = IF cancelled[r] THEN "done" ELSE "created"]
      /\ UNCHANGED <<cancelled, registered, kind, retrying, stream>>
      /\ context' = IF cancelled[r] THEN r ELSE context
      /\ progress' = IF cancelled[r] THEN Summary(r, "CANCELLED") ELSE progress
  BY DEF ApiInv, ApiTypeOK, TypeOK, BeginRun, ProcessIncident
<1>3. ApiTypeOK'
  BY <1>1, <1>2 DEF ApiInv, ApiTypeOK, PipelineInv, Summary, RunStates, FinalStates
<1>4. RegistryInv'
  BY <1>2 DEF ApiInv, ApiTypeOK, RegistryInv
<1>5. \A q \in Run : (Working(q)' => Working(q)) /\ (~cancelled[r] => (Working(q) => Working(q)'))
  BY <1>2 DEF Working
<1>6. SingleInvestigation'
  BY <1>2, <1>5 DEF ApiInv, SingleInvestigation
<1>7. ProgressInv'
  <2>1. CASE cancelled[r]
    BY <1>2, <2>1 DEF ProgressInv, ProgressHonest, Summary
  <2>2. CASE ~cancelled[r]
    BY <1>2, <1>5, <2>2 DEF ApiInv, ApiTypeOK, ProgressInv, ProgressHonest, HasCallback
  <2> QED
    BY <2>1, <2>2
<1> QED
  BY <1>1, <1>3, <1>4, <1>6, <1>7 DEF ApiInv

LEMMA EndRunKeeps ==
  ASSUME ApiInv, NEW r \in Run, EndRun(r)
  PROVE  ApiInv'
<1>1. PipelineInv'
  BY SettleKeeps DEF ApiInv, EndRun
<1>2. /\ pc \in [Run -> Control] /\ pc[r] \in {"returned", "raised", "aborting"}
      /\ state[r] \in RunStates
      /\ pc' = [pc EXCEPT ![r] = "done"]
      /\ UNCHANGED <<state, cancelled, registered, kind, retrying, stream>>
      /\ context' \in {r, context}
      /\ progress' = IF IsWrapped(r) THEN Summary(r, state[r]) ELSE progress
  BY DEF ApiInv, ApiTypeOK, TypeOK, EndRun, Settle
<1>3. state[r] # "RUNNING"
  BY <1>2 DEF ApiInv, PipelineInv, RegistryInv, RunInv, EndInv, CancelledInv, FinalStates
<1>4. ApiTypeOK'
  BY <1>1, <1>2 DEF ApiInv, ApiTypeOK, PipelineInv, Summary
<1>5. RegistryInv'
  BY <1>2 DEF ApiInv, ApiTypeOK, RegistryInv
<1>6. \A q \in Run : Working(q)' <=> Working(q)
  BY <1>2 DEF Working
<1>7. SingleInvestigation'
  BY <1>2, <1>6 DEF ApiInv, SingleInvestigation
<1>8. ProgressInv'
  <2>1. CASE IsWrapped(r)
    BY <1>2, <1>3, <2>1 DEF ProgressInv, ProgressHonest, Summary
  <2>2. CASE ~IsWrapped(r)
    BY <1>2, <1>6, <2>2 DEF ApiInv, ApiTypeOK, ProgressInv, ProgressHonest, HasCallback
  <2> QED
    BY <2>1, <2>2
<1> QED
  BY <1>1, <1>4, <1>5, <1>7, <1>8 DEF ApiInv
-----------------------------------------------------------------------------
LEMMA ApiInitInv == Init => ApiInv
<1> SUFFICES ASSUME NEW r \in Run, NEW x \in {"IDLE", "ABSENT", "SUCCESS"},
                    registered = r,
                    pc = [q \in Run |-> IF q = r THEN "idle" ELSE "free"],
                    at = [q \in Run |-> 0],
                    status = [q \in Run |-> IF q = r /\ x = "SUCCESS"
                                           THEN [t \in Stage |-> "SUCCESS"] ELSE Fresh],
                    state = [q \in Run |-> IF q = r /\ x = "SUCCESS" THEN "SUCCESS" ELSE "IDLE"],
                    cancelled = [q \in Run |-> FALSE],
                    kind = [q \in Run |-> "none"],
                    rows = [t \in Stage |-> IF x = "IDLE" THEN "NOT_STARTED" ELSE x],
                    progress = Summary(r, x),
                    context = IF x = "IDLE" THEN NoRun ELSE r,
                    retrying = 0, stream = "open"
             PROVE  ApiInv
  BY Zenon DEF Init
<1>1. TypeOK
  BY StageFacts DEF TypeOK, Fresh, Control, StageStatus, RunStates, FinalStates
<1>2. ASSUME NEW q \in Run PROVE RunInv(q)
  BY <1>1 DEF RunInv, CancelledInv, StartInv, StageInv, EndInv, Fresh
<1>3. ApiTypeOK
  BY <1>1, InvestigationAssumption DEF ApiTypeOK, Summary, RunStates, FinalStates
<1>4. RegistryInv /\ SingleInvestigation /\ ProgressInv
  BY DEF RegistryInv, SingleInvestigation, Working, ProgressInv, ProgressHonest, Summary
<1> QED
  BY <1>1, <1>2, <1>3, <1>4 DEF ApiInv, PipelineInv

LEMMA ApiStepInv == ApiInv /\ [Next]_vars => ApiInv'
<1> SUFFICES ASSUME ApiInv, [Next]_vars PROVE ApiInv'
  OBVIOUS
<1>1. ASSUME UNCHANGED <<pipelineVars, registered, kind, progress>>,
             context' = context, retrying' \in 0 .. MaxRetries,
             stream' \in {"open", "closed"}
      PROVE  ApiInv'
  <2>1. TypeOK'
    BY <1>1 DEF ApiInv, ApiTypeOK, TypeOK, pipelineVars
  <2>2. ASSUME NEW q \in Run PROVE RunInv(q)'
    BY <1>1, KeepsRunInv DEF ApiInv, PipelineInv, pipelineVars, Keeps
  <2> QED
    BY <1>1, <2>1, <2>2 DEF ApiInv, ApiTypeOK, PipelineInv, RegistryInv, SingleInvestigation,
       ProgressInv, ProgressHonest, HasCallback, Working, pipelineVars
<1>2. CASE RetryCheck
  <2>1. retrying' \in 0 .. MaxRetries
    BY <1>2, InvestigationAssumption DEF RetryCheck, ApiInv, ApiTypeOK
  <2> QED
    BY <1>1, <1>2, <2>1 DEF RetryCheck, ApiInv, ApiTypeOK
<1>3. CASE Poll
  BY <1>1, <1>3 DEF Poll, ApiInv, ApiTypeOK
<1>4. CASE UNCHANGED vars
  BY <1>1, <1>4 DEF vars, apiVars, ApiInv, ApiTypeOK
<1>5. CASE ReadEvents
  <2>1. TypeOK'
    BY <1>5 DEF ReadEvents, Initialized, ApiInv, ApiTypeOK, TypeOK, StageStatus
  <2>2. ASSUME NEW q \in Run PROVE RunInv(q)'
    BY <1>5, KeepsRunInv DEF ReadEvents, ApiInv, PipelineInv, Keeps
  <2> QED
    BY <1>5, <2>1, <2>2 DEF ReadEvents, apiVars, ApiInv, ApiTypeOK, PipelineInv, RegistryInv,
       SingleInvestigation, ProgressInv, ProgressHonest, HasCallback, Working
<1>6. CASE CancelRequest
  BY <1>6, CancelRequestKeeps
<1>7. ASSUME NEW r \in Run,
             \/ Reconstruct(r) \/ BuildReport(r) \/ RunQueuedJob(r) \/ RetryStart(r)
             \/ Reset(r) \/ BeginRun(r) \/ RunStep(r) \/ EndRun(r)
      PROVE  ApiInv'
  BY <1>7, ReconstructKeeps, BuildReportKeeps, RunQueuedJobKeeps, RetryStartKeeps, ResetKeeps,
     BeginRunKeeps, RunStepKeeps, EndRunKeeps
<1> QED
  BY <1>2, <1>3, <1>4, <1>5, <1>6, <1>7 DEF Next

(* Registry, progress entry and runs stay tied together.                   *)
THEOREM ApiInvariant == Spec => []ApiInv
BY ApiInitInv, ApiStepInv, PTL DEF Spec

(* The type invariant.                                                     *)
THEOREM ApiTyped == Spec => []ApiTypeOK
<1>1. ApiInv => ApiTypeOK
  BY DEF ApiInv
<1> QED
  BY <1>1, ApiInvariant, PTL

(* However reconstruct, reports, retry, reset and cancel interleave with   *)
(* the runs, the API never has two investigations of an incident at work.  *)
THEOREM OneInvestigation == Spec => []SingleInvestigation
<1>1. ApiInv => SingleInvestigation
  BY DEF ApiInv
<1> QED
  BY <1>1, ApiInvariant, PTL

(* Progress that says RUNNING is about the registered run, at work.        *)
THEOREM ProgressIsHonest == Spec => []ProgressHonest
<1>1. ApiInv => ProgressHonest
  BY DEF ApiInv, ProgressInv
<1> QED
  BY <1>1, ApiInvariant, PTL

-----------------------------------------------------------------------------
LEMMA ApiCancelStep ==
  ASSUME ApiInv, [Next]_vars, NEW q \in Run, cancelled[q]
  PROVE  cancelled'[q] /\ at'[q] = at[q]
<1>1. /\ pc[q] \notin {"free", "created", "executing"}
      /\ cancelled \in [Run -> BOOLEAN] /\ at \in [Run -> 0 .. NumStages]
  BY DEF ApiInv, PipelineInv, TypeOK, RunInv, CancelledInv
<1>2. ASSUME NEW r \in Run, RunStep(r) PROVE cancelled'[q] /\ at'[q] = at[q]
  BY <1>1, <1>2 DEF RunStep, RunPipeline, StageSucceeds, StageDegrades, StageFails, Proceed,
     EnterStage, Return, Unwind
<1>3. ASSUME NEW r \in Run,
             \/ Reconstruct(r) \/ BuildReport(r) \/ RunQueuedJob(r)
             \/ RetryStart(r) \/ Reset(r) \/ BeginRun(r) \/ EndRun(r)
      PROVE  cancelled'[q] /\ at'[q] = at[q]
  BY <1>1, <1>3 DEF Reconstruct, BuildReport, RunQueuedJob, NewRun, RetryStart, Reset, BeginRun,
     ProcessIncident, EndRun, Settle
<1>4. ASSUME CancelRequest PROVE cancelled'[q] /\ at'[q] = at[q]
  BY <1>1, <1>4 DEF CancelRequest, Cancel, pipelineVars
<1> QED
  BY <1>2, <1>3, <1>4 DEF Next, RetryCheck, ReadEvents, Poll, vars, pipelineVars

(* A cancelled run stays cancelled and starts no stage, whichever handler  *)
(* cancelled it and whatever is started after it.                          *)
THEOREM ApiCancellationIsFinal == Spec => CancelIsFinal
<1>1. ApiInv /\ ApiInv' /\ [Next]_vars
      => [\A r \in Run : cancelled[r] =>
            /\ cancelled'[r] /\ state'[r] = "CANCELLED"
            /\ at'[r] = at[r]
            /\ \A s \in Stage : status'[r][s] # "RUNNING"]_pipelineVars
  <2> SUFFICES ASSUME ApiInv, ApiInv', [Next]_vars, NEW r \in Run, cancelled[r]
               PROVE  /\ cancelled'[r] /\ state'[r] = "CANCELLED"
                      /\ at'[r] = at[r]
                      /\ \A s \in Stage : status'[r][s] # "RUNNING"
    OBVIOUS
  <2>1. cancelled'[r] /\ at'[r] = at[r]
    BY ApiCancelStep
  <2> QED
    BY <2>1 DEF ApiInv, PipelineInv, RunInv, CancelledInv, StageInv
<1> QED
  BY <1>1, ApiInvariant, PTL DEF Spec, CancelIsFinal

-----------------------------------------------------------------------------
(* A run that executes a stage goes on doing so in every step that is not  *)
(* its own and does not cancel it.                                         *)
AtWork(r, s) == pc[r] = "executing" /\ at[r] = s /\ ~cancelled[r]

LEMMA RowsAfterCancelHalts ==
  ASSUME NEW r \in Run, TypeOK, NEW s \in Stage
  PROVE  RowsAfterCancel(r)[s] # "RUNNING"
<1> DEFINE before == [t \in Stage |-> IF Halt(status[r])[t] # status[r][t]
                                     THEN Halt(status[r])[t] ELSE rows[t]]
<1>1. Halt(before)[s] # "RUNNING"
  BY DEF Halt
<1> QED
  BY <1>1 DEF RowsAfterCancel

LEMMA RowsStep ==
  ASSUME ApiInv, ApiInv', RowsHonest, [Next]_vars
  PROVE  RowsHonest'
<1> SUFFICES ASSUME NEW s \in Stage, rows'[s] = "RUNNING"
             PROVE  \E r \in Run : AtWork(r, s)'
  BY DEF RowsHonest, AtWork
<1>1. /\ TypeOK /\ TypeOK' /\ registered \in Run
      /\ rows[s] = "RUNNING" => \E r \in Run : AtWork(r, s)
  BY DEF ApiInv, ApiTypeOK, RowsHonest, AtWork
<1>2. ASSUME NEW r \in Run, RunPipeline(r) PROVE \E q \in Run : AtWork(q, s)'
  <2>1. AtWork(r, 1)'
    BY <1>1, <1>2 DEF RunPipeline, EnterStage, AtWork, ApiInv, PipelineInv, RunInv, CancelledInv, TypeOK
  <2>2. s # 1 => rows[s] = "RUNNING"
    BY <1>1, <1>2 DEF RunPipeline, Initialized, TypeOK
  <2>3. \A q \in Run : AtWork(q, s) => AtWork(q, s)'
    BY <1>1, <1>2 DEF RunPipeline, EnterStage, AtWork, TypeOK
  <2> QED
    BY <1>1, <2>1, <2>2, <2>3
<1>3. ASSUME NEW r \in Run, PersistChanges(r), pc[r] = "executing",
             pc'[r] \in {"executing", "returned"},
             pc'[r] = "executing" => at'[r] # at[r],
             UNCHANGED cancelled,
             \A q \in Run : q # r => pc'[q] = pc[q] /\ at'[q] = at[q]
      PROVE  \E q \in Run : AtWork(q, s)'
  <2>1. \A t \in Stage : status'[r][t] = "RUNNING" => AtWork(r, t)'
    BY <1>3 DEF AtWork, ApiInv, PipelineInv, RunInv, StageInv
  <2>2. rows'[s] = IF status'[r][s] # status[r][s] THEN status'[r][s] ELSE rows[s]
    BY <1>3 DEF PersistChanges
  <2>3. CASE status'[r][s] = "RUNNING"
    BY <2>1, <2>3
  <2>4. CASE status'[r][s] # "RUNNING"
    <3>1. rows[s] = "RUNNING" /\ status[r][s] # "RUNNING"
      BY <2>2, <2>4
    <3>2. PICK q \in Run : AtWork(q, s)
      BY <1>1, <3>1
    <3>3. at[r] \in Stage /\ status[r][at[r]] = "RUNNING"
      BY <1>3 DEF ApiInv, PipelineInv, RunInv, StageInv, InOrder
    <3>4. q # r
      BY <3>1, <3>2, <3>3 DEF AtWork
    <3> QED
      BY <1>3, <3>2, <3>4 DEF AtWork
  <2> QED
    BY <2>3, <2>4
<1>4. ASSUME NEW r \in Run, NEW outcome, pc[r] = "executing", Proceed(r, outcome), PersistChanges(r)
      PROVE  \E q \in Run : AtWork(q, s)'
  <2>1. at[r] \in Nat
    BY <1>1, <1>4, StageFacts DEF ApiInv, PipelineInv, RunInv, StageInv
  <2>2. /\ pc'[r] \in {"executing", "returned"}
        /\ pc'[r] = "executing" => at'[r] # at[r]
        /\ UNCHANGED cancelled
        /\ \A q \in Run : q # r => pc'[q] = pc[q] /\ at'[q] = at[q]
    <3>1. ASSUME NEW st, EnterStage(r, at[r] + 1, st)
          PROVE  /\ pc'[r] = "executing" /\ at'[r] = at[r] + 1 /\ UNCHANGED cancelled
                 /\ \A q \in Run : q # r => pc'[q] = pc[q] /\ at'[q] = at[q]
      BY <1>1, <3>1 DEF EnterStage, TypeOK
    <3>2. ASSUME NEW st, NEW v, Return(r, st, v)
          PROVE  /\ pc'[r] = "returned" /\ UNCHANGED cancelled
                 /\ \A q \in Run : q # r => pc'[q] = pc[q] /\ at'[q] = at[q]
      BY <1>1, <3>2 DEF Return, TypeOK
    <3>3. at[r] + 1 # at[r]
      BY <2>1
    <3> QED
      BY <1>4, <3>1, <3>2, <3>3 DEF Proceed
  <2> QED
    BY <1>3, <1>4, <2>2
<1>5. ASSUME NEW r \in Run, StageFails(r) PROVE \E q \in Run : AtWork(q, s)'
  <2>1. /\ pc[r] = "executing" /\ pc'[r] = "returned" /\ UNCHANGED cancelled
        /\ \A q \in Run : q # r => pc'[q] = pc[q] /\ at'[q] = at[q]
    BY <1>1, <1>5 DEF StageFails, Return, TypeOK
  <2> QED
    BY <1>3, <1>5, <2>1 DEF StageFails
<1>6. ASSUME NEW r \in Run, Unwind(r) PROVE \E q \in Run : AtWork(q, s)'
  <2> DEFINE st == BlockDependents([status[r] EXCEPT ![at[r]] = "CANCELLED"], at[r])
  <2>1. /\ pc'[r] = "raised" /\ status'[r] = st
        /\ rows'[s] = IF s = at[r] \/ st[s] # status[r][s] THEN st[s] ELSE rows[s]
    BY <1>1, <1>6 DEF Unwind, TypeOK
  <2>2. status'[r][s] # "RUNNING"
    BY <2>1 DEF ApiInv, PipelineInv, RunInv, StageInv
  <2>3. rows[s] = "RUNNING"
    BY <2>1, <2>2
  <2>4. \A q \in Run : AtWork(q, s) => AtWork(q, s)'
    BY <1>1, <1>6 DEF Unwind, AtWork, TypeOK
  <2> QED
    BY <1>1, <2>3, <2>4
<1>7. ASSUME NEW r \in Run, RetryStart(r) PROVE FALSE
  BY <1>7, HaltFacts, RowsAfterCancelHalts DEF RetryStart, ApiInv, ApiTypeOK
<1>8. ASSUME CancelRequest PROVE FALSE
  <2>1. Cancel(registered)
    BY <1>8, IdleRegistered DEF CancelRequest
  <2> QED
    BY <1>1, <2>1, RowsAfterCancelHalts DEF Cancel
<1>9. ASSUME NEW r \in Run, Reset(r) PROVE FALSE
  BY <1>9 DEF Reset, Fresh
<1>10. ASSUME NEW r \in Run,
              Reconstruct(r) \/ BuildReport(r) \/ RunQueuedJob(r) \/ BeginRun(r) \/ EndRun(r)
       PROVE  \E q \in Run : AtWork(q, s)'
  <2>1. rows' = rows /\ \A q \in Run : AtWork(q, s) => AtWork(q, s)'
    BY <1>1, <1>10 DEF Reconstruct, BuildReport, RunQueuedJob, NewRun, Unused, BeginRun, ProcessIncident,
       EndRun, Settle, AtWork, TypeOK
  <2> QED
    BY <1>1, <2>1
<1>11. ASSUME ReadEvents PROVE FALSE
  BY <1>11 DEF ReadEvents, Initialized
<1>12. CASE UNCHANGED pipelineVars
  BY <1>1, <1>12 DEF pipelineVars, AtWork
<1>13. ASSUME NEW r \in Run, RunStep(r) PROVE \E q \in Run : AtWork(q, s)'
  BY <1>2, <1>4, <1>5, <1>6, <1>13 DEF RunStep, StageSucceeds, StageDegrades
<1> QED
  BY <1>7, <1>8, <1>9, <1>10, <1>11, <1>12, <1>13 DEF Next, RetryCheck, Poll, vars

(* A row that says RUNNING is backed by a run that executes that stage.    *)
THEOREM RowsAreHonest == Spec => []RowsHonest
<1>1. Init => RowsHonest
  BY DEF Init, RowsHonest
<1>2. RowsHonest /\ ApiInv /\ ApiInv' /\ [Next]_vars => RowsHonest'
  BY RowsStep
<1> QED
  BY <1>1, <1>2, ApiInvariant, PTL DEF Spec

-----------------------------------------------------------------------------
(* What every run keeps to, whichever handler started it, retried it, or   *)
(* reset it: the pipeline's own promises.                                  *)

(* No handler makes a run enter a stage before its prerequisites.          *)
THEOREM ApiPrerequisitesMet == Spec => []PrerequisitesMet
<1>1. ApiInv => PrerequisitesMet
  BY PrerequisitesFollow DEF ApiInv
<1> QED
  BY <1>1, ApiInvariant, PTL

LEMMA ApiFinishedStep ==
  ASSUME ApiInv, [Next]_vars, NEW q \in Run, NEW s \in Stage, status[q][s] \in Finished
  PROVE  status'[q][s] = status[q][s]
<1>1. status \in [Run -> [Stage -> StageStatus]] /\ registered \in Run /\ PipelineInv
  BY DEF ApiInv, ApiTypeOK, TypeOK
<1>2. CASE UNCHANGED status
  BY <1>2
<1>3. ASSUME NEW r \in Run, RunStep(r) PROVE status'[q][s] = status[q][s]
  BY <1>1, <1>3, FinishedKept DEF RunStep
<1>4. CASE CancelRequest
  BY <1>1, <1>2, <1>4, FinishedKept DEF CancelRequest, pipelineVars
<1>5. CASE status' = [status EXCEPT ![registered] = Halt(@)]
  <2>1. Halt(status[q])[s] = status[q][s]
    BY <1>1 DEF Halt, Finished
  <2> QED
    BY <1>1, <1>5, <2>1
<1>6. ASSUME NEW r \in Run, RetryStart(r) \/ Reset(r)
      PROVE  status' = [status EXCEPT ![registered] = Halt(@)]
  BY <1>6 DEF RetryStart, Reset
<1>7. ASSUME NEW r \in Run, \/ Reconstruct(r) \/ BuildReport(r) \/ RunQueuedJob(r)
                            \/ BeginRun(r) \/ EndRun(r)
      PROVE  UNCHANGED status
  BY <1>7 DEF Reconstruct, BuildReport, RunQueuedJob, BeginRun, ProcessIncident, EndRun, Settle
<1> QED
  BY <1>2, <1>3, <1>4, <1>5, <1>6, <1>7
     DEF Next, RetryCheck, ReadEvents, Poll, vars, pipelineVars

(* A stage that has ended in one run keeps its verdict: a cancel, a retry  *)
(* or a reset relabels only what had not ended.                            *)
THEOREM ApiFinishedStagesStay == Spec => FinishedStagesStay
<1>1. ApiInv /\ [Next]_vars
      => [\A r \in Run, s \in Stage :
            status[r][s] \in {"SUCCESS", "DEGRADED", "PARTIAL", "FAILED"} =>
              status'[r][s] = status[r][s]]_pipelineVars
  BY ApiFinishedStep DEF Finished
<1> QED
  BY <1>1, ApiInvariant, PTL DEF Spec, FinishedStagesStay

(* The verdict each run shows is the one its stages justify.               *)
VerdictsJustified == \A r \in Run : VerdictInv(r)

LEMMA ApiVerdictInit == Init => VerdictsJustified
<1> SUFFICES ASSUME Init, NEW q \in Run PROVE VerdictInv(q)
  BY DEF VerdictsJustified
<1>1. \/ state[q] = "IDLE"
      \/ state[q] = "SUCCESS" /\ \A s \in Stage : status[q][s] = "SUCCESS"
  BY DEF Init
<1> QED
  BY <1>1 DEF VerdictInv, Justified

LEMMA ApiVerdictStep ==
  ASSUME ApiInv, [Next]_vars, NEW q \in Run, VerdictInv(q) PROVE VerdictInv(q)'
<1>1. PipelineInv /\ TypeOK /\ registered \in Run
  BY DEF ApiInv, ApiTypeOK
<1>2. CASE UNCHANGED <<status[q], state[q], cancelled[q]>>
  BY <1>2 DEF VerdictInv
<1>3. ASSUME NEW r \in Run, RunStep(r) PROVE VerdictInv(q)'
  BY <1>1, <1>3, VerdictKept DEF RunStep
<1>4. CASE CancelRequest
  BY <1>1, <1>2, <1>4, VerdictKept DEF CancelRequest, pipelineVars
<1>5. ASSUME NEW r \in Run, RetryStart(r) \/ Reset(r) PROVE VerdictInv(q)'
  <2>1. CASE q = r \/ q = registered
    BY <1>1, <1>5, <2>1, VerdictOpens DEF RetryStart, Reset, Unused, TypeOK, PipelineInv, RunInv, StartInv
  <2>2. CASE q # r /\ q # registered
    BY <1>1, <1>2, <1>5, <2>2 DEF RetryStart, Reset, TypeOK
  <2> QED
    BY <2>1, <2>2
<1>6. ASSUME NEW r \in Run, Reconstruct(r) \/ BuildReport(r) \/ RunQueuedJob(r) \/ BeginRun(r)
      PROVE  VerdictInv(q)'
  <2>1. CASE q # r
    BY <1>1, <1>2, <1>6, <2>1
       DEF Reconstruct, BuildReport, RunQueuedJob, NewRun, BeginRun, ProcessIncident, TypeOK
  <2>2. CASE q = r
    BY <1>1, <1>6, <2>2, VerdictOpens
       DEF Reconstruct, BuildReport, RunQueuedJob, NewRun, BeginRun, ProcessIncident, TypeOK
  <2> QED
    BY <2>1, <2>2
<1>7. ASSUME NEW r \in Run, EndRun(r) PROVE VerdictInv(q)'
  BY <1>2, <1>7 DEF EndRun, Settle
<1> QED
  BY <1>2, <1>3, <1>4, <1>5, <1>6, <1>7
     DEF Next, RetryCheck, ReadEvents, Poll, vars, pipelineVars

(* Whatever is retried, cancelled or reset around it, a run never shows a  *)
(* verdict that its stages, one by one, do not bear out.                   *)
THEOREM ApiVerdictsJustified == Spec => []VerdictsJustified
<1>1. ApiInv /\ VerdictsJustified /\ [Next]_vars => VerdictsJustified'
  BY ApiVerdictStep DEF VerdictsJustified
<1> QED
  BY <1>1, ApiVerdictInit, ApiInvariant, PTL DEF Spec
=============================================================================
