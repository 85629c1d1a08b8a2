--------------------------- MODULE PipelineProofs ---------------------------
(***************************************************************************)
(* Facts about the actions of Pipeline that hold in any system built from  *)
(* them: an invariant on each single run, kept by each of its steps.       *)
(***************************************************************************)
EXTENDS Pipeline, TLAPS

Finished == {"SUCCESS", "DEGRADED", "PARTIAL", "FAILED"}

(* The stages of a run that is executing: all behind it ended well, none   *)
(* ahead of it has started.                                                *)
InOrder(r) ==
  \A s \in Stage :
    /\ s < at[r] => status[r][s] \in IF s \in Required THEN {"SUCCESS"}
                                     ELSE {"SUCCESS", "DEGRADED"}
    /\ s = at[r] => status[r][s] = "RUNNING"
    /\ s > at[r] => status[r][s] = "NOT_STARTED"

(* What ties the variables of one run together.                            *)
CancelledInv(r) ==
  cancelled[r] => /\ state[r] = "CANCELLED"
                  /\ pc[r] \notin {"free", "created", "executing"}

StartInv(r) ==
  /\ pc[r] = "free" => state[r] = "IDLE"
  /\ pc[r] \notin {"free", "idle"} => state[r] # "IDLE"
  /\ pc[r] \in {"free", "scheduled", "created"} =>
       at[r] = 0 /\ (~cancelled[r] => status[r] = Fresh)
  /\ pc[r] \in {"scheduled", "created", "executing"} /\ ~cancelled[r] =>
       state[r] = "RUNNING"

StageInv(r) ==
  /\ pc[r] \in {"executing", "cancelling"} => at[r] \in Stage
  /\ pc[r] = "executing" => InOrder(r)
  /\ pc[r] = "cancelling" => status[r][at[r]] \in {"RUNNING", "CANCELLED"}
  /\ \A s \in Stage : status[r][s] = "RUNNING" =>
       /\ pc[r] \in {"executing", "cancelling"} /\ at[r] = s
       /\ ~cancelled[r]

EndInv(r) ==
  /\ pc[r] = "returned" => state[r] \in FinalStates
  /\ pc[r] = "raised" => cancelled[r]

RunInv(r) == CancelledInv(r) /\ StartInv(r) /\ StageInv(r) /\ EndInv(r)

PipelineInv == TypeOK /\ \A r \in Run : RunInv(r)

-----------------------------------------------------------------------------
LEMMA StageFacts ==
  /\ NumStages \in Nat /\ NumStages > 2
  /\ PackageStage \in Stage /\ ReadyStage \in Stage /\ 1 \in Stage
  /\ PackageStage = NumStages - 1 /\ ReadyStage = NumStages
  /\ {PackageStage, ReadyStage} \subseteq Required
  /\ \A s \in Stage : s \in Nat /\ s >= 1 /\ s <= NumStages
  /\ \A s \in Stage : s # ReadyStage => s + 1 \in Stage
BY GraphAssumption DEF Stage, PackageStage, ReadyStage

(* Halt leaves no stage running or waiting and relabels no other.          *)
LEMMA HaltFacts ==
  ASSUME NEW st \in [Stage -> StageStatus \cup {"ABSENT"}]
  PROVE  /\ Halt(st) \in [Stage -> StageStatus \cup {"ABSENT"}]
         /\ st \in [Stage -> StageStatus] => Halt(st) \in [Stage -> StageStatus]
         /\ \A s \in Stage : /\ Halt(st)[s] \notin {"RUNNING", "NOT_STARTED"}
                             /\ st[s] = "RUNNING" => Halt(st)[s] = "CANCELLED"
                             /\ st[s] \notin {"RUNNING", "NOT_STARTED"} => Halt(st)[s] = st[s]
BY DEF Halt, StageStatus

(* Blocking the dependents of a stage touches only stages not started.     *)
LEMMA BlockFacts ==
  ASSUME NEW st \in [Stage -> StageStatus], NEW t \in Stage
  PROVE  /\ BlockDependents(st, t) \in [Stage -> StageStatus]
         /\ \A s \in Stage :
              /\ BlockDependents(st, t)[s] \in {st[s], "BLOCKED"}
              /\ st[s] # "NOT_STARTED" => BlockDependents(st, t)[s] = st[s]
BY DEF BlockDependents, StageStatus

LEMMA PersistFacts ==
  ASSUME NEW r \in Run, TypeOK, status' \in [Run -> [Stage -> StageStatus]],
         PersistChanges(r)
  PROVE  rows' \in [Stage -> StageStatus \cup {"ABSENT"}]
BY DEF PersistChanges, TypeOK

(* Where a run goes on to after a stage that ended well.                   *)
LEMMA ProceedCases ==
  ASSUME NEW r \in Run, PipelineInv, pc[r] = "executing",
         NEW outcome \in {"SUCCESS", "DEGRADED"},
         at[r] \in Required => outcome = "SUCCESS",
         Proceed(r, outcome)
  PROVE  LET s  == at[r]
             st == [status[r] EXCEPT ![s] = outcome]
             none == [st EXCEPT ![PackageStage] = "PARTIAL", ![ReadyStage] = "BLOCKED"]
         IN  \/ s # ReadyStage /\ EnterStage(r, s + 1, st)
             \/ s + 1 = PackageStage /\ Return(r, none, "PARTIAL")
             \/ /\ s = ReadyStage
                /\ \E v \in {"SUCCESS", "DEGRADED"} : Return(r, st, v)
<1> DEFINE s == at[r]
           st == [status[r] EXCEPT ![s] = outcome]
           none == [st EXCEPT ![PackageStage] = "PARTIAL", ![ReadyStage] = "BLOCKED"]
<1>1. /\ s \in Stage /\ status[r] \in [Stage -> StageStatus]
      /\ InOrder(r)
  BY DEF PipelineInv, TypeOK, RunInv, StageInv
<1>2. \A t \in Stage : st[t] # "FAILED"
  <2> TAKE t \in Stage
  <2>0. s \in Nat /\ t \in Nat
    BY <1>1, StageFacts
  <2>1. t < s \/ t = s \/ t > s
    BY <2>0
  <2>2. t < s => status[r][t] \in {"SUCCESS", "DEGRADED"}
    BY <1>1 DEF InOrder
  <2>3. t > s => status[r][t] = "NOT_STARTED"
    BY <1>1 DEF InOrder
  <2> QED
    BY <1>1, <2>1, <2>2, <2>3
<1>3. \A t \in Stage : none[t] # "FAILED"
  BY <1>1, <1>2, StageFacts
<1>4. Verdict(none, FALSE) = "PARTIAL"
  BY <1>3 DEF Verdict
<1>5. Verdict(st, TRUE) \in {"SUCCESS", "DEGRADED"}
  BY <1>2 DEF Verdict
<1> QED
  BY <1>4, <1>5 DEF Proceed
-----------------------------------------------------------------------------
(* A run none of whose variables change.                                   *)
Keeps(q) ==
  /\ pc'[q] = pc[q]
  /\ at'[q] = at[q]
  /\ status'[q] = status[q]
  /\ state'[q] = state[q]
  /\ cancelled'[q] = cancelled[q]

LEMMA KeepsRunInv ==
  ASSUME NEW q \in Run, RunInv(q), Keeps(q)
  PROVE  RunInv(q)'
BY DEF RunInv, CancelledInv, StartInv, StageInv, InOrder, EndInv, Keeps

LEMMA StartKeeps ==
  ASSUME NEW r \in Run, PipelineInv, Start(r)
  PROVE  PipelineInv'
<1>1. TypeOK'
  BY DEF PipelineInv, TypeOK, Start, Control, RunStates
<1>2. RunInv(r)'
  BY DEF PipelineInv, TypeOK, Start, RunInv, CancelledInv, StartInv, StageInv, EndInv
<1>3. ASSUME NEW q \in Run, q # r PROVE RunInv(q)'
  BY <1>3, KeepsRunInv DEF PipelineInv, TypeOK, Start, Keeps
<1> QED
  BY <1>1, <1>2, <1>3 DEF PipelineInv

LEMMA ProcessIncidentKeeps ==
  ASSUME NEW r \in Run, PipelineInv, ProcessIncident(r)
  PROVE  PipelineInv'
<1>1. TypeOK'
  BY DEF PipelineInv, TypeOK, ProcessIncident, Control, RunStates, FinalStates
<1>2. RunInv(r)'
  BY DEF PipelineInv, TypeOK, ProcessIncident, RunInv, CancelledInv, StartInv, StageInv, EndInv
<1>3. ASSUME NEW q \in Run, q # r PROVE RunInv(q)'
  BY <1>3, KeepsRunInv DEF PipelineInv, TypeOK, ProcessIncident, Keeps
<1> QED
  BY <1>1, <1>2, <1>3 DEF PipelineInv

LEMMA SettleKeeps ==
  ASSUME NEW r \in Run, PipelineInv, Settle(r)
  PROVE  PipelineInv'
<1>1. TypeOK'
  BY DEF PipelineInv, TypeOK, Settle, Control
<1>2. RunInv(r)'
  BY DEF PipelineInv, TypeOK, Settle, RunInv, CancelledInv, StartInv, StageInv, EndInv
<1>3. ASSUME NEW q \in Run, q # r PROVE RunInv(q)'
  BY <1>3, KeepsRunInv DEF PipelineInv, TypeOK, Settle, Keeps
<1> QED
  BY <1>1, <1>2, <1>3 DEF PipelineInv

LEMMA InterruptKeeps ==
  ASSUME NEW r \in Run, PipelineInv, Interrupt(r)
  PROVE  PipelineInv'
<1>1. TypeOK'
  BY DEF PipelineInv, TypeOK, Interrupt, Interrupted, Control
<1>2. RunInv(r)'
  <2>1. CancelledInv(r)' /\ StartInv(r)' /\ EndInv(r)'
    BY DEF PipelineInv, TypeOK, Interrupt, Interrupted, RunInv, CancelledInv, StartInv, EndInv
  <2>2. StageInv(r)'
    BY StageFacts DEF PipelineInv, TypeOK, Interrupt, Interrupted, RunInv, StageInv, InOrder
  <2> QED
    BY <2>1, <2>2 DEF RunInv
<1>3. ASSUME NEW q \in Run, q # r PROVE RunInv(q)'
  BY <1>3, KeepsRunInv DEF PipelineInv, TypeOK, Interrupt, Keeps
<1> QED
  BY <1>1, <1>2, <1>3 DEF PipelineInv
-----------------------------------------------------------------------------
(* Entering stage s, when st has every stage before s ended well and no    *)
(* other one started, keeps the invariant.                                 *)
LEMMA EnterStageKeeps ==
  ASSUME NEW r \in Run, PipelineInv,
         NEW s \in Stage, NEW st \in [Stage -> StageStatus],
         ~cancelled[r], state[r] = "RUNNING", EnterStage(r, s, st),
         \A t \in Stage :
           /\ t < s => st[t] \in IF t \in Required THEN {"SUCCESS"} ELSE {"SUCCESS", "DEGRADED"}
           /\ t > s => st[t] = "NOT_STARTED",
         rows' \in [Stage -> StageStatus \cup {"ABSENT"}]
  PROVE  PipelineInv'
<1>1. TypeOK'
  BY StageFacts DEF PipelineInv, TypeOK, EnterStage, Control, StageStatus, Stage
<1>2. /\ pc'[r] = "executing" /\ at'[r] = s /\ state'[r] = "RUNNING" /\ ~cancelled'[r]
      /\ status'[r] = [st EXCEPT ![s] = "RUNNING"]
  BY DEF PipelineInv, TypeOK, EnterStage
<1>3. RunInv(r)'
  <2>1. InOrder(r)'
    BY <1>2, StageFacts DEF InOrder
  <2>2. \A t \in Stage : status'[r][t] = "RUNNING" => t = s
    <3> SUFFICES ASSUME NEW t \in Stage, t # s PROVE st[t] # "RUNNING"
      BY <1>2
    <3>1. t \in Nat /\ s \in Nat
      BY StageFacts
    <3>2. t < s \/ t > s
      BY <3>1
    <3> QED
      BY <3>2
  <2>3. StageInv(r)'
    BY <1>2, <2>1, <2>2 DEF StageInv
  <2> QED
    BY <1>2, <2>3 DEF RunInv, CancelledInv, StartInv, EndInv
<1>4. ASSUME NEW q \in Run, q # r PROVE RunInv(q)'
  BY <1>4, KeepsRunInv DEF PipelineInv, TypeOK, EnterStage, Keeps
<1> QED
  BY <1>1, <1>3, <1>4 DEF PipelineInv

(* Ending a run with a verdict, no stage running, keeps it too.            *)
LEMMA ReturnKeeps ==
  ASSUME NEW r \in Run, PipelineInv, ~cancelled[r], at[r] \in Stage,
         NEW st \in [Stage -> StageStatus], NEW v \in FinalStates,
         Return(r, st, v),
         \A t \in Stage : st[t] # "RUNNING",
         rows' \in [Stage -> StageStatus \cup {"ABSENT"}]
  PROVE  PipelineInv'
<1>1. TypeOK'
  BY DEF PipelineInv, TypeOK, Return, Control, RunStates
<1>2. /\ pc'[r] = "returned" /\ state'[r] = v /\ ~cancelled'[r] /\ status'[r] = st
  BY DEF PipelineInv, TypeOK, Return
<1>3. RunInv(r)'
  BY <1>2 DEF RunInv, CancelledInv, StartInv, StageInv, EndInv, FinalStates
<1>4. ASSUME NEW q \in Run, q # r PROVE RunInv(q)'
  BY <1>4, KeepsRunInv DEF PipelineInv, TypeOK, Return, Keeps
<1> QED
  BY <1>1, <1>3, <1>4 DEF PipelineInv

LEMMA RunPipelineKeeps ==
  ASSUME NEW r \in Run, PipelineInv, RunPipeline(r)
  PROVE  PipelineInv'
<1>1. /\ ~cancelled[r] /\ state[r] = "RUNNING" /\ status[r] = Fresh
  BY DEF PipelineInv, RunPipeline, RunInv, CancelledInv, StartInv
<1>2. /\ 1 \in Stage /\ Fresh \in [Stage -> StageStatus]
      /\ EnterStage(r, 1, Fresh)
  BY <1>1, StageFacts DEF RunPipeline, Fresh, StageStatus
<1>3. rows' \in [Stage -> StageStatus \cup {"ABSENT"}]
  BY StageFacts DEF PipelineInv, TypeOK, RunPipeline, Initialized, StageStatus
<1>4. \A t \in Stage : ~(t < 1) /\ Fresh[t] = "NOT_STARTED"
  BY StageFacts DEF Fresh
<1> QED
  BY <1>1, <1>2, <1>3, <1>4, EnterStageKeeps

(* A stage that ended well leaves the run at the next stage or at a        *)
(* verdict.                                                                *)
LEMMA ProceedKeeps ==
  ASSUME NEW r \in Run, PipelineInv, pc[r] = "executing",
         NEW outcome \in {"SUCCESS", "DEGRADED"},
         at[r] \in Required => outcome = "SUCCESS",
         Proceed(r, outcome), PersistChanges(r)
  PROVE  PipelineInv'
<1> DEFINE cur == at[r]
           st == [status[r] EXCEPT ![cur] = outcome]
           none == [st EXCEPT ![PackageStage] = "PARTIAL", ![ReadyStage] = "BLOCKED"]
<1>1. /\ cur \in Stage /\ status[r] \in [Stage -> StageStatus]
      /\ InOrder(r) /\ ~cancelled[r] /\ state[r] = "RUNNING"
  BY DEF PipelineInv, TypeOK, RunInv, StageInv, CancelledInv, StartInv
<1>2. /\ st \in [Stage -> StageStatus] /\ none \in [Stage -> StageStatus]
  BY <1>1 DEF StageStatus
<1>3. ASSUME NEW t \in Stage
      PROVE  /\ t <= cur => st[t] \in IF t \in Required THEN {"SUCCESS"} ELSE {"SUCCESS", "DEGRADED"}
             /\ t > cur => st[t] = "NOT_STARTED"
             /\ st[t] # "RUNNING" /\ none[t] # "RUNNING"
  <2>1. t \in Nat /\ cur \in Nat
    BY <1>1, StageFacts
  <2>2. CASE t < cur
    BY <1>1, <2>1, <2>2, StageFacts DEF InOrder
  <2>3. CASE t = cur
    BY <1>1, <2>1, <2>3
  <2>4. CASE t > cur
    BY <1>1, <2>1, <2>4, StageFacts DEF InOrder
  <2> QED
    BY <2>1, <2>2, <2>3, <2>4
<1>4. CASE cur # ReadyStage /\ EnterStage(r, cur + 1, st)
  <2>1. cur + 1 \in Stage /\ cur \in Nat
    BY <1>1, <1>4, StageFacts
  <2>2. \A t \in Stage : (t < cur + 1 => t <= cur) /\ (t > cur + 1 => t > cur)
    <3>1. \A n, t \in Nat : (t < n + 1 => t <= n) /\ (t > n + 1 => t > n)
      OBVIOUS
    <3>2. \A t \in Stage : t \in Nat
      BY StageFacts
    <3> QED
      BY <2>1, <3>1, <3>2
  <2>3. status' \in [Run -> [Stage -> StageStatus]]
    BY <1>2, <1>4, <2>1 DEF EnterStage, PipelineInv, TypeOK, StageStatus
  <2>4. rows' \in [Stage -> StageStatus \cup {"ABSENT"}]
    BY <2>3, PersistFacts DEF PipelineInv
  <2> QED
    BY <1>1, <1>2, <1>3, <1>4, <2>1, <2>2, <2>4, EnterStageKeeps
<1>5. ASSUME NEW s2 \in {st, none}, NEW v \in FinalStates, Return(r, s2, v)
      PROVE  PipelineInv'
  <2>1. status' \in [Run -> [Stage -> StageStatus]]
    BY <1>2, <1>5 DEF Return, PipelineInv, TypeOK
  <2>2. rows' \in [Stage -> StageStatus \cup {"ABSENT"}]
    BY <2>1, PersistFacts DEF PipelineInv
  <2> QED
    BY <1>1, <1>2, <1>3, <1>5, <2>2, ReturnKeeps
<1> QED
  BY <1>4, <1>5, ProceedCases DEF FinalStates
LEMMA StageSucceedsKeeps ==
  ASSUME NEW r \in Run, PipelineInv, StageSucceeds(r)
  PROVE  PipelineInv'
BY ProceedKeeps DEF StageSucceeds

LEMMA StageDegradesKeeps ==
  ASSUME NEW r \in Run, PipelineInv, StageDegrades(r)
  PROVE  PipelineInv'
BY ProceedKeeps DEF StageDegrades

LEMMA StageFailsKeeps ==
  ASSUME NEW r \in Run, PipelineInv, StageFails(r)
  PROVE  PipelineInv'
<1> DEFINE failed == [status[r] EXCEPT ![at[r]] = "FAILED"]
           st == BlockDependents(failed, at[r])
<1>1. /\ at[r] \in Stage /\ status[r] \in [Stage -> StageStatus]
      /\ ~cancelled[r]
      /\ \A t \in Stage : t # at[r] => status[r][t] # "RUNNING"
  BY DEF PipelineInv, TypeOK, StageFails, RunInv, StageInv, CancelledInv
<1>2. /\ failed \in [Stage -> StageStatus]
      /\ \A t \in Stage : failed[t] # "RUNNING"
  BY <1>1 DEF StageStatus
<1>3. /\ st \in [Stage -> StageStatus]
      /\ \A t \in Stage : st[t] # "RUNNING"
  BY <1>1, <1>2, BlockFacts
<1>4. Return(r, st, "FAILED") /\ PersistChanges(r)
  BY DEF StageFails
<1>5. status' \in [Run -> [Stage -> StageStatus]]
  BY <1>3, <1>4 DEF Return, PipelineInv, TypeOK
<1>6. rows' \in [Stage -> StageStatus \cup {"ABSENT"}]
  BY <1>4, <1>5, PersistFacts DEF PipelineInv
<1> QED
  BY <1>1, <1>3, <1>4, <1>6, ReturnKeeps DEF FinalStates

LEMMA UnwindKeeps ==
  ASSUME NEW r \in Run, PipelineInv, Unwind(r)
  PROVE  PipelineInv'
<1> DEFINE marked == [status[r] EXCEPT ![at[r]] = "CANCELLED"]
           st == BlockDependents(marked, at[r])
<1>1. /\ at[r] \in Stage /\ status[r] \in [Stage -> StageStatus]
      /\ \A t \in Stage : t # at[r] => status[r][t] # "RUNNING"
  BY DEF PipelineInv, TypeOK, Unwind, RunInv, StageInv
<1>2. /\ marked \in [Stage -> StageStatus]
      /\ \A t \in Stage : marked[t] # "RUNNING"
  BY <1>1 DEF StageStatus
<1>3. /\ st \in [Stage -> StageStatus]
      /\ \A t \in Stage : st[t] # "RUNNING"
  BY <1>1, <1>2, BlockFacts
<1>4. /\ status' = [status EXCEPT ![r] = st]
      /\ cancelled' = [cancelled EXCEPT ![r] = TRUE]
      /\ state' = [state EXCEPT ![r] = "CANCELLED"]
      /\ pc' = [pc EXCEPT ![r] = "raised"]
      /\ at' = at
      /\ rows' = [t \in Stage |-> IF t = at[r] \/ st[t] # status[r][t] THEN st[t] ELSE rows[t]]
  BY DEF Unwind
<1>5. TypeOK'
  <2> HIDE DEF st
  <2>1. rows' \in [Stage -> StageStatus \cup {"ABSENT"}]
    BY <1>3, <1>4 DEF PipelineInv, TypeOK
  <2> QED
    BY <1>3, <1>4, <2>1 DEF PipelineInv, TypeOK, Control, RunStates, FinalStates
<1>6. RunInv(r)'
  <2> HIDE DEF st
  <2>1. /\ pc'[r] = "raised" /\ state'[r] = "CANCELLED" /\ cancelled'[r] = TRUE
        /\ status'[r] = st
    BY <1>4 DEF PipelineInv, TypeOK
  <2> QED
    BY <1>3, <2>1 DEF RunInv, CancelledInv, StartInv, StageInv, EndInv
<1>7. ASSUME NEW q \in Run, q # r PROVE RunInv(q)'
  BY <1>4, <1>7, KeepsRunInv DEF PipelineInv, TypeOK, Keeps
<1> QED
  BY <1>5, <1>6, <1>7 DEF PipelineInv

-----------------------------------------------------------------------------
(* What PipelineOrchestrator.cancel does to the run it is called on,       *)
(* whatever else happens in the same step.                                 *)
Cancels(r) ==
  /\ pc[r] # "free"
  /\ pc'[r] = Interrupted(pc[r])
  /\ at'[r] = at[r]
  /\ status'[r] = Halt(status[r])
  /\ state'[r] = "CANCELLED"
  /\ cancelled'[r] = TRUE

LEMMA InterruptedCases ==
  ASSUME NEW p \in Control
  PROVE  /\ p = "created" => Interrupted(p) = "aborting"
         /\ p = "executing" => Interrupted(p) = "cancelling"
         /\ p \notin {"created", "executing"} => Interrupted(p) = p
         /\ Interrupted(p) \in Control
BY Zenon DEF Interrupted, Control

LEMMA CancelsRunInv ==
  ASSUME NEW r \in Run, TypeOK, RunInv(r), Cancels(r)
  PROVE  RunInv(r)'
<1>1. /\ pc[r] \in Control /\ status[r] \in [Stage -> StageStatus]
  BY DEF TypeOK
<1>2. \A s \in Stage : /\ status'[r][s] \notin {"RUNNING", "NOT_STARTED"}
                       /\ status[r][s] = "RUNNING" => status'[r][s] = "CANCELLED"
                       /\ status[r][s] = "CANCELLED" => status'[r][s] = "CANCELLED"
  BY <1>1, HaltFacts DEF Cancels
<1>3. pc'[r] \notin {"free", "created", "executing"}
  BY <1>1, InterruptedCases DEF Cancels
<1>4. CancelledInv(r)' /\ StartInv(r)' /\ EndInv(r)'
  BY <1>1, <1>3, InterruptedCases
     DEF Cancels, RunInv, CancelledInv, StartInv, EndInv, FinalStates
<1>5. ASSUME pc'[r] = "cancelling"
      PROVE  at[r] \in Stage /\ status[r][at[r]] \in {"RUNNING", "CANCELLED"}
  <2>1. pc[r] \in {"executing", "cancelling"}
    BY <1>1, <1>5, InterruptedCases DEF Cancels, Control
  <2> QED
    BY <2>1 DEF RunInv, StageInv, InOrder
<1>6. StageInv(r)'
  BY <1>2, <1>3, <1>5 DEF StageInv, Cancels
<1> QED
  BY <1>4, <1>6 DEF RunInv

LEMMA RowsAfterCancelType ==
  ASSUME NEW r \in Run, TypeOK
  PROVE  RowsAfterCancel(r) \in [Stage -> StageStatus \cup {"ABSENT"}]
<1> DEFINE swept == [s \in Stage |-> IF Halt(status[r])[s] # status[r][s]
                                    THEN Halt(status[r])[s] ELSE rows[s]]
<1>1. status[r] \in [Stage -> StageStatus] /\ Halt(status[r]) \in [Stage -> StageStatus]
  BY HaltFacts DEF TypeOK
<1>2. swept \in [Stage -> StageStatus \cup {"ABSENT"}]
  BY <1>1 DEF TypeOK
<1> QED
  BY <1>2, HaltFacts DEF RowsAfterCancel

LEMMA CancelKeeps ==
  ASSUME NEW r \in Run, PipelineInv, Cancel(r)
  PROVE  PipelineInv'
<1>1. Cancels(r)
  BY DEF PipelineInv, TypeOK, Cancel, Cancels
<1>2. /\ Interrupted(pc[r]) \in Control
      /\ Halt(status[r]) \in [Stage -> StageStatus]
      /\ RowsAfterCancel(r) \in [Stage -> StageStatus \cup {"ABSENT"}]
  <2>1. TypeOK /\ pc[r] \in Control /\ status[r] \in [Stage -> StageStatus]
    BY DEF PipelineInv, TypeOK
  <2>2. Halt(status[r]) \in [Stage -> StageStatus]
    BY <2>1, HaltFacts
  <2> QED
    BY <2>1, <2>2, InterruptedCases, RowsAfterCancelType
<1>3. TypeOK'
  BY <1>2 DEF PipelineInv, TypeOK, Cancel, RunStates, FinalStates
<1>4. RunInv(r)'
  BY <1>1, CancelsRunInv DEF PipelineInv
<1>5. ASSUME NEW q \in Run, q # r PROVE RunInv(q)'
  BY <1>5, KeepsRunInv DEF PipelineInv, TypeOK, Cancel, Keeps
<1> QED
  BY <1>3, <1>4, <1>5 DEF PipelineInv

-----------------------------------------------------------------------------
(* What the invariant of a run says of its prerequisites.                  *)
LEMMA PrerequisitesFollow == PipelineInv => PrerequisitesMet
<1> SUFFICES ASSUME PipelineInv, NEW r \in Run, pc[r] = "executing",
                    NEW d \in DependsOn[at[r]]
             PROVE  status[r][d] \in IF d \in Required THEN {"SUCCESS"}
                                     ELSE {"SUCCESS", "DEGRADED"}
  BY DEF PrerequisitesMet
<1>1. at[r] \in Stage /\ InOrder(r)
  BY DEF PipelineInv, RunInv, StageInv
<1>2. d \in Stage /\ d < at[r]
  BY <1>1, GraphAssumption
<1> QED
  BY <1>1, <1>2 DEF InOrder

-----------------------------------------------------------------------------
(* The status a finished stage has after any step of a run.                *)
LEMMA FinishedKept ==
  ASSUME PipelineInv, NEW r \in Run,
         RunPipeline(r) \/ StageSucceeds(r) \/ StageDegrades(r) \/ StageFails(r)
         \/ Unwind(r) \/ Cancel(r),
         NEW q \in Run, NEW s \in Stage, status[q][s] \in Finished
  PROVE  status'[q][s] = status[q][s]
<1>1. /\ status \in [Run -> [Stage -> StageStatus]]
      /\ status[q] \in [Stage -> StageStatus]
  BY DEF PipelineInv, TypeOK
<1>2. ASSUME RunPipeline(r) PROVE status'[q][s] = status[q][s]
  <2>1. status[r] = Fresh
    BY <1>2 DEF RunPipeline, PipelineInv, RunInv, StartInv, CancelledInv
  <2>2. q # r
    BY <2>1 DEF Fresh, Finished
  <2> QED
    BY <1>1, <1>2, <2>2 DEF RunPipeline, EnterStage
<1>3. ASSUME NEW outcome \in {"SUCCESS", "DEGRADED"}, pc[r] = "executing",
             at[r] \in Required => outcome = "SUCCESS", Proceed(r, outcome)
      PROVE  status'[q][s] = status[q][s]
  <2>1. CASE q # r
    BY <1>1, <1>3, <2>1 DEF Proceed, EnterStage, Return
  <2>2. CASE q = r
    <3>1. at[r] \in Stage /\ InOrder(r)
      BY <1>3 DEF PipelineInv, RunInv, StageInv
    <3>2. s \in Nat /\ at[r] \in Nat
      BY <3>1, StageFacts
    <3>3. s < at[r]
      BY <2>2, <3>1, <3>2 DEF InOrder, Finished
    <3>4. CASE EnterStage(r, at[r] + 1, [status[r] EXCEPT ![at[r]] = outcome])
      BY <1>1, <2>2, <3>2, <3>3, <3>4 DEF EnterStage
    <3>5. ASSUME NEW v, at[r] + 1 = PackageStage,
                 Return(r, [[status[r] EXCEPT ![at[r]] = outcome]
                            EXCEPT ![PackageStage] = "PARTIAL", ![ReadyStage] = "BLOCKED"], v)
          PROVE  status'[q][s] = status[q][s]
      <4>1. s # PackageStage /\ s # ReadyStage /\ s # at[r]
        BY <3>2, <3>3, <3>5, StageFacts
      <4> QED
        BY <1>1, <2>2, <3>5, <4>1 DEF Return
    <3>6. ASSUME NEW v, Return(r, [status[r] EXCEPT ![at[r]] = outcome], v)
          PROVE  status'[q][s] = status[q][s]
      BY <1>1, <2>2, <3>2, <3>3, <3>6 DEF Return
    <3> QED
      BY <1>3, <3>4, <3>5, <3>6, ProceedCases
  <2> QED
    BY <2>1, <2>2
<1>4. ASSUME StageFails(r) PROVE status'[q][s] = status[q][s]
  <2> DEFINE failed == [status[r] EXCEPT ![at[r]] = "FAILED"]
  <2>1. at[r] \in Stage /\ status[r][at[r]] = "RUNNING"
    BY <1>4 DEF StageFails, PipelineInv, RunInv, StageInv, InOrder
  <2>2. failed \in [Stage -> StageStatus]
    BY <1>1 DEF StageStatus
  <2>3. q = r => s # at[r]
    BY <2>1 DEF Finished
  <2>4. q = r => failed[s] = status[q][s] /\ failed[s] # "NOT_STARTED"
    BY <1>1, <2>3 DEF Finished
  <2>5. q = r => BlockDependents(failed, at[r])[s] = status[q][s]
    BY <2>1, <2>2, <2>4, BlockFacts
  <2>6. status' = [status EXCEPT ![r] = BlockDependents(failed, at[r])]
    BY <1>4 DEF StageFails, Return
  <2> QED
    BY <1>1, <2>5, <2>6
<1>5. ASSUME Unwind(r) PROVE status'[q][s] = status[q][s]
  <2> DEFINE marked == [status[r] EXCEPT ![at[r]] = "CANCELLED"]
  <2>1. at[r] \in Stage /\ status[r][at[r]] \in {"RUNNING", "CANCELLED"}
    BY <1>5 DEF Unwind, PipelineInv, RunInv, StageInv
  <2>2. marked \in [Stage -> StageStatus]
    BY <1>1 DEF StageStatus
  <2>3. q = r => s # at[r]
    BY <2>1 DEF Finished
  <2>4. q = r => marked[s] = status[q][s] /\ marked[s] # "NOT_STARTED"
    BY <1>1, <2>3 DEF Finished
  <2>5. q = r => BlockDependents(marked, at[r])[s] = status[q][s]
    BY <2>1, <2>2, <2>4, BlockFacts
  <2>6. status' = [status EXCEPT ![r] = BlockDependents(marked, at[r])]
    BY <1>5 DEF Unwind
  <2> QED
    BY <1>1, <2>5, <2>6
<1>6. ASSUME Cancel(r) PROVE status'[q][s] = status[q][s]
  <2>1. Halt(status[q])[s] = status[q][s]
    BY <1>1 DEF Halt, Finished
  <2> QED
    BY <1>1, <1>6, <2>1 DEF Cancel
<1> QED
  BY <1>2, <1>3, <1>4, <1>5, <1>6 DEF StageSucceeds, StageDegrades

-----------------------------------------------------------------------------
(* The verdict that the statuses st justify, stage by stage.               *)
WellEnded(st, s) ==
  st[s] \in IF s \in Required THEN {"SUCCESS"} ELSE {"SUCCESS", "DEGRADED"}

Justified(st, v) ==
  /\ v = "SUCCESS" => \A s \in Stage : st[s] = "SUCCESS"
  /\ v = "DEGRADED" => /\ \A s \in Stage : WellEnded(st, s)
                       /\ \E s \in Stage : st[s] = "DEGRADED"
  /\ v = "PARTIAL" => /\ \A s \in Stage : s < PackageStage => WellEnded(st, s)
                      /\ st[PackageStage] = "PARTIAL" /\ st[ReadyStage] = "BLOCKED"
  /\ v = "FAILED" => \E s \in Required : /\ st[s] = "FAILED"
                                         /\ \A t \in Stage : t < s => WellEnded(st, t)
                                         /\ \A t \in Stage : t > s => st[t] = "BLOCKED"

VerdictInv(r) ==
  /\ Justified(status[r], state[r])
  /\ state[r] = "CANCELLED" => cancelled[r]

Verdicts == {"SUCCESS", "DEGRADED", "PARTIAL", "FAILED"}

(* A stage that ended well leads to the next stage or to the verdict the   *)
(* stages justify.                                                         *)
LEMMA ProceedJustified ==
  ASSUME NEW r \in Run, PipelineInv, pc[r] = "executing",
         NEW outcome \in {"SUCCESS", "DEGRADED"},
         at[r] \in Required => outcome = "SUCCESS",
         Proceed(r, outcome)
  PROVE  \/ /\ at[r] + 1 \in Stage
            /\ EnterStage(r, at[r] + 1, [status[r] EXCEPT ![at[r]] = outcome])
         \/ \E st \in [Stage -> StageStatus], v \in Verdicts :
              Return(r, st, v) /\ Justified(st, v)
<1> DEFINE s == at[r]
           st == [status[r] EXCEPT ![s] = outcome]
           none == [st EXCEPT ![PackageStage] = "PARTIAL", ![ReadyStage] = "BLOCKED"]
<1>1. /\ s \in Stage /\ status[r] \in [Stage -> StageStatus] /\ InOrder(r)
  BY DEF PipelineInv, TypeOK, RunInv, StageInv
<1>2. st \in [Stage -> StageStatus] /\ none \in [Stage -> StageStatus]
  BY <1>1 DEF StageStatus
<1>3. ASSUME NEW t \in Stage, t <= s PROVE WellEnded(st, t)
  <2>1. t \in Nat /\ s \in Nat
    BY <1>1, StageFacts
  <2>2. CASE t = s
    BY <1>1, <2>2 DEF WellEnded
  <2>3. CASE t < s
    BY <1>1, <2>1, <2>3 DEF WellEnded, InOrder
  <2> QED
    BY <1>3, <2>1, <2>2, <2>3
<1>4. CASE s # ReadyStage /\ EnterStage(r, s + 1, st)
  BY <1>1, <1>4, StageFacts
<1>5. CASE s + 1 = PackageStage /\ Return(r, none, Verdict(none, FALSE))
  <2>1. ASSUME NEW t \in Stage, t < PackageStage PROVE WellEnded(none, t)
    <3>0. /\ s \in Nat /\ t \in Nat /\ NumStages \in Nat
          /\ PackageStage = NumStages - 1 /\ ReadyStage = NumStages
          /\ s + 1 = PackageStage /\ t < PackageStage
      BY <1>1, <1>5, <2>1, StageFacts
    <3>1. t <= s /\ t # PackageStage /\ t # ReadyStage
      BY <3>0
    <3> QED
      BY <1>1, <1>3, <3>1 DEF WellEnded
  <2>2. none[PackageStage] = "PARTIAL" /\ none[ReadyStage] = "BLOCKED"
    BY <1>1, StageFacts
  <2>3. \A t \in Stage : none[t] # "FAILED"
    <3> SUFFICES ASSUME NEW t \in Stage PROVE none[t] # "FAILED"
      OBVIOUS
    <3>1. t < PackageStage \/ t = PackageStage \/ t = ReadyStage
      BY StageFacts
    <3> QED
      BY <2>1, <2>2, <3>1 DEF WellEnded
  <2>4. Verdict(none, FALSE) = "PARTIAL"
    BY <2>3 DEF Verdict
  <2>5. Justified(none, "PARTIAL")
    BY <2>1, <2>2 DEF Justified
  <2> QED
    BY <1>2, <1>5, <2>4, <2>5 DEF Verdicts
<1>6. CASE s = ReadyStage /\ Return(r, st, Verdict(st, TRUE))
  <2>1. \A t \in Stage : WellEnded(st, t)
    BY <1>3, <1>6, StageFacts
  <2>2. \A t \in Stage : st[t] \in {"SUCCESS", "DEGRADED"}
    BY <2>1 DEF WellEnded
  <2>3. /\ Verdict(st, TRUE) \in {"SUCCESS", "DEGRADED"}
        /\ Verdict(st, TRUE) = "DEGRADED" => \E t \in Stage : st[t] = "DEGRADED"
        /\ Verdict(st, TRUE) = "SUCCESS" => \A t \in Stage : st[t] = "SUCCESS"
    BY <2>2 DEF Verdict
  <2>4. Justified(st, Verdict(st, TRUE))
    BY <2>1, <2>3 DEF Justified
  <2> QED
    BY <1>2, <1>6, <2>3, <2>4 DEF Verdicts
<1> QED
  BY <1>4, <1>5, <1>6 DEF Proceed

(* A required stage that failed blocks every later stage.                  *)
LEMMA FailJustified ==
  ASSUME NEW r \in Run, PipelineInv, StageFails(r)
  PROVE  \E st \in [Stage -> StageStatus], v \in Verdicts :
           Return(r, st, v) /\ Justified(st, v)
<1> DEFINE s == at[r]
           failed == [status[r] EXCEPT ![s] = "FAILED"]
           st == BlockDependents(failed, s)
<1>1. /\ s \in Stage /\ s \in Required /\ status[r] \in [Stage -> StageStatus] /\ InOrder(r)
  BY DEF PipelineInv, TypeOK, RunInv, StageInv, StageFails
<1>2. failed \in [Stage -> StageStatus]
  BY <1>1 DEF StageStatus
<1>3. st \in [Stage -> StageStatus]
  BY <1>1, <1>2, BlockFacts
<1>4. st[s] = "FAILED"
  BY <1>1, <1>2, BlockFacts
<1>5. ASSUME NEW t \in Stage, t < s PROVE WellEnded(st, t)
  <2>1. t # s
    BY <1>1, <1>5, StageFacts
  <2>2. WellEnded(status[r], t)
    BY <1>1, <1>5 DEF InOrder, WellEnded
  <2>3. failed[t] = status[r][t] /\ failed[t] # "NOT_STARTED"
    BY <1>1, <2>1, <2>2 DEF WellEnded
  <2>4. st[t] = status[r][t]
    BY <1>1, <1>2, <2>3, BlockFacts
  <2> QED
    BY <2>2, <2>4 DEF WellEnded
<1>6. ASSUME NEW t \in Stage, t > s PROVE st[t] = "BLOCKED"
  <2>0. s \in Nat /\ t \in Nat /\ t > s
    BY <1>1, <1>6, StageFacts
  <2>1. t # s /\ s < t
    BY <2>0
  <2>2. failed[t] = "NOT_STARTED"
    BY <1>1, <1>6, <2>1 DEF InOrder
  <2>3. t \in Dependents(s)
    BY <1>1, <2>1, LeadAssumption
  <2> QED
    BY <2>2, <2>3 DEF BlockDependents
<1>7. Justified(st, "FAILED")
  BY <1>1, <1>4, <1>5, <1>6 DEF Justified
<1>8. Return(r, st, "FAILED")
  BY DEF StageFails
<1> QED
  BY <1>3, <1>7, <1>8 DEF Verdicts

(* The steps of a run that is executing, as far as the verdict goes.       *)
LEMMA StageStep ==
  ASSUME NEW r \in Run, PipelineInv, StageSucceeds(r) \/ StageDegrades(r) \/ StageFails(r)
  PROVE  \/ /\ at[r] + 1 \in Stage
            /\ \E outcome \in {"SUCCESS", "DEGRADED"} :
                 EnterStage(r, at[r] + 1, [status[r] EXCEPT ![at[r]] = outcome])
         \/ \E st \in [Stage -> StageStatus], v \in Verdicts :
              Return(r, st, v) /\ Justified(st, v)
BY ProceedJustified, FailJustified DEF StageSucceeds, StageDegrades

(* A run without a verdict has nothing to justify.                         *)
LEMMA VerdictOpens ==
  ASSUME NEW q \in Run, state'[q] \in {"IDLE", "RUNNING", "CANCELLED"},
         state'[q] = "CANCELLED" => cancelled'[q]
  PROVE  VerdictInv(q)'
BY DEF VerdictInv, Justified

(* The steps of a run keep its verdict the one its stages justify.         *)
LEMMA VerdictKept ==
  ASSUME PipelineInv, NEW r \in Run,
         RunPipeline(r) \/ StageSucceeds(r) \/ StageDegrades(r) \/ StageFails(r)
         \/ Unwind(r) \/ Cancel(r),
         NEW q \in Run, VerdictInv(q)
  PROVE  VerdictInv(q)'
<1>1. CASE UNCHANGED <<status[q], state[q], cancelled[q]>>
  BY <1>1 DEF VerdictInv
<1>2. ASSUME state'[q] \in {"IDLE", "RUNNING", "CANCELLED"}, state'[q] = "CANCELLED" => cancelled'[q]
      PROVE  VerdictInv(q)'
  BY <1>2 DEF VerdictInv, Justified
<1>4. ASSUME NEW s, NEW st, pc[r] \in {"created", "executing"}, EnterStage(r, s, st)
      PROVE  VerdictInv(q)'
  <2>1. CASE q # r
    BY <1>1, <1>4, <2>1 DEF EnterStage, PipelineInv, TypeOK
  <2>2. CASE q = r
    <3>1. state[q] = "RUNNING"
      BY <1>4, <2>2 DEF PipelineInv, RunInv, CancelledInv, StartInv
    <3> QED
      BY <1>2, <1>4, <3>1 DEF EnterStage
  <2> QED
    BY <2>1, <2>2
<1>5. ASSUME NEW st \in [Stage -> StageStatus], NEW v \in Verdicts,
             Return(r, st, v), Justified(st, v)
      PROVE  VerdictInv(q)'
  <2>1. CASE q # r
    BY <1>1, <1>5, <2>1 DEF Return, PipelineInv, TypeOK
  <2>2. CASE q = r
    <3>1. status'[q] = st /\ state'[q] = v
      BY <1>5, <2>2 DEF Return, PipelineInv, TypeOK
    <3> QED
      BY <1>5, <3>1 DEF VerdictInv, Verdicts
  <2> QED
    BY <2>1, <2>2
<1>6. ASSUME Unwind(r) \/ Cancel(r) PROVE VerdictInv(q)'
  <2>1. CASE q # r
    BY <1>1, <1>6, <2>1 DEF Unwind, Cancel, PipelineInv, TypeOK
  <2>2. CASE q = r
    BY <1>2, <1>6, <2>2 DEF Unwind, Cancel, PipelineInv, TypeOK
  <2> QED
    BY <2>1, <2>2
<1>8. ASSUME StageSucceeds(r) \/ StageDegrades(r) \/ StageFails(r)
      PROVE  VerdictInv(q)'
  <2>1. pc[r] = "executing"
    BY <1>8 DEF StageSucceeds, StageDegrades, StageFails
  <2>2. \/ \E outcome \in {"SUCCESS", "DEGRADED"} :
             EnterStage(r, at[r] + 1, [status[r] EXCEPT ![at[r]] = outcome])
        \/ \E st \in [Stage -> StageStatus], v \in Verdicts : Return(r, st, v) /\ Justified(st, v)
    BY <1>8, StageStep
  <2> QED
    BY <1>4, <1>5, <2>1, <2>2
<1>9. ASSUME RunPipeline(r) PROVE VerdictInv(q)'
  <2>1. EnterStage(r, 1, status[r]) /\ pc[r] = "created"
    BY <1>9 DEF RunPipeline
  <2> QED
    BY <1>4, <2>1
<1> QED
  BY <1>6, <1>8, <1>9

(* The property in terms of sets of stages.                                *)
LEMMA JustifiedSets ==
  ASSUME PipelineInv, NEW r \in Run, VerdictInv(r)
  PROVE  LET those(x) == {s \in Stage : status[r][s] = x}
             wellTo(n) == /\ those("SUCCESS") \cup those("DEGRADED") = 1 .. n
                          /\ those("DEGRADED") \cap Required = {}
         IN  /\ state[r] = "SUCCESS" => those("SUCCESS") = Stage
             /\ state[r] = "DEGRADED" => wellTo(NumStages) /\ those("DEGRADED") # {}
             /\ state[r] = "PARTIAL" =>
                  /\ wellTo(PackageStage - 1)
                  /\ those("PARTIAL") = {PackageStage} /\ those("BLOCKED") = {ReadyStage}
             /\ state[r] = "FAILED" =>
                  \E s \in Required : /\ those("FAILED") = {s}
                                      /\ those("BLOCKED") = s + 1 .. NumStages
                                      /\ wellTo(s - 1)
             /\ state[r] = "CANCELLED" => those("RUNNING") = {}
<1> DEFINE those(x) == {s \in Stage : status[r][s] = x}
           wellTo(n) == /\ those("SUCCESS") \cup those("DEGRADED") = 1 .. n
                        /\ those("DEGRADED") \cap Required = {}
<1>1. /\ Justified(status[r], state[r])
      /\ NumStages \in Nat /\ NumStages > 2 /\ Required \subseteq Stage
      /\ PackageStage = NumStages - 1 /\ ReadyStage = NumStages
  BY StageFacts, GraphAssumption DEF VerdictInv
<1>2. ASSUME NEW n \in Nat, n <= NumStages,
             \A s \in Stage : s <= n => WellEnded(status[r], s),
             \A s \in Stage : s > n => status[r][s] \notin {"SUCCESS", "DEGRADED"}
      PROVE  wellTo(n)
  <2>1. \A s \in Stage : s \in Nat /\ 1 <= s /\ (s <= n \/ s > n)
    BY <1>1, <1>2 DEF Stage
  <2>2. those("SUCCESS") \cup those("DEGRADED") = {s \in Stage : s <= n}
    BY <1>2, <2>1 DEF WellEnded
  <2>3. {s \in Stage : s <= n} = 1 .. n
    BY <1>1, <1>2 DEF Stage
  <2>4. those("DEGRADED") \cap Required = {}
    BY <1>2, <2>1 DEF WellEnded
  <2> QED
    BY <2>2, <2>3, <2>4
<1>3. state[r] = "SUCCESS" => those("SUCCESS") = Stage
  BY <1>1 DEF Justified
<1>4. ASSUME state[r] = "DEGRADED" PROVE wellTo(NumStages) /\ those("DEGRADED") # {}
  <2>1. \A s \in Stage : ~(s > NumStages)
    BY <1>1 DEF Stage
  <2>2. wellTo(NumStages)
    BY <1>1, <1>2, <1>4, <2>1 DEF Justified
  <2> QED
    BY <1>1, <1>4, <2>2 DEF Justified
<1>5. ASSUME state[r] = "PARTIAL"
      PROVE  /\ wellTo(PackageStage - 1)
             /\ those("PARTIAL") = {PackageStage} /\ those("BLOCKED") = {ReadyStage}
  <2>1. /\ \A s \in Stage : s < PackageStage => WellEnded(status[r], s)
        /\ status[r][PackageStage] = "PARTIAL" /\ status[r][ReadyStage] = "BLOCKED"
    BY <1>1, <1>5 DEF Justified
  <2>2. \A s \in Stage : \/ s <= PackageStage - 1 /\ s < PackageStage
                         \/ s > PackageStage - 1 /\ s \in {PackageStage, ReadyStage}
    BY <1>1 DEF Stage
  <2>3. PackageStage - 1 \in Nat /\ PackageStage - 1 <= NumStages
    BY <1>1
  <2>4. \A s \in Stage : ~(s <= PackageStage - 1 /\ s > PackageStage - 1)
    BY <1>1 DEF Stage
  <2>5. wellTo(PackageStage - 1)
    BY <1>2, <2>1, <2>2, <2>3, <2>4
  <2>6. PackageStage \in Stage /\ ReadyStage \in Stage
    BY StageFacts
  <2> QED
    BY <2>1, <2>2, <2>5, <2>6 DEF WellEnded
<1>6. ASSUME state[r] = "FAILED"
      PROVE  \E s \in Required : /\ those("FAILED") = {s}
                                 /\ those("BLOCKED") = s + 1 .. NumStages
                                 /\ wellTo(s - 1)
  <2>1. PICK s \in Required : /\ status[r][s] = "FAILED"
                              /\ \A t \in Stage : t < s => WellEnded(status[r], t)
                              /\ \A t \in Stage : t > s => status[r][t] = "BLOCKED"
    BY <1>1, <1>6 DEF Justified
  <2>2. s \in Stage /\ s \in Nat /\ s - 1 \in Nat /\ s - 1 <= NumStages
    BY <1>1 DEF Stage
  <2>3. \A t \in Stage : \/ t <= s - 1 /\ t < s /\ ~(t > s) /\ t # s
                         \/ t > s - 1 /\ t = s /\ ~(t > s) /\ ~(t < s)
                         \/ t > s - 1 /\ t > s /\ ~(t < s) /\ t # s
    BY <2>2 DEF Stage
  <2>4. \A t \in Stage : ~(t <= s - 1 /\ t > s - 1)
    BY <2>2 DEF Stage
  <2>5. wellTo(s - 1)
    BY <1>2, <2>1, <2>2, <2>3, <2>4
  <2>6. those("FAILED") = {s}
    BY <2>1, <2>2, <2>3 DEF WellEnded
  <2>7. those("BLOCKED") = {t \in Stage : t > s}
    BY <2>1, <2>2, <2>3 DEF WellEnded
  <2>8. {t \in Stage : t > s} = s + 1 .. NumStages
    BY <1>1, <2>2 DEF Stage
  <2> QED
    BY <2>5, <2>6, <2>7, <2>8
<1>7. state[r] = "CANCELLED" => those("RUNNING") = {}
  BY DEF VerdictInv, PipelineInv, RunInv, StageInv
<1> QED
  BY <1>3, <1>4, <1>5, <1>6, <1>7
=============================================================================
