--------------------------- MODULE PipelineSystem ---------------------------
(***************************************************************************)
(* Orchestrators on their own: started, cancelled by an operator at any    *)
(* moment, or interrupted by the loop they run on.  MCPipeline has one,    *)
(* with the 18 stages of the source.                                       *)
(***************************************************************************)
EXTENDS Pipeline

(* The steps a started run takes by itself.                                *)
Step(r) ==
  \/ ProcessIncident(r)
  \/ RunPipeline(r)
  \/ StageSucceeds(r)
  \/ StageDegrades(r)
  \/ StageFails(r)
  \/ Unwind(r)
  \/ Settle(r)

Init ==
  /\ pc = [r \in Run |-> "free"]
  /\ at = [r \in Run |-> 0]
  /\ status = [r \in Run |-> Fresh]
  /\ state = [r \in Run |-> "IDLE"]
  /\ cancelled = [r \in Run |-> FALSE]
  /\ rows \in {[s \in Stage |-> x] : x \in {"ABSENT", "NOT_STARTED", "SUCCESS"}}

Next ==
  \E r \in Run : \/ Start(r)
                 \/ Step(r)
                 \/ Cancel(r)
                 \/ Interrupt(r)

(* The loop runs every task that is ready and every stage's await ends.    *)
Fairness == \A r \in Run : WF_pipelineVars(Step(r))

Spec     == Init /\ [][Next]_pipelineVars
FairSpec == Spec /\ Fairness

-----------------------------------------------------------------------------
(* The verdict of a run is the one its stages justify: SUCCESS only if     *)
(* every stage succeeded, DEGRADED only for optional stages, PARTIAL only  *)
(* for want of a verified patch, FAILED for exactly one required stage     *)
(* with every later stage blocked; and no cancelled run shows a stage that *)
(* is still running.                                                       *)
VerdictMatchesStages ==
  \A r \in Run :
    LET those(x) == {s \in Stage : status[r][s] = x}
        wellTo(n) == /\ those("SUCCESS") \cup those("DEGRADED") = 1 .. n
                     /\ those("DEGRADED") \cap Required = {}
    IN  /\ state[r] = "SUCCESS" => those("SUCCESS") = Stage
        /\ state[r] = "DEGRADED" => wellTo(NumStages) /\ those("DEGRADED") # {}
        /\ state[r] = "PARTIAL" =>
             /\ wellTo(PackageStage - 1)
             /\ those("PARTIAL") = {PackageStage} /\ those("BLOCKED") = {ReadyStage}
        /\ state[r] = "FAILED" =>
             \E s \in Required : /\ those("FAILED") = {s}
                                 /\ those("BLOCKED") = s + 1 .. NumStages
                                 /\ wellTo(s - 1)
        /\ state[r] = "CANCELLED" => those("RUNNING") = {}

(* The rows the next process reads agree with the stages in memory once    *)
(* there is a verdict, even where an earlier run had left its own rows.    *)
RowsBackVerdict ==
  \A r \in Run : state[r] \in FinalStates \ {"CANCELLED"} => rows = status[r]

(* A run that has been started ends, whichever way its stages go and       *)
(* whoever interrupts it.                                                  *)
RunEnds == \A r \in Run : (pc[r] # "free") ~> (pc[r] = "done")

(* What the pipeline promises its callers.                                 *)
Promise == INSTANCE Lifecycle WITH phase <- state, entered <- at

(* The stages, statuses and tasks implement that promise.                  *)
KeepsPromise == Promise!Spec
=============================================================================
