----------------------------- MODULE StageGraph -----------------------------
(***************************************************************************)
(* The stages of an investigation and the functions on their statuses that *)
(* the orchestrator (state_machine/orchestrator.py) and the durable store  *)
(* (state_machine/persistence.py) share.  Stages are numbered in the order *)
(* in which PipelineOrchestrator._run_pipeline executes them; the last two *)
(* are the repair-package stages.                                          *)
(***************************************************************************)
EXTENDS Naturals

CONSTANTS NumStages,   \* how many stages a pipeline has (18 in the source)
          Required,    \* the stages whose failure fails the pipeline
          DependsOn    \* the prerequisites of each stage

Stage == 1 .. NumStages

PackageStage == NumStages - 1   \* repair_package_generation
ReadyStage   == NumStages       \* package_ready

(* A stage depends only on stages listed before it, and the two package    *)
(* stages, which are required, come last.                                  *)
ASSUME GraphAssumption ==
  /\ NumStages \in Nat /\ NumStages > 2
  /\ Required \subseteq Stage
  /\ {PackageStage, ReadyStage} \subseteq Required
  /\ DependsOn \in [Stage -> SUBSET Stage]
  /\ \A s \in Stage : \A d \in DependsOn[s] : d < s

StageStatus == {"NOT_STARTED", "RUNNING", "SUCCESS", "DEGRADED", "PARTIAL",
                "FAILED", "BLOCKED", "CANCELLED"}

Fresh == [s \in Stage |-> "NOT_STARTED"]

(* Direct and transitive prerequisites.                                    *)
Ancestors[s \in Stage] ==
  DependsOn[s] \cup UNION {Ancestors[d] : d \in DependsOn[s]}

Dependents(s) == {t \in Stage : s \in Ancestors[t]}

(* Behind a required stage that failed nothing runs: every later stage     *)
(* depends on it, directly or not.                                         *)
ASSUME LeadAssumption ==
  \A s \in Required, t \in Stage : s < t => t \in Dependents(s)

(* _block_dependent_stages: every stage behind s that has not started.     *)
BlockDependents(st, s) ==
  [t \in Stage |-> IF t \in Dependents(s) /\ st[t] = "NOT_STARTED"
                   THEN "BLOCKED" ELSE st[t]]

(* Defect: a stage that has ended is relabelled as well.                   *)
HaltAll(st) ==
  [t \in Stage |-> IF st[t] = "RUNNING" THEN "CANCELLED" ELSE "BLOCKED"]

(* What cancellation does to a map of statuses: PipelineOrchestrator.cancel *)
(* applies it to the stages in memory, cancel_incident_stages to the rows. *)
Halt(st) ==
  [t \in Stage |-> IF st[t] = "RUNNING" THEN "CANCELLED"
                   ELSE IF st[t] = "NOT_STARTED" THEN "BLOCKED" ELSE st[t]]
=============================================================================
