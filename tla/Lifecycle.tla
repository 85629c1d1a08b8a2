------------------------------ MODULE Lifecycle ------------------------------
(***************************************************************************)
(* What an investigation run promises those who only see its state and the *)
(* stage it is at: stages are entered one by one in their order, a verdict *)
(* comes only where the pipeline may end, there is one verdict, and once   *)
(* cancelled nothing more happens.                                         *)
(***************************************************************************)
EXTENDS Naturals

CONSTANTS Run, NumStages, Required

VARIABLES phase,    \* IDLE, RUNNING, a verdict or CANCELLED
          entered   \* how many stages the run has entered

lifecycleVars == <<phase, entered>>

(* The verdicts a run may reach from the stage it has entered last.        *)
VerdictsAt(s) ==
  (IF s = NumStages THEN {"SUCCESS", "DEGRADED"} ELSE {}) \cup
  (IF s = NumStages - 2 THEN {"PARTIAL"} ELSE {}) \cup
  (IF s \in Required THEN {"FAILED"} ELSE {})

Init ==
  /\ phase = [r \in Run |-> "IDLE"]
  /\ entered = [r \in Run |-> 0]

Begin(r) ==
  /\ phase[r] = "IDLE"
  /\ phase' = [phase EXCEPT ![r] = "RUNNING"]
  /\ UNCHANGED entered

EnterNext(r) ==
  /\ phase[r] = "RUNNING"
  /\ entered[r] < NumStages
  /\ entered' = [entered EXCEPT ![r] = @ + 1]
  /\ UNCHANGED phase

Conclude(r) ==
  /\ phase[r] = "RUNNING"
  /\ \E v \in VerdictsAt(entered[r]) : phase' = [phase EXCEPT ![r] = v]
  /\ UNCHANGED entered

Stop(r) ==
  /\ phase[r] # "IDLE"
  /\ phase' = [phase EXCEPT ![r] = "CANCELLED"]
  /\ UNCHANGED entered

Next ==
  \E r \in Run : \/ Begin(r)
                 \/ EnterNext(r)
                 \/ Conclude(r)
                 \/ Stop(r)

Spec == Init /\ [][Next]_lifecycleVars
=============================================================================
