--------------------------- MODULE CanonicalStages ---------------------------
(***************************************************************************)
(* The 18 stages of CANONICAL_STAGE_DEFINITIONS: a chain, except that the  *)
(* optional stages 7 (model_assistance), 8 (model_output_validation) and   *)
(* 16 (report_generation) are side branches nothing required depends on.   *)
(***************************************************************************)
EXTENDS Naturals

CanonicalNumStages == 18

CanonicalRequired == (1 .. CanonicalNumStages) \ {7, 8, 16}

CanonicalDependsOn ==
  [s \in 1 .. CanonicalNumStages |->
     IF s = 1 THEN {} ELSE IF s = 9 THEN {6} ELSE IF s = 17 THEN {15} ELSE {s - 1}]
=============================================================================
