-------------------------- MODULE MCWorkerPipeline --------------------------
(* Two worker processes, one job, and a pipeline of an optional stage and  *)
(* the two package stages.                                                 *)
EXTENDS WorkerPipeline

SmallRequired == {2, 3}

SmallDependsOn == <<{}, {}, {2}>>
=============================================================================
