----------------------------- MODULE MCPipeline -----------------------------
(* One orchestrator with the stages of the source.                         *)
EXTENDS PipelineSystem, CanonicalStages
=============================================================================
