-------------------------- MODULE MCPipelineStream --------------------------
(* Instances of PipelineStream for TLC. *)
EXTENDS MCPipeline, PipelineStream
=============================================================================
