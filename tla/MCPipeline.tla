----------------------------- MODULE MCPipeline -----------------------------
(* The pipeline on small instances. *)
EXTENDS Pipeline
=============================================================================
