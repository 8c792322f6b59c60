------------------------------ MODULE MCPipeline ------------------------------
(* Pipeline on small instances; every constant is a number or a truth value.  *)
EXTENDS Pipeline
=============================================================================
