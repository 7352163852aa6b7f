-------------------------- MODULE MCRequestPipeline --------------------------
(* One request of every kind. *)
EXTENDS RequestPipeline
=============================================================================
