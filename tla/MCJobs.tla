------------------------------- MODULE MCJobs -------------------------------
(* One job of every kind. *)
EXTENDS Jobs
=============================================================================
