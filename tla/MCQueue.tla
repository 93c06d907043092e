------------------------------ MODULE MCQueue ------------------------------
(* Instance for the job queue. *)
EXTENDS JobQueue, TLC
=============================================================================
