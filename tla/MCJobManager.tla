---------------------------- MODULE MCJobManager ----------------------------
(* A small instance of JobManager for TLC. *)
EXTENDS JobManager
=============================================================================
