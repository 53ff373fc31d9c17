------------------------------- MODULE MCJobs -------------------------------
(***************************************************************************)
(* Two callers and two jobs that want the same work directory.             *)
(***************************************************************************)
EXTENDS Jobs
=============================================================================
