----------------------------- MODULE MCBuildLock -----------------------------
(***************************************************************************)
(* Three processes: one that leaves a lock behind and two that compete to  *)
(* break it.                                                               *)
(***************************************************************************)
EXTENDS BuildLock, TLC
=============================================================================
