-------------------------- MODULE MCWorkloadEngine --------------------------
(***************************************************************************)
(* Small instances of WorkloadEngine for TLC.                              *)
(***************************************************************************)
EXTENDS WorkloadEngine
=============================================================================
