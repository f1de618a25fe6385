-------------------------- MODULE MCInitSupervisor --------------------------
(***************************************************************************)
(* Small instances of InitSupervisor for TLC.                              *)
(***************************************************************************)
EXTENDS InitSupervisor

\* One service of each restart policy, and one that is not enabled.
MCPolicy == <<"Always", "OnFailure", "Never", "Always">>
=============================================================================
