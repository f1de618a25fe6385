------------------------ MODULE MCClusterScheduling ------------------------
(***************************************************************************)
(* Small instances of ClusterScheduling for TLC.                           *)
(***************************************************************************)
EXTENDS ClusterScheduling

CONSTANTS n1, n2, n3, j1, j2
=============================================================================
