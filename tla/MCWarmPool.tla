----------------------------- MODULE MCWarmPool -----------------------------
(***************************************************************************)
(* Small instances of WarmPool for TLC.  The list shows the slots in the   *)
(* reverse of the order in which they are created.                         *)
(***************************************************************************)
EXTENDS WarmPool

CONSTANT a1   \* an allocation

MCNameOrder == [s \in Slots |-> 10 - s]
=============================================================================
