--------------------------- MODULE MCStableClaims ---------------------------
(***************************************************************************)
(* Small instances of StableClaims for TLC.                                *)
(***************************************************************************)
EXTENDS StableClaims

CONSTANTS p1, p2,   \* Processes
          k1, k2    \* registry keys

\* p1 serves both apps, p2 one.
MCApps     == [p \in Procs |-> IF p = p1 THEN {k1, k2} ELSE {k1}]
MCRefOrder == [p \in Procs |-> IF p = p1 THEN 1 ELSE 2]
=============================================================================
