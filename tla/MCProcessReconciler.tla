------------------------ MODULE MCProcessReconciler ------------------------
(***************************************************************************)
(* Small instances of ProcessReconciler for TLC.                           *)
(***************************************************************************)
EXTENDS ProcessReconciler, TLC

CONSTANTS
    r1, r2,      \* Processes
    n1           \* an identity name

\* One name for all: equal specs derive equal identities.
MCIdentityName == [p \in Procs |-> n1]
MCNoDepends    == [p \in Procs |-> {}]
MCChildNeedsRoot == [p \in Procs |-> IF p \in Roots THEN {}
                                 ELSE Roots \X {"Running"}]
MCReconverge   == [p \in Procs |-> "Reconverge"]
MCPermanent    == [p \in Procs |-> "Permanent"]
MCNoExports    == [p \in Procs |-> <<>>]

\* An ephemeral Process with one export for each gate.
MCAlways       == [p \in Procs |-> "Always"]
MCBothExports  == [p \in Procs |-> <<"OnAttested", "Always">>]
MCOneExport    == [p \in Procs |-> <<"OnAttested">>]
=============================================================================
