-------------------------- MODULE ProcessLifecycle --------------------------
(***************************************************************************)
(* What a Process promises to whoever watches it (kubectl get proc -w, the *)
(* pool reconciler, dependants): the phase changes that can be observed,   *)
(* and when the object may disappear.  The edges are those of the legal    *)
(* transition table, plus the ones that signals and deletion add to it in  *)
(* signals::apply and controller::reconcile.  No reconciler internals but  *)
(* one: lag says of each Process whether a reconcile of it has acted on a  *)
(* copy behind the object.  While one does ("now"), nothing is promised of *)
(* that Process; the promise about its disappearance is gone for good.     *)
(***************************************************************************)
EXTENDS ProcessPhase

CONSTANT Procs

Absent == "Absent"

VARIABLES
    phase,   \* the observed phase of each Process, or Absent
    forked,  \* whether it has been given a PID
    lag      \* "never", "past" or "now": see above

lifecycleVars == <<phase, forked, lag>>

\* Deletion and SIGTERM, SIGKILL, and SIGUSR1 on an Attested Process.
Interrupts ==
    { <<ph, "Exiting">> : ph \in {q \in Phases : IsAlive(q)} }
      \cup { <<ph, "Reaped">> : ph \in {q \in Phases : IsAlive(q)} }
      \cup { <<"Attested", "Running">> }

\* A failure that something else recorded is lost under the reconcile that
\* had read Execing or Running before it.
Overtaken ==
    { <<"Failed", ph>> : ph \in {"Running", "Attested", "Reconverging",
                                 "Exiting", "Reaped"} }

LifecycleInit ==
    /\ phase = [p \in Procs |-> Absent]
    /\ forked = [p \in Procs |-> FALSE]
    /\ lag = [p \in Procs |-> "never"]

\* No reconcile starts behind its object; the next start may end a lag.
InStep ==
    \A p \in Procs : \/ lag'[p] = lag[p]
                     \/ lag[p] = "now" /\ lag'[p] = "past"

Appear(p) ==
    /\ phase[p] = Absent
    /\ phase' = [phase EXCEPT ![p] = "Pending"]
    /\ forked' = [forked EXCEPT ![p] = FALSE]
    /\ InStep

Fork(p) ==
    /\ phase[p] = "Forking"
    /\ ~forked[p]
    /\ forked' = [forked EXCEPT ![p] = TRUE]
    /\ InStep
    /\ UNCHANGED phase

Move(p) ==
    \E next \in Phases :
        /\ <<phase[p], next>> \in LegalTransitions \cup Interrupts \cup Overtaken
        /\ phase' = [phase EXCEPT ![p] = next]
        /\ InStep
        /\ UNCHANGED forked

\* Objects vanish: those that never got a PID, and those already Reaped.
Vanish ==
    \E gone \in SUBSET {p \in Procs : phase[p] # Absent} :
        /\ \A p \in gone : forked[p] /\ lag[p] = "never" => phase[p] = "Reaped"
        /\ phase' = [p \in Procs |-> IF p \in gone THEN Absent ELSE phase[p]]
        /\ forked' = [p \in Procs |-> p \notin gone /\ forked[p]]
        /\ InStep

\* A step on p of a reconcile that started behind it.
Stray(p) ==
    /\ \E next \in Phases \cup {Absent} : phase' = [phase EXCEPT ![p] = next]
    /\ \E pid \in BOOLEAN : forked' = [forked EXCEPT ![p] = pid]
    /\ lag' = [lag EXCEPT ![p] = "now"]

LifecycleNext ==
    (\E p \in Procs : Appear(p) \/ Fork(p) \/ Move(p) \/ Stray(p)) \/ Vanish

LifecycleSpec == LifecycleInit /\ [][LifecycleNext]_lifecycleVars
=============================================================================
