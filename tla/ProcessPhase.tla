---------------------------- MODULE ProcessPhase ----------------------------
(***************************************************************************)
(* The closed sets and pure decision functions of the Process CRD          *)
(* (tatara-process) that the Process controller dispatches on: phases,     *)
(* signals and their effects, teardown policies and export triggers.       *)
(* Strings stand for the enum variants.                                    *)
(***************************************************************************)
EXTENDS Naturals

Phases == {"Pending", "Forking", "Execing", "Running", "Attested",
           "Reconverging", "Releasing", "Exiting", "Failed", "Zombie",
           "Reaped"}

\* ProcessPhase::is_terminal, is_running and is_alive.  Exiting is alive.
IsTerminal(phase) == phase = "Reaped"
IsRunning(phase)  == phase \in {"Running", "Attested"}
IsAlive(phase)    == phase \notin {"Zombie", "Reaped", "Failed"}

\* ProcessPhase::can_transition_to: the table of legal transitions.
LegalTransitions ==
    { <<"Pending", "Forking">>,
      <<"Forking", "Execing">>,
      <<"Execing", "Running">>,       <<"Execing", "Failed">>,
      <<"Running", "Attested">>,      <<"Running", "Exiting">>,
      <<"Running", "Failed">>,        <<"Running", "Reconverging">>,
      <<"Attested", "Reconverging">>, <<"Attested", "Releasing">>,
      <<"Attested", "Exiting">>,
      <<"Failed", "Releasing">>,      <<"Failed", "Zombie">>,
      <<"Releasing", "Exiting">>,     <<"Releasing", "Zombie">>,
      <<"Reconverging", "Execing">>,
      <<"Exiting", "Zombie">>,
      <<"Zombie", "Reaped">> }

CanTransitionTo(phase, next) == <<phase, next>> \in LegalTransitions

\* boundary.rs phase_rank / phase_reached: how far along a dependency is.
PhaseRank(phase) ==
    CASE phase = "Forking" -> 1
      [] phase = "Execing" -> 2
      [] phase \in {"Running", "Reconverging"} -> 3
      [] phase = "Attested" -> 4
      [] OTHER -> 0

PhaseReached(actual, required) == PhaseRank(actual) >= PhaseRank(required)

-----------------------------------------------------------------------------
(***************************************************************************)
(* Signals.  NoSignal is an absent annotation and BadSignal an annotation  *)
(* value that ProcessSignal::from_str rejects.                             *)
(***************************************************************************)
Signals == {"SIGHUP", "SIGTERM", "SIGKILL", "SIGUSR1", "SIGUSR2", "SIGSTOP",
            "SIGCONT"}
NoSignal  == "no signal"
BadSignal == "unknown signal"

SighupStrategies == {"Reconverge", "Restart", "Noop"}

\* SignalEffect: a phase stands for TransitionTo(phase).
Effects == Phases \cup {"Noop", "ForceAttest", "Suspend", "Resume", "Remediate"}

\* SighupStrategy::sighup_target, with "Noop" for None.
SighupTarget(strategy) ==
    CASE strategy = "Reconverge" -> "Reconverging"
      [] strategy = "Restart"    -> "Exiting"
      [] OTHER                   -> "Noop"

\* Mutants of ApplySignal: SIGUSR1 (SIGUSR2) accepted in every alive phase.
ApplySignal_Usr1Alive(phase, signal, strategy) ==
    CASE signal = "SIGTERM" /\ IsAlive(phase)     -> "Exiting"
      [] signal = "SIGUSR1" /\ IsAlive(phase)     -> "ForceAttest"
      [] OTHER                                    -> "Noop"

ApplySignal_Usr2Alive(phase, signal, strategy) ==
    CASE signal = "SIGTERM" /\ IsAlive(phase)     -> "Exiting"
      [] signal = "SIGUSR2" /\ IsAlive(phase)     -> "Remediate"
      [] OTHER                                    -> "Noop"

\* signals::apply
ApplySignal(phase, signal, strategy) ==
    CASE signal = "SIGHUP"  /\ IsRunning(phase)   -> SighupTarget(strategy)
      [] signal = "SIGTERM" /\ IsAlive(phase)     -> "Exiting"
      [] signal = "SIGKILL" /\ ~IsTerminal(phase) -> "Reaped"
      [] signal = "SIGUSR1" /\ IsRunning(phase)   -> "ForceAttest"
      [] signal = "SIGUSR2" /\ IsRunning(phase)   -> "Remediate"
      [] signal = "SIGSTOP"                       -> "Suspend"
      [] signal = "SIGCONT"                       -> "Resume"
      [] OTHER                                    -> "Noop"

-----------------------------------------------------------------------------
(***************************************************************************)
(* Lifetimes.  "Permanent" stands for a Process that does not resolve to   *)
(* the ephemeral variant; the other values are its TeardownPolicy.         *)
(***************************************************************************)
Lifetimes == {"Permanent", "Always", "OnAttested", "OnFailed", "Never"}
Triggers  == {"Always", "OnAttested", "OnFailed"}

\* TeardownPolicy::should_teardown_on
ShouldTeardownOn(policy, phase) ==
    \/ phase = "Attested" /\ policy \in {"Always", "OnAttested"}
    \/ phase = "Failed"   /\ policy \in {"Always", "OnFailed"}

\* ExportTrigger::fires_on
FiresOn(trigger, phase) ==
    \/ phase = "Attested" /\ trigger \in {"Always", "OnAttested"}
    \/ phase = "Failed"   /\ trigger \in {"Always", "OnFailed"}

\* lifetime_clock::evaluate.  ttlElapsed: now - creation >= ttl.
AutoTerminate(lifetime, phase, ttlElapsed) ==
    /\ lifetime # "Permanent"
    /\ \/ ShouldTeardownOn(lifetime, phase)
       \/ phase \notin {"Exiting", "Zombie", "Reaped"} /\ ttlElapsed

\* The released-from annotation: ProcessPhase::released_from_label writes
\* it, parse_released_from reads it back ("none" is a missing annotation).
Labels == {"none", "Attested", "Failed"}
ReleasedFromLabel(phase) == IF phase = "Failed" THEN "Failed" ELSE "Attested"
ParseReleasedFrom(label) == IF label = "Failed" THEN "Failed" ELSE "Attested"
=============================================================================
