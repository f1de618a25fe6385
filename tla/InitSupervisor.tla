--------------------------- MODULE InitSupervisor ---------------------------
(***************************************************************************)
(* tatara-init, process 1 of a tatara-os guest: boot and run_once of       *)
(* supervisor.rs over LinuxSupervisor, and the loop of bin/tatara-init.rs. *)
(* The kernel's process table is part of the model, since what process 1   *)
(* knows of its services is PIDs: they exit between any two of its system  *)
(* calls, what they forked becomes its children when they do, and a PID it *)
(* has reaped is given out again.                                          *)
(*                                                                         *)
(* A service is its place in cfg.services; nothing in the code keeps two   *)
(* services from sharing a name, which is taken for granted here.          *)
(***************************************************************************)
EXTENDS Integers, FiniteSets

CONSTANTS
    NServices,  \* length of cfg.services
    Enabled,    \* services with enable
    Policy,     \* [Services -> {"Never", "OnFailure", "Always"}]
    Pids,       \* PIDs the kernel may give out
    MaxExits,   \* bound on exits
    MaxForks,   \* bound on processes that services fork
    MaxFaults   \* bound on failing forks of process 1

Services == 1..NServices
Nobody   == 0   \* no service: a process that a service forked
InitPid  == 1

ASSUME InitSupervisorAssumption ==
    /\ NServices \in Nat
    /\ Enabled \subseteq Services
    /\ Policy \in [Services -> {"Never", "OnFailure", "Always"}]
    /\ Pids \subseteq Nat \ {0, InitPid}
    /\ {MaxExits, MaxForks, MaxFaults} \subseteq Nat

VARIABLES
    proc,      \* [Pids -> Process], the kernel's process table
    byName,    \* [Services -> Pids or 0], what boot returns
    tracking,  \* [Pids -> Services or Nobody], run_once's map
    pc,        \* where process 1 is
    svc,       \* the service that boot or run_once spawns next
    exits, forks, faults

vars == <<proc, byName, tracking, pc, svc, exits, forks, faults>>

-----------------------------------------------------------------------------
\* svc is what the process was forked for, which the kernel does not know.
Process == [state : {"free", "running", "zombie"}, svc : Services \cup {Nobody},
            parent : Pids \cup {InitPid}, status : {0, 1}]
NoProcess == [state |-> "free", svc |-> Nobody, parent |-> InitPid, status |-> 0]

FreePids == {p \in Pids : proc[p].state = "free"}

\* The children that waitpid(-1, WNOHANG) may return.
Reapable == {p \in Pids : proc[p].state = "zombie" /\ proc[p].parent = InitPid}

Init ==
    /\ proc = [p \in Pids |-> NoProcess]
    /\ byName = [s \in Services |-> 0]
    /\ tracking = [p \in Pids |-> Nobody]
    /\ pc = "boot"
    /\ svc = 1
    /\ exits = 0 /\ forks = 0 /\ faults = 0

-----------------------------------------------------------------------------
(* boot                                                                    *)

\* LinuxSupervisor::spawn: fork and exec for service s.
Fork(p, s) ==
    proc' = [proc EXCEPT ![p] = [NoProcess EXCEPT !.state = "running", !.svc = s]]

BootSpawn(p) ==
    /\ pc = "boot"
    /\ svc \in Enabled
    /\ Fork(p, svc)
    /\ byName' = [byName EXCEPT ![svc] = p]
    /\ svc' = svc + 1
    /\ UNCHANGED <<tracking, pc, exits, forks, faults>>

\* Mutant: the service after one that is switched off is passed over.
BootSkip_Two ==
    /\ pc = "boot"
    /\ svc \in Services \ Enabled
    /\ svc' = svc + 2
    /\ UNCHANGED <<proc, byName, tracking, pc, exits, forks, faults>>

BootSkip ==
    /\ pc = "boot"
    /\ svc \in Services \ Enabled
    /\ svc' = svc + 1
    /\ UNCHANGED <<proc, byName, tracking, pc, exits, forks, faults>>

\* main turns the map round and enters its loop.
BootDone ==
    /\ pc = "boot"
    /\ svc = NServices + 1
    /\ tracking' = [p \in Pids |-> IF \E s \in Services : byName[s] = p
                                   THEN CHOOSE s \in Services : byName[s] = p
                                   ELSE Nobody]
    /\ pc' = "reap"
    /\ svc' = Nobody
    /\ UNCHANGED <<proc, byName, exits, forks, faults>>

-----------------------------------------------------------------------------
(* run_once                                                                *)

\* Mutant: a clean exit is never followed by a restart.
ShouldRestart_OnFailure(s, status) ==
    s # Nobody /\ Policy[s] # "Never" /\ status # 0

ShouldRestart(s, status) ==
    /\ s # Nobody
    /\ Policy[s] = "Always" \/ (Policy[s] = "OnFailure" /\ status # 0)

\* Mutant: the PID of a process that is gone stays in the map.
Untrack_Keeps(p) == tracking

Untrack(p) == [tracking EXCEPT ![p] = Nobody]

\* Mutant: what was reaped is looked up in the map that boot made.
ServiceOf_Boot(p) ==
    IF \E s \in Services : byName[s] = p THEN CHOOSE s \in Services : byName[s] = p
    ELSE Nobody

ServiceOf(p) == tracking[p]

\* Mutant: only the processes that process 1 knows of are waited for.
ReapOne_Known(p) ==
    /\ pc = "reap"
    /\ tracking[p] # Nobody
    /\ proc' = [proc EXCEPT ![p] = NoProcess]
    /\ tracking' = Untrack(p)
    /\ IF ShouldRestart(ServiceOf(p), proc[p].status)
       THEN pc' = "spawn" /\ svc' = ServiceOf(p)
       ELSE UNCHANGED <<pc, svc>>
    /\ UNCHANGED <<byName, exits, forks, faults>>

ReapOne(p) ==
    /\ pc = "reap"
    /\ proc' = [proc EXCEPT ![p] = NoProcess]
    /\ tracking' = Untrack(p)
    /\ IF ShouldRestart(ServiceOf(p), proc[p].status)
       THEN pc' = "spawn" /\ svc' = ServiceOf(p)
       ELSE UNCHANGED <<pc, svc>>
    /\ UNCHANGED <<byName, exits, forks, faults>>

Track(p, s) == [tracking EXCEPT ![p] = s]

Respawn(p) ==
    /\ pc = "spawn"
    /\ Fork(p, svc)
    /\ tracking' = Track(p, svc)
    /\ pc' = "reap"
    /\ svc' = Nobody
    /\ UNCHANGED <<byName, exits, forks, faults>>

\* A fork that fails is returned by boot and run_once to main, which ends.
SpawnFails ==
    /\ pc = "spawn" \/ (pc = "boot" /\ svc \in Enabled)
    /\ \/ FreePids = {} /\ UNCHANGED faults
       \/ faults < MaxFaults /\ faults' = faults + 1
    /\ pc' = "halted"
    /\ svc' = Nobody
    /\ UNCHANGED <<proc, byName, tracking, exits, forks>>

\* Nothing left to reap: sleep for 250 ms.
Drained ==
    /\ pc = "reap"
    /\ Reapable = {}
    /\ pc' = "sleep"
    /\ UNCHANGED <<proc, byName, tracking, svc, exits, forks, faults>>

Wake ==
    /\ pc = "sleep"
    /\ pc' = "reap"
    /\ UNCHANGED <<proc, byName, tracking, svc, exits, forks, faults>>

-----------------------------------------------------------------------------
(* The kernel and the services.                                            *)

\* What the process leaves behind is adopted by process 1.
Exit(p, status) ==
    /\ proc[p].state = "running"
    /\ exits < MaxExits
    /\ exits' = exits + 1
    /\ proc' = [q \in Pids |->
                  IF q = p THEN [proc[p] EXCEPT !.state = "zombie", !.status = status]
                  ELSE IF proc[q].parent = p THEN [proc[q] EXCEPT !.parent = InitPid]
                  ELSE proc[q]]
    /\ UNCHANGED <<byName, tracking, pc, svc, forks, faults>>

ServiceForks(p, q) ==
    /\ proc[p].state = "running"
    /\ forks < MaxForks
    /\ forks' = forks + 1
    /\ proc' = [proc EXCEPT ![q] = [NoProcess EXCEPT !.state = "running", !.parent = p]]
    /\ UNCHANGED <<byName, tracking, pc, svc, exits, faults>>

-----------------------------------------------------------------------------
InitNext ==
    \/ \E p \in FreePids : BootSpawn(p) \/ Respawn(p)
    \/ \E p \in Reapable : ReapOne(p)
    \/ BootSkip \/ BootDone \/ Drained \/ Wake

Next ==
    \/ InitNext
    \/ SpawnFails
    \/ \E p \in Pids : \E status \in {0, 1} : Exit(p, status)
    \/ \E p \in Pids, q \in FreePids : ServiceForks(p, q)

Spec == Init /\ [][Next]_vars

\* Process 1 is scheduled and its system calls return; while services stop
\* exiting at some time, its loop gets through what there is to reap.
FairSpec == Spec /\ WF_vars(InitNext \/ SpawnFails)

-----------------------------------------------------------------------------
(* What makes the supervisor correct.                                      *)

\* Type invariant of the process table and of what process 1 keeps.
TypeOK ==
    /\ proc \in [Pids -> Process]
    /\ byName \in [Services -> Pids \cup {0}]
    /\ tracking \in [Pids -> Services \cup {Nobody}]
    /\ pc \in {"boot", "reap", "spawn", "sleep", "halted"}
    /\ svc \in 0..(NServices + 1)
    /\ exits \in Nat /\ forks \in Nat /\ faults \in Nat

\* The map tells the truth about PIDs: once booted, a PID is entered for a
\* service exactly when it is a process, running or not yet reaped, that
\* process 1 forked for it; no PID that was given out again passes for a
\* service, and no service process is forgotten.
Booted == pc \in {"reap", "spawn", "sleep"}
TrackingTrue ==
    Booted => \A p \in Pids : \A s \in Services :
        tracking[p] = s <=> (proc[p].state # "free" /\ proc[p].svc = s)

\* A service never has two processes, not even one that is still to reap.
OneInstance ==
    \A p, q \in Pids :
        /\ proc[p].state # "free" /\ proc[q].state # "free"
        /\ proc[p].svc = proc[q].svc /\ proc[p].svc # Nobody
        => p = q

\* A service whose process ended and was not to be restarted stays down,
\* whatever its old PID is used for afterwards.
AtRest(s) ==
    /\ Booted
    /\ ~(pc = "spawn" /\ svc = s)
    /\ \A p \in Pids : proc[p].state = "free" \/ proc[p].svc # s
StaysDown == [][\A s \in Services : AtRest(s) => AtRest(s)' \/ pc' = "halted"]_vars

\* A service that its policy restarts comes back, unless a fork fails.
IsUp(s)    == \E p \in Pids : proc[p].state = "running" /\ proc[p].svc = s
Ended(s)   == \E p \in Pids : /\ proc[p].state = "zombie" /\ proc[p].svc = s
                              /\ \/ Policy[s] = "Always"
                                 \/ Policy[s] = "OnFailure" /\ proc[p].status # 0
ComesBack == \A s \in Services : Ended(s) ~> (IsUp(s) \/ pc = "halted")

\* "Reaps zombie children (the classic PID-1 duty)": every child, adopted ones
\* included, is reaped once it has exited.
Reaped == \A p \in Pids : p \in Reapable ~> (p \notin Reapable \/ pc = "halted")
=============================================================================
