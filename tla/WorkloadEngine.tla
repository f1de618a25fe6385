--------------------------- MODULE WorkloadEngine ---------------------------
(***************************************************************************)
(* The convergence loop of tatara-engine for one task group of a Running   *)
(* service job: domain::reconciler::Reconciler with the passes health,     *)
(* count and spec drift, and the client::executor::Executor it drives.     *)
(*                                                                         *)
(* The Reconciler is one sequential task.  What happens around it is task  *)
(* processes that exit at any moment, edits of the flake, driver and store *)
(* calls that fail, and a crash of the engine: the store is a file and     *)
(* task processes are detached, so both survive, while the running map is  *)
(* lost.  Each call the loop awaits is an action.  A save that fails is    *)
(* made good by the next one, which writes the whole store; a crash before *)
(* that is not considered.                                                 *)
(*                                                                         *)
(* The store's table of nodes is abstracted to whether it has a node that  *)
(* is ready.  StateStore::put_node has no caller in the repository: as     *)
(* shipped the table stays empty and the loop creates nothing.  What the   *)
(* loop does once something calls put_node is what is modelled here.       *)
(* Nothing removes a node and allocations are created on a node of the     *)
(* table, so the node pass finds no node missing and marks nothing Lost.   *)
(*                                                                         *)
(* The drift pass evaluates the flake that the first Nix task of the JOB   *)
(* names, in this group or another: a group of OCI tasks sees edits too.   *)
(***************************************************************************)
EXTENDS Integers, FiniteSets, FiniteSetsExt

CONSTANTS
    NTasks,     \* number of tasks in the group
    Detected,   \* tasks whose driver notices an exit (oci); for the others
                \* (exec, nix, wasi) the forgotten child stays a zombie
    Mode,       \* restart_policy.mode
    Attempts,   \* restart_policy.attempts
    Counts,     \* values of the group's count in the flake
    MaxAllocs,  \* bound on allocations
    MaxExits,   \* bound on task exits and lost status answers
    MaxEdits,   \* bound on edits of the flake
    MaxDrains,  \* bound on how often the node stops being ready
    MaxFaults   \* bound on failed calls and crashes of the engine

Tasks == 1..NTasks
Ids   == 1..MaxAllocs    \* in order of created_at

ASSUME WorkloadEngineAssumption ==
    /\ NTasks \in Nat \ {0} /\ Detected \subseteq Tasks
    /\ Mode \in {"Never", "OnFailure", "Always"}
    /\ Attempts \in Nat /\ Counts \subseteq Nat /\ Counts # {}
    /\ {MaxAllocs, MaxExits, MaxEdits, MaxDrains, MaxFaults} \subseteq Nat

VARIABLES
    flake,    \* the group's count as the flake gives it
    job,      \* [count, version], the Job in the store
    alloc,    \* [Ids -> AllocationRecord], the allocations in the store
    entries,  \* the keys of Executor.running
    running,  \* [Ids -> SUBSET Instances], its values
    started,  \* [Ids -> [Tasks -> Nat]], processes started so far
    alive,    \* the task processes that have not exited
    ready,    \* whether the store has a node that is Ready and eligible
    rec,      \* the tick under way
    hurt,     \* history: the kinds of damage done so far
    budget    \* [exits, edits, drains, faults], the bounded events so far

vars == <<flake, job, alloc, entries, running, started, alive, ready, rec, hurt, budget>>

-----------------------------------------------------------------------------
Instances == Ids \X Tasks \X Nat   \* the n-th process of a task

States == {"None", "Pending", "Running", "Complete", "Failed"}
AllocationRecord == [state : States, version : Nat, restarts : [Tasks -> Nat]]
NoAllocation == [state |-> "None", version |-> 0, restarts |-> [t \in Tasks |-> 0]]

Damage == {"blind",      \* a live task was taken for dead
           "unstopped",  \* a driver did not stop a process
           "dropped",    \* the handle of a process was thrown away
           "stuck",      \* a start or a save was given up half-way
           "crash"}

TickState ==
        [pc : {"idle", "health", "tasks", "restart", "record", "create",
               "start", "mark", "drift"},
         nodes   : BOOLEAN,                 \* the tick's node list has a ready one
         pass    : {"count", "drift", "nodeless"},   \* who creates and stops
         todo    : SUBSET Ids,              \* allocations left to check
         dead    : [Ids -> SUBSET Tasks],   \* tasks reported Dead
         up      : SUBSET Ids,              \* with a task not reported Dead
         cur     : Ids \cup {0},
         left    : SUBSET Tasks,            \* dead tasks of cur to restart
         allDead : BOOLEAN,
         task    : Tasks \cup {0},
         held    : SUBSET Instances,        \* started, not yet in the map
         creates : Nat,
         victims : SUBSET Ids]

IdleTick == [pc |-> "idle", nodes |-> FALSE, pass |-> "count", todo |-> {},
             dead |-> [a \in Ids |-> {}], up |-> {}, cur |-> 0, left |-> {},
             allDead |-> FALSE, task |-> 0, held |-> {}, creates |-> 0,
             victims |-> {}]

\* Running or Pending, as reconcile_count and reconcile_drift count them.
Active == {a \in Ids : alloc[a].state \in {"Running", "Pending"}}
NextId == 1 + Cardinality({a \in Ids : alloc[a].state # "None"})

Spend(kind, max) ==
    budget[kind] < max /\ budget' = [budget EXCEPT ![kind] = @ + 1]
Fault(kinds) == Spend("faults", MaxFaults) /\ hurt' = hurt \cup kinds
NoFault      == UNCHANGED <<hurt, budget>>

-----------------------------------------------------------------------------
(* The store starts as a Running job without allocations or nodes.         *)

Init ==
    /\ flake \in Counts
    /\ job = [count |-> flake, version |-> 1]
    /\ alloc = [a \in Ids |-> NoAllocation]
    /\ entries = {}
    /\ running = [a \in Ids |-> {}]
    /\ started = [a \in Ids |-> [t \in Tasks |-> 0]]
    /\ alive = {}
    /\ ready = FALSE
    /\ rec = IdleTick
    /\ hurt = {}
    /\ budget = [exits |-> 0, edits |-> 0, drains |-> 0, faults |-> 0]

-----------------------------------------------------------------------------
(* Pass 1: health.                                                         *)

\* Mutant: no driver reaps its child.
SeenDead_Zombie(i) == FALSE

\* Driver::status: a zombie answers signal 0, so only some drivers see exits.
SeenDead(i) == i[2] \in Detected /\ i \notin alive

TaskNames(insts) == {i[2] : i \in insts}

\* list_nodes, list_allocations_for_job and check_task_health_detailed; the
\* answers of the processes in blind are lost, which counts as Dead.
Check(blind) ==
    LET checked == {a \in entries : alloc[a].state = "Running"}
        dead(a) == {i \in running[a] : SeenDead(i) \/ i \in blind}
    IN  rec' = [IdleTick EXCEPT
                  !.pc    = "health",
                  !.nodes = ready,
                  !.todo  = checked,
                  !.dead  = [a \in Ids |-> IF a \in checked THEN TaskNames(dead(a)) ELSE {}],
                  !.up    = {a \in checked : running[a] # dead(a)}]

BeginTick ==
    /\ rec.pc = "idle"
    /\ Check({})
    /\ NoFault
    /\ UNCHANGED <<ready, flake, job, alloc, entries, running, started, alive>>

BeginTickBlind ==
    /\ rec.pc = "idle"
    /\ \E a \in entries : \E i \in running[a] :
          /\ i[2] \in Detected /\ i \in alive
          /\ Check({i})
    /\ Spend("exits", MaxExits)
    /\ hurt' = hurt \cup {"blind"}
    /\ UNCHANGED <<ready, flake, job, alloc, entries, running, started, alive>>

\* Nothing records an exit code, so OnFailure takes every exit for a failure.
ShouldRestart(restarts) == Mode # "Never" /\ restarts < Attempts

\* Mutant: one dead task is enough.
AllDead_Any(a) == rec.dead[a] # {}

AllDead(a) == a \notin rec.up

BeginAllocation(a) ==
    /\ rec.pc = "health"
    /\ a \in rec.todo
    /\ rec' = [rec EXCEPT
                 !.pc = "tasks", !.cur = a, !.todo = @ \ {a},
                 !.dead[a] = {}, !.up = @ \ {a},
                 !.left = {t \in rec.dead[a] : ShouldRestart(alloc[a].restarts[t])},
                 !.allDead = AllDead(a)]
    /\ NoFault
    /\ UNCHANGED <<ready, flake, job, alloc, entries, running, started, alive>>

\* restart_task, first half: stop what the map has for the task.
Tracked(a, t) == {i \in running[a] : i[2] = t}

\* Mutant: the old process is forgotten and not stopped.
StopOld_Forgets(a, t) == alive' = alive /\ NoFault

StopOld(a, t) ==
    \/ alive' = alive \ Tracked(a, t) /\ NoFault
    \/ Tracked(a, t) \cap alive # {} /\ alive' = alive /\ Fault({"unstopped"})

RestartTask(t) ==
    /\ rec.pc = "tasks"
    /\ t \in rec.left
    /\ StopOld(rec.cur, t)
    /\ running' = [running EXCEPT ![rec.cur] = @ \ Tracked(rec.cur, t)]
    /\ rec' = [rec EXCEPT !.pc = "restart", !.task = t, !.left = @ \ {t}]
    /\ UNCHANGED <<ready, flake, job, alloc, entries, started>>

\* Driver::start of task t of allocation a.
Launch(a, t) ==
    LET n == started[a][t] + 1
    IN  /\ started' = [started EXCEPT ![a][t] = n]
        /\ alive' = alive \cup {<<a, t, n>>}
        /\ rec' = [rec EXCEPT !.held = @ \cup {<<a, t, n>>},
                              !.pc = IF @ = "restart" THEN "record" ELSE @]

RestartStarts ==
    /\ rec.pc = "restart"
    /\ Launch(rec.cur, rec.task)
    /\ NoFault
    /\ UNCHANGED <<ready, flake, job, alloc, entries, running>>

\* The error is logged; the task has left the map for good.
RestartFails ==
    /\ rec.pc = "restart"
    /\ Fault({})
    /\ rec' = [rec EXCEPT !.pc = "tasks"]
    /\ UNCHANGED <<ready, flake, job, alloc, entries, running, started, alive>>

\* Mutant: the restart is not counted.
CountRestart_Skipped == UNCHANGED alloc

CountRestart == alloc' = [alloc EXCEPT ![rec.cur].restarts[rec.task] = @ + 1]

RecordRestart ==
    /\ rec.pc = "record"
    /\ CountRestart
    /\ entries' = entries \cup {rec.cur}
    /\ running' = [running EXCEPT ![rec.cur] = @ \cup rec.held]
    /\ rec' = [rec EXCEPT !.pc = "tasks", !.held = {}, !.allDead = FALSE]
    /\ NoFault
    /\ UNCHANGED <<ready, flake, job, started, alive>>

\* The store counts the restart and cannot save it: the handle is dropped.
RecordRestartFails ==
    /\ rec.pc = "record"
    /\ Fault({"dropped", "stuck"})
    /\ CountRestart
    /\ rec' = [rec EXCEPT !.pc = "tasks", !.held = {}]
    /\ UNCHANGED <<ready, flake, job, entries, running, started, alive>>

\* The allocation fails when no task is left; its entry stays in the map.
EndAllocation ==
    /\ rec.pc = "tasks"
    /\ rec.left = {}
    /\ alloc' = IF rec.allDead THEN [alloc EXCEPT ![rec.cur].state = "Failed"]
                ELSE alloc
    /\ rec' = [rec EXCEPT !.pc = "health", !.cur = 0, !.task = 0, !.allDead = FALSE]
    /\ NoFault
    /\ UNCHANGED <<ready, flake, job, entries, running, started, alive>>

-----------------------------------------------------------------------------
(* Pass 3: count.                                                          *)

\* The newest n members of S.
Newest(S, n) == {a \in S : Cardinality({b \in S : b > a}) < n}

\* Mutant: an excess is taken for a deficit.
Deficit_Signed(active) == job.count - active

Deficit(active) == IF active < job.count THEN job.count - active ELSE 0

ReconcileCount ==
    /\ rec.pc = "health"
    /\ rec.todo = {}
    /\ rec.nodes
    /\ LET active == Cardinality(Active)
       IN  rec' = [IdleTick EXCEPT
                     !.pc = "create", !.pass = "count",
                     !.creates = Deficit(active),
                     !.victims = Newest(Active, active - job.count)]
    /\ NoFault
    /\ UNCHANGED <<ready, flake, job, alloc, entries, running, started, alive>>

\* Without a ready node the pass returns, and excess allocations stay too.
NoReadyNode ==
    /\ rec.pc = "health"
    /\ rec.todo = {}
    /\ ~rec.nodes
    /\ rec' = [IdleTick EXCEPT !.pc = "drift"]
    /\ NoFault
    /\ UNCHANGED <<ready, flake, job, alloc, entries, running, started, alive>>

Put == alloc' = [alloc EXCEPT ![NextId] = [NoAllocation EXCEPT !.state = "Pending",
                                                               !.version = job.version]]

PutAllocation ==
    /\ rec.pc = "create"
    /\ rec.creates > 0
    /\ NextId \in Ids
    /\ Put
    /\ rec' = [rec EXCEPT !.pc = "start", !.cur = NextId, !.creates = @ - 1]
    /\ NoFault
    /\ UNCHANGED <<ready, flake, job, entries, running, started, alive>>

\* The store has the allocation and cannot save it; the tick is given up.
PutAllocationFails ==
    /\ rec.pc = "create"
    /\ rec.creates > 0
    /\ NextId \in Ids
    /\ Fault({"stuck"})
    /\ Put
    /\ rec' = IdleTick
    /\ UNCHANGED <<ready, flake, job, entries, running, started, alive>>

\* start_allocation: one task after the other.
StartTask ==
    /\ rec.pc = "start"
    /\ Cardinality(rec.held) < NTasks
    /\ Launch(rec.cur, Cardinality(rec.held) + 1)
    /\ NoFault
    /\ UNCHANGED <<ready, flake, job, alloc, entries, running>>

EndStart == rec' = [rec EXCEPT !.pc = "create", !.cur = 0, !.held = {}]

\* A task does not start: the ones before it are left to themselves.
StartTaskFails ==
    /\ rec.pc = "start"
    /\ Cardinality(rec.held) < NTasks
    /\ Fault(IF rec.held = {} THEN {} ELSE {"dropped"})
    /\ alloc' = [alloc EXCEPT ![rec.cur].state = "Failed"]
    /\ EndStart
    /\ UNCHANGED <<ready, flake, job, entries, running, started, alive>>

\* The allocation stays Pending: the job, the group, its directory or a
\* driver is not there, or a save fails once a task has started.
StartAborts ==
    /\ rec.pc = "start"
    /\ Fault(IF rec.held = {} THEN {"stuck"} ELSE {"dropped", "stuck"})
    /\ EndStart
    /\ UNCHANGED <<ready, flake, job, alloc, entries, running, started, alive>>

\* Marked Running and entered into the map.
FinishStart ==
    /\ rec.pc = "start"
    /\ Cardinality(rec.held) = NTasks
    /\ alloc' = [alloc EXCEPT ![rec.cur].state = "Running"]
    /\ entries' = entries \cup {rec.cur}
    /\ running' = [running EXCEPT ![rec.cur] = rec.held]
    /\ EndStart
    /\ NoFault
    /\ UNCHANGED <<ready, flake, job, started, alive>>

\* Mutant: old allocations stop while their replacements are still to come.
Replaced_Early == TRUE

\* Everything to be created has been tried before anything is stopped.
Replaced == rec.creates = 0

\* stop_allocation: the entry leaves the map and its tasks are stopped; a
\* stop that fails is only logged.
StopTasks(a) ==
    /\ rec.pc = "create"
    /\ Replaced
    /\ a \in rec.victims
    /\ \/ alive' = alive \ running[a] /\ NoFault
       \/ /\ Fault({"unstopped"})
          /\ \E i \in running[a] \cap alive : alive' = (alive \ running[a]) \cup {i}
    /\ entries' = entries \ {a}
    /\ running' = [running EXCEPT ![a] = {}]
    /\ rec' = [rec EXCEPT !.pc = "mark", !.cur = a, !.victims = @ \ {a}]
    /\ UNCHANGED <<ready, flake, job, alloc, started>>

MarkComplete ==
    /\ rec.pc = "mark"
    /\ alloc' = [alloc EXCEPT ![rec.cur].state = "Complete"]
    /\ rec' = [rec EXCEPT !.pc = "create", !.cur = 0]
    /\ NoFault
    /\ UNCHANGED <<ready, flake, job, entries, running, started, alive>>

EndPass ==
    /\ rec.pc = "create"
    /\ Replaced
    /\ rec.victims = {}
    /\ rec' = IF rec.pass = "count" THEN [IdleTick EXCEPT !.pc = "drift"] ELSE IdleTick
    /\ NoFault
    /\ UNCHANGED <<ready, flake, job, alloc, entries, running, started, alive>>

-----------------------------------------------------------------------------
(* Pass 4: spec drift.                                                     *)

NoDrift ==
    /\ rec.pc = "drift"
    /\ flake = job.count
    /\ rec' = IdleTick
    /\ NoFault
    /\ UNCHANGED <<ready, flake, job, alloc, entries, running, started, alive>>

EvalFails ==
    /\ rec.pc = "drift"
    /\ Fault({})
    /\ rec' = IdleTick
    /\ UNCHANGED <<ready, flake, job, alloc, entries, running, started, alive>>

UpdateJob == job' = [count |-> flake, version |-> job.version + 1]

\* The active allocations of earlier versions, once the job is updated.
Old == {a \in Active : alloc[a].version < job'.version}

\* As many new allocations as there are old ones, then the old ones stop.
RollingUpdate ==
    /\ rec.pc = "drift"
    /\ flake # job.count
    /\ ready
    /\ UpdateJob
    /\ rec' = [IdleTick EXCEPT !.pc = "create", !.pass = "drift",
                               !.creates = Cardinality(Old), !.victims = Old]
    /\ NoFault
    /\ UNCHANGED <<ready, flake, alloc, entries, running, started, alive>>

\* No node is ready now: every replacement is skipped, and the old ones stop
\* all the same.
UpdateWithoutNode ==
    /\ rec.pc = "drift"
    /\ flake # job.count
    /\ ~ready
    /\ UpdateJob
    /\ rec' = [IdleTick EXCEPT !.pc = "create", !.pass = "nodeless", !.victims = Old]
    /\ NoFault
    /\ UNCHANGED <<ready, flake, alloc, entries, running, started, alive>>

\* The job is updated and cannot be saved; nothing is rolled out.
RollingUpdateFails ==
    /\ rec.pc = "drift"
    /\ flake # job.count
    /\ Fault({"stuck"})
    /\ UpdateJob
    /\ rec' = IdleTick
    /\ UNCHANGED <<ready, flake, alloc, entries, running, started, alive>>

-----------------------------------------------------------------------------
(* What happens around the loop.                                           *)

TaskExits(i) ==
    /\ Spend("exits", MaxExits)
    /\ alive' = alive \ {i}
    /\ UNCHANGED <<ready, flake, job, alloc, entries, running, started, rec, hurt>>

EditFlake ==
    /\ Spend("edits", MaxEdits)
    /\ \E n \in Counts \ {flake} : flake' = n
    /\ UNCHANGED <<ready, job, alloc, entries, running, started, alive, rec, hurt>>

\* put_node with a node that is Ready and eligible, and with one that is not.
NodeReady ==
    /\ ~ready
    /\ ready' = TRUE
    /\ UNCHANGED <<flake, job, alloc, entries, running, started, alive, rec, hurt, budget>>

NodeDrains ==
    /\ ready
    /\ Spend("drains", MaxDrains)
    /\ ready' = FALSE
    /\ UNCHANGED <<flake, job, alloc, entries, running, started, alive, rec, hurt>>

\* The engine stops and comes back; nothing rebuilds the running map.
Crash ==
    /\ Fault({"crash"})
    /\ entries' = {}
    /\ running' = [a \in Ids |-> {}]
    /\ rec' = IdleTick
    /\ UNCHANGED <<ready, flake, job, alloc, started, alive>>

-----------------------------------------------------------------------------
ReconcilerNext ==
    \/ BeginTick
    \/ \E a \in Ids : BeginAllocation(a) \/ StopTasks(a)
    \/ \E t \in Tasks : RestartTask(t)
    \/ RestartStarts \/ RecordRestart \/ EndAllocation
    \/ ReconcileCount \/ NoReadyNode \/ PutAllocation \/ StartTask \/ FinishStart
    \/ MarkComplete \/ EndPass \/ NoDrift \/ RollingUpdate \/ UpdateWithoutNode

FaultNext ==
    \/ BeginTickBlind \/ RestartFails \/ RecordRestartFails
    \/ PutAllocationFails \/ StartTaskFails \/ StartAborts
    \/ EvalFails \/ RollingUpdateFails

Environment ==
    (\E i \in alive : TaskExits(i)) \/ EditFlake \/ NodeReady \/ NodeDrains \/ Crash

Next == ReconcilerNext \/ FaultNext \/ Environment

Spec == Init /\ [][Next]_vars

\* The loop ticks on an interval and every call it awaits returns.
FairSpec == Spec /\ WF_vars(ReconcilerNext)

-----------------------------------------------------------------------------
(* What makes the engine correct.                                          *)

\* Type invariant of the store, the running map and the tick.
TypeOK ==
    /\ flake \in Counts
    /\ job \in [count : Nat, version : Nat]
    /\ alloc \in [Ids -> AllocationRecord]
    /\ entries \subseteq Ids
    /\ running \in [Ids -> SUBSET Instances]
    /\ started \in [Ids -> [Tasks -> Nat]]
    /\ alive \subseteq Instances
    /\ ready \in BOOLEAN
    /\ rec \in TickState
    /\ hurt \subseteq Damage
    /\ budget \in [{"exits", "edits", "drains", "faults"} -> Nat]

\* restart_policy.attempts bounds the processes a task ever gets: the first
\* one and at most Attempts more, whatever calls fail and whenever the
\* engine crashes.
StartsBounded == \A a \in Ids : \A t \in Tasks : started[a][t] <= Attempts + 1

\* No two processes of one task of one allocation run side by side, unless a
\* driver failed to stop the first: also not after a status answer that took
\* a live task for dead, a save that failed or a crash.
OneLiveCopy ==
    "unstopped" \notin hurt =>
        \A i, j \in alive : i[1] = j[1] /\ i[2] = j[2] => i = j

\* No strays: while every call that handles a process works and the engine
\* does not crash, every live process is in the running map or in the hands
\* of the tick, and an allocation that is Complete or Failed has none.
Accounted ==
    hurt \subseteq {"stuck"} =>
        \A i \in alive :
            /\ i \in rec.held \/ (i[1] \in entries /\ i \in running[i[1]])
            /\ alloc[i[1]].state \in {"Pending", "Running"}

\* "Rolling update: create new allocations, then stop old ones": while no task
\* exits and no call fails, no step takes the allocations that run all their
\* tasks below the smallest count the flake gives, however the node comes and
\* goes.  The exception is an update that finds no ready node: it replaces
\* nothing and stops everything.
Up == {a \in Ids : /\ alloc[a].state = "Running"
                   /\ TaskNames({i \in alive : i[1] = a}) = Tasks}
CapacityKept ==
    [][budget'.exits + budget'.faults = 0 /\ rec.pass # "nodeless" =>
          Cardinality(Up') >= Min({Cardinality(Up)} \cup Counts)]_vars

\* The group converges, unless the engine crashed, a start or a save was given
\* up half-way, or no node is ready: from some time on the job is what the
\* flake says, and as many allocations as it asks for run at its version, each
\* with a live task.  An allocation whose start was given up stays Pending and
\* counts as active for ever, without any process.
Serving(a) ==
    /\ alloc[a].state = "Running" /\ alloc[a].version = job.version
    /\ a \in entries
    /\ running[a] \cap alive # {}
Converged ==
    /\ job.count = flake
    /\ Cardinality(Active) = job.count
    /\ \A a \in Active : Serving(a)
CountConverges ==
    <>[](hurt \cap {"stuck", "crash"} # {} \/ ~ready \/ Converged)
=============================================================================
