-------------------------- MODULE ClusterScheduling --------------------------
(***************************************************************************)
(* The replicated store of tatara-engine and the scheduler on top of it.   *)
(*                                                                         *)
(*   - cluster::raft_sm is the state machine: it lives in memory only,     *)
(*     applies the committed log and is built into and installed from      *)
(*     snapshots;                                                          *)
(*   - cluster::raft_log keeps the log in a file, from which entries that  *)
(*     a snapshot covers are purged;                                       *)
(*   - cluster::store reads the memory of its own node and writes through  *)
(*     Raft;                                                               *)
(*   - domain::scheduler runs on every node and, on the leader, places the *)
(*     allocations of Pending jobs with domain::evaluation.                *)
(*                                                                         *)
(* Consensus itself is openraft's and taken for granted: there is one      *)
(* committed log, an entry is stored by a majority when it is committed,   *)
(* and only a node that stores all of it is elected.  A job is its status  *)
(* and the number of allocations placed for it.  The tables of nodes,      *)
(* releases, sources and the rest change likewise and are left out.  So    *)
(* are the events: apply_command draws an id and a time for each, so the   *)
(* events of two replicas at one index differ, and what is said of         *)
(* replicas here is not said of them.                                      *)
(***************************************************************************)
EXTENDS Integers, FiniteSets, Sequences

CONSTANTS
    Nodes,      \* the members of the cluster
    Jobs,       \* job ids
    Fits,       \* the jobs for which some node has room
    Count,      \* allocations a job asks for
    None,       \* no leader, no job
    SnapshotEvery, \* applied entries between two snapshots
    MaxOps,     \* bound on submissions, stops and rollbacks
    MaxFaults   \* bound on elections, crashes and failed writes

ASSUME ClusterSchedulingAssumption ==
    /\ IsFiniteSet(Nodes) /\ Nodes # {}
    /\ Fits \subseteq Jobs
    /\ None \notin Nodes \cup Jobs
    /\ Count \in Nat \ {0}
    /\ SnapshotEvery \in Nat \ {0}
    /\ {MaxOps, MaxFaults} \subseteq Nat

VARIABLES
    log,      \* the committed log, a sequence of commands
    stored,   \* [Nodes -> Nat], the last index in each node's log store
    purged,   \* [Nodes -> Nat], the last index purged from it
    sm,       \* [Nodes -> ClusterState], the state machines
    applied,  \* [Nodes -> Nat], last_applied_log of each
    leader,
    sched,    \* [Nodes -> SchedulerState], each evaluation under way
    ops, faults

vars == <<log, stored, purged, sm, applied, leader, sched, ops, faults>>

-----------------------------------------------------------------------------
(* The state machine.                                                      *)

Statuses == {"None", "Pending", "Running", "Dead"}
ClusterState == [status : [Jobs -> Statuses], allocs : [Jobs -> Nat]]
EmptyState == [status |-> [j \in Jobs |-> "None"], allocs |-> [j \in Jobs |-> 0]]

\* "RollbackLost" is a RollbackJob to a version that the history has not.
Command == [op : {"PutJob", "RollbackJob", "RollbackLost", "PutAllocation",
                  "Running", "Dead"},
            job : Jobs]
Cmd(op, j) == [op |-> op, job |-> j]

\* A command on a job or a version that is not there changes nothing.
ApplyCommand(state, c) ==
    LET known == state.status[c.job] # "None"
    IN  CASE c.op = "PutJob" -> [state EXCEPT !.status[c.job] = "Pending"]
          [] c.op = "RollbackJob" /\ known -> [state EXCEPT !.status[c.job] = "Pending"]
          [] c.op = "PutAllocation" -> [state EXCEPT !.allocs[c.job] = @ + 1]
          [] c.op \in {"Running", "Dead"} /\ known ->
                [state EXCEPT !.status[c.job] = c.op]
          [] OTHER -> state

\* What the first n entries of a log amount to.
ReplayOf(entries, n) ==
    LET state[i \in 0..n] ==
            IF i = 0 THEN EmptyState ELSE ApplyCommand(state[i - 1], entries[i])
    IN  state[n]
Replay(n) == ReplayOf(log, n)
Committed == Replay(Len(log))

-----------------------------------------------------------------------------
IdleScheduler == [pc |-> "idle", todo |-> {}, job |-> None, left |-> 0,
                  placed |-> FALSE, wait |-> 0]

\* A node whose log store no longer has the entries its memory needs.
Stranded(n) == applied[n] < purged[n]

Init ==
    /\ log = <<>>
    /\ stored = [n \in Nodes |-> 0]
    /\ purged = [n \in Nodes |-> 0]
    /\ sm = [n \in Nodes |-> EmptyState]
    /\ applied = [n \in Nodes |-> 0]
    /\ leader = CHOOSE n \in Nodes : TRUE
    /\ sched = [n \in Nodes |-> IdleScheduler]
    /\ ops = 0
    /\ faults = 0

Fault == faults < MaxFaults /\ faults' = faults + 1

-----------------------------------------------------------------------------
(* Raft.                                                                   *)

\* client_write on the leader: c is committed on a majority.
Commit(c) ==
    /\ \E Q \in SUBSET {n \in Nodes : stored[n] = Len(log) /\ ~Stranded(n)} :
          /\ leader \in Q
          /\ 2 * Cardinality(Q) > Cardinality(Nodes)
          /\ stored' = [n \in Nodes |-> IF n \in Q THEN Len(log) + 1 ELSE stored[n]]
    /\ log' = Append(log, c)

\* A follower stores the next entry, which the leader still has.
Replicate(n) ==
    /\ leader # None
    /\ stored[n] < Len(log)
    /\ stored[n] >= purged[leader]
    /\ ~Stranded(n)
    /\ stored' = [stored EXCEPT ![n] = @ + 1]
    /\ UNCHANGED <<log, purged, sm, applied, leader, sched, ops, faults>>

\* apply, as long as no snapshot is due.
Apply(n) ==
    /\ applied[n] < stored[n]
    /\ applied[n] - purged[n] \in 0..(SnapshotEvery - 1)
    /\ sm' = [sm EXCEPT ![n] = ApplyCommand(@, log[applied[n] + 1])]
    /\ applied' = [applied EXCEPT ![n] = @ + 1]
    /\ UNCHANGED <<log, stored, purged, leader, sched, ops, faults>>

\* Mutant: the purge is not limited to what the snapshot covers.
PurgePoint_Stored(n) == stored[n]

\* build_snapshot covers what has been applied; then the log is purged.  It is
\* due when SnapshotEvery entries were applied since the last one.
PurgePoint(n) == applied[n]

Purge(n) ==
    /\ applied[n] - purged[n] >= SnapshotEvery
    /\ purged' = [purged EXCEPT ![n] = PurgePoint(n)]
    /\ UNCHANGED <<log, stored, sm, applied, leader, sched, ops, faults>>

\* Mutants: the state is taken over and its place in the log is not, or it is
\* off by one.
InstalledIndex_Old(n)  == applied[n]
InstalledIndex_Next(n) == applied[leader] + 1

InstalledIndex(n) == applied[leader]

\* The leader has purged what the follower needs: get_current_snapshot there,
\* install_snapshot here.  A stranded node is taken to be beyond repair: it
\* comes up with a log that begins after what it has applied, and nothing in
\* the repository brings it back.
InstallSnapshot(n) ==
    /\ leader \notin {None, n}
    /\ stored[n] < purged[leader]
    /\ ~Stranded(n) /\ ~Stranded(leader)
    /\ sm' = [sm EXCEPT ![n] = sm[leader]]
    /\ applied' = [applied EXCEPT ![n] = InstalledIndex(n)]
    /\ stored' = [stored EXCEPT ![n] = applied[leader]]
    /\ purged' = [purged EXCEPT ![n] = applied[leader]]
    /\ UNCHANGED <<log, leader, sched, ops, faults>>

Elect(n) ==
    /\ leader # n
    /\ stored[n] = Len(log)
    /\ ~Stranded(n)
    /\ IF leader = None THEN UNCHANGED faults ELSE Fault
    /\ leader' = n
    /\ UNCHANGED <<log, stored, purged, sm, applied, sched, ops>>

\* A node stops and comes back: it has its log and an empty state machine.
Crash(n) ==
    /\ Fault
    /\ sm' = [sm EXCEPT ![n] = EmptyState]
    /\ applied' = [applied EXCEPT ![n] = 0]
    /\ leader' = IF leader = n THEN None ELSE leader
    /\ sched' = [sched EXCEPT ![n] = IdleScheduler]
    /\ UNCHANGED <<log, stored, purged, ops>>

-----------------------------------------------------------------------------
(* Scheduler::run and Evaluator::evaluate on node n.                       *)

At(n, pc) == sched[n].pc = pc

\* is_leader: the node is the leader and has applied what is committed.
ConfirmLeader(n) ==
    /\ At(n, "idle")
    /\ leader = n
    /\ applied[n] = Len(log)
    /\ sched' = [sched EXCEPT ![n].pc = "confirmed"]
    /\ UNCHANGED <<log, stored, purged, sm, applied, leader, ops, faults>>

\* The loop over the listed jobs, in any order: the next job with something to
\* write.  Allocations are made for a job that fits; once any was placed in
\* this evaluation, every further job is marked Running, be it without one.
Turn(j, left, rest, placed) ==
    [pc |-> "place", todo |-> rest, job |-> j, left |-> left, placed |-> placed,
     wait |-> 0]

\* evaluate_job: the instances that find a node; the others are skipped.
Placements(j) == IF j \in Fits THEN 1..Count ELSE {0}

Writing(todo, placed) == IF placed THEN todo ELSE todo \cap Fits

NextTurn(n, todo, placed) ==
    \/ /\ Writing(todo, placed) = {}
       /\ sched' = [sched EXCEPT ![n] = IdleScheduler]
    \/ \E j \in Writing(todo, placed) :
          \E left \in Placements(j), skipped \in SUBSET (todo \ Writing(todo, placed)) :
             sched' = [sched EXCEPT ![n] =
                          Turn(j, left, todo \ (skipped \cup {j}), placed)]

\* Mutant: a job that has allocations is taken for placed.
PendingJobs_New(n) ==
    {j \in Jobs : sm[n].status[j] = "Pending" /\ sm[n].allocs[j] = 0}

\* list_jobs from the node's own memory.
PendingJobs(n) == {j \in Jobs : sm[n].status[j] = "Pending"}

ListJobs(n) ==
    /\ At(n, "confirmed")
    /\ NextTurn(n, PendingJobs(n), FALSE)
    /\ UNCHANGED <<log, stored, purged, sm, applied, leader, ops, faults>>

\* A write returns when this node has applied it.
Answered(n) == applied[n] >= sched[n].wait

PlaceAllocation(n) ==
    /\ At(n, "place")
    /\ sched[n].left > 0
    /\ Answered(n)
    /\ leader = n
    /\ Commit(Cmd("PutAllocation", sched[n].job))
    /\ sched' = [sched EXCEPT ![n].left = @ - 1, ![n].placed = TRUE,
                              ![n].wait = Len(log) + 1]
    /\ UNCHANGED <<purged, sm, applied, leader, ops, faults>>

\* Mutant: the job is left Pending.
StatusWrite_Dropped(n) == UNCHANGED <<log, stored>>

StatusWrite(n) == Commit(Cmd("Running", sched[n].job))

MarkRunning(n) ==
    /\ At(n, "place")
    /\ sched[n].left = 0
    /\ Answered(n)
    /\ leader = n
    /\ StatusWrite(n)
    /\ sched' = [sched EXCEPT ![n].pc = "marked", ![n].wait = Len(log')]
    /\ UNCHANGED <<purged, sm, applied, leader, ops, faults>>

NextJob(n) ==
    /\ At(n, "marked")
    /\ Answered(n)
    /\ NextTurn(n, sched[n].todo, TRUE)
    /\ UNCHANGED <<log, stored, purged, sm, applied, leader, ops, faults>>

\* A write fails, as it must where the node is not the leader: the error ends
\* the evaluation.
WriteFails(n) ==
    /\ At(n, "place") \/ (At(n, "marked") /\ ~Answered(n))
    /\ IF leader = n THEN Fault ELSE UNCHANGED faults
    /\ sched' = [sched EXCEPT ![n] = IdleScheduler]
    /\ UNCHANGED <<log, stored, purged, sm, applied, leader, ops>>

-----------------------------------------------------------------------------
(* The API: submit, stop and roll back a job, on the leader.               *)

Operation(c) ==
    /\ leader # None
    /\ ops < MaxOps
    /\ ops' = ops + 1
    /\ Commit(c)
    /\ UNCHANGED <<purged, sm, applied, leader, sched, faults>>

SubmitJob(j)   == Operation(Cmd("PutJob", j))
StopJob(j)     == Committed.status[j] # "None" /\ Operation(Cmd("Dead", j))
RollbackJob(j) ==
    /\ Committed.status[j] # "None"
    /\ \E op \in {"RollbackJob", "RollbackLost"} : Operation(Cmd(op, j))

-----------------------------------------------------------------------------
RaftNext(n) == Replicate(n) \/ Apply(n) \/ Purge(n) \/ InstallSnapshot(n)

SchedulerNext(n) ==
    \/ ConfirmLeader(n) \/ ListJobs(n) \/ PlaceAllocation(n) \/ MarkRunning(n)
    \/ NextJob(n)

Next ==
    \/ \E n \in Nodes : \/ RaftNext(n) \/ SchedulerNext(n)
                        \/ Elect(n) \/ Crash(n) \/ WriteFails(n)
    \/ \E j \in Jobs : SubmitJob(j) \/ StopJob(j) \/ RollbackJob(j)

Spec == Init /\ [][Next]_vars

\* Replication goes on, a cluster without a leader elects one, schedulers
\* tick, and a write that cannot succeed returns an error.
FairSpec ==
    /\ Spec
    /\ \A n \in Nodes : WF_vars(RaftNext(n)) /\ WF_vars(SchedulerNext(n))
    /\ WF_vars(leader = None /\ \E n \in Nodes : Elect(n))
    /\ WF_vars(\E n \in Nodes \ {leader} : WriteFails(n))

-----------------------------------------------------------------------------
(* What makes the store and the scheduler correct.                         *)

\* Type invariant of the log, the replicas and the schedulers.
TypeOK ==
    /\ log \in Seq(Command)
    /\ stored \in [Nodes -> 0..Len(log)]
    /\ purged \in [Nodes -> 0..Len(log)]
    /\ applied \in [Nodes -> 0..Len(log)]
    /\ sm \in [Nodes -> ClusterState]
    /\ leader \in Nodes \cup {None}
    /\ sched \in [Nodes -> [pc : {"idle", "confirmed", "place", "marked"},
                            todo : SUBSET Jobs, job : Jobs \cup {None},
                            left : 0..Count, placed : BOOLEAN, wait : 0..Len(log)]]
    /\ ops \in Nat /\ faults \in Nat

\* Every replica is what the log says: after any mix of applied entries,
\* installed snapshots, purges and restarts, the memory of a node is the
\* replay of exactly the prefix it claims to have applied, so two nodes at
\* one index agree.
ReplicasAgree == \A n \in Nodes : sm[n] = Replay(applied[n])

\* A committed write is not lost to restarts of a minority: whatever was
\* purged, installed or wiped from memory, each committed entry is in the log
\* store of some node or in the memory of one.
Holds(n, i) == i \in (purged[n] + 1)..stored[n] \/ i \in 1..applied[n]
Durable ==
    2 * faults < Cardinality(Nodes) =>
        \A i \in DOMAIN log : \E n \in Nodes : Holds(n, i)

\* Placement is bounded by its causes: a job has at most Count allocations
\* for each time it was made Pending and each failed write, election or crash
\* that came between the steps of an evaluation.
Episodes(j) == Cardinality({i \in DOMAIN log : log[i] \in {Cmd("PutJob", j), Cmd("RollbackJob", j)}})
PlacementsCaused == \A j \in Jobs : Committed.allocs[j] <= Count * (Episodes(j) + faults)

\* A Pending job for which there is room does not stay Pending, while a
\* majority of the nodes can read its own log.
Waiting(j) == \E i \in DOMAIN log :
    /\ log[i] \in {Cmd("PutJob", j), Cmd("RollbackJob", j)}
    /\ \A k \in DOMAIN log :
          k > i => log[k] \notin {Cmd("Running", j), Cmd("Dead", j)}
Quorate == 2 * Cardinality({n \in Nodes : ~Stranded(n)}) > Cardinality(Nodes)
Unplaced(j) == Waiting(j) /\ Quorate
JobsPlaced == \A j \in Fits : []<>(~Unplaced(j))

-----------------------------------------------------------------------------
(* What the documentation says and the code does not do.                   *)

\* "The scheduler only proposes allocations when this node is the Raft leader.
\* This prevents duplicate allocations across a multi-node cluster."
NoDuplicates == \A j \in Jobs : Committed.allocs[j] <= Count * Episodes(j)
=============================================================================
