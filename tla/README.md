# TLA+ models of tatara

tatara runs workloads on Kubernetes as Unix-like processes. A `Process` custom
resource has a PID, a phase, signals, a parent and children, and a chain of
attestations; a controller walks it from Pending to Attested and down to
Reaped. On top of it sits a pool controller that keeps warm Processes and lends
them to `EphemeralAllocation`s. An older, self-contained engine (Raft store,
scheduler, task executor) lives in `tatara-engine`, and around both are a Lisp
front end, Nix and OS synthesis, operators, a guest init and command lines.

This directory models the Kubernetes control loops (Processes, pools and
allocations, stable names), the engine (workload reconciler with its executor,
replicated store with its scheduler) and the guest init, checks them with TLC
and proves their safety properties with TLAPS. Paths below are relative to the
repository.

## 1. Inventory

All Kubernetes components interact only through the API server: each
reconcile reads its own object from a watch cache, reads other objects with
live calls, and writes with unconditional merge patches. No resourceVersion is
ever sent, so nothing orders two writers except the fact that one controller
never runs two reconciles of the same object at once.

| Component | State | Operations | What is hard | What makes it correct |
|---|---|---|---|---|
| Process lifecycle types (`tatara-process`: `phase.rs`, `signal.rs`) | none | transition table, signal parsing and targets | signals and deletion add edges the table does not have | the phases an observer can see, in order |
| Process controller (`tatara-reconciler`: `controller.rs`, `phase_machine.rs`, `signals.rs`, `pid.rs`) | Process objects, `ProcessTable.spec.nextSequence`, export Jobs | reconcile: deletion, signals, suspension, eleven phase handlers | several patches per handler with crashes, API errors, users and other reconciles in between; stale caches | the finalizer guards a PID; exits are final; PIDs and attestation chains are stable; signals take effect; leaves drain |
| Lifetime and export types (`lifetime*.rs`, `export.rs`) | none | auto-termination rule, export triggers | two-patch stamp of the release gate | the gate names the phase that was left |
| Boundary, rendering, server-side apply (`boundary.rs`, `render.rs`, `ssapply.rs`, `edges.rs`, ...) | none of their own | checks, manifests, patches | dependencies are read live while others move | only outcomes matter to the loop |
| Pool controller (`tatara-pool-reconciler`: `controller_pool.rs`, `pool_decide.rs`, `desired.rs`) | member Processes, `pool.status.members` | list, decide, create, delete, patch status | acts on a list that is stale by the second call | never over-provisions; settles; drains; recycles |
| Allocation controller (`controller_allocation.rs`, `allocation_decide.rs`) | Allocation objects | route, bind, wait, expire, release | reads `pool.status`, written by another controller | requests are served; a binding is kept |
| Routing, naming, return policy (`router.rs`, `naming.rs`, `return_policy.rs`) | none | pure functions | `plan_return` has no caller | best match is total and deterministic |
| Claim arbiter and ProcessTable controller (`claim.rs`, `table_controller.rs`) | `ProcessTable.status.claims`, stable edges | arbitrate names, render edges in `handle_execing` | list of Processes and table read at different times; a failed read counts as an empty table | names go to what has answered; no flapping; dead holders leave |
| Workload reconciler (`tatara-engine/src/domain/reconciler.rs`, `state_store.rs`) | jobs and allocations in a file | passes: health, count, drift (and nodes, sources) | decides on copies made at the start of a tick, across awaits, failures and a crash | restarts bounded; capacity kept during a rollout; the count is met |
| Task executor and drivers (`client/executor.rs`, `drivers/`) | running-task map, detached processes | start, stop, restart, health | a task is started before it is in the map; exits are noticed by some drivers only | one copy of a task; no process nobody can stop |
| Raft state machine, log and cluster store (`cluster/`) | replicated state in memory, log in a file | apply, snapshot, install, purge, restart, write | memory is lost on restart while the log is purged | replicas are replays of the log; committed writes survive |
| Scheduler and evaluation (`domain/scheduler.rs`, `evaluation.rs`) | one evaluation per node | confirm leadership, place allocations of Pending jobs one by one | leadership and jobs change between two writes | placements are bounded by their causes; jobs are placed |
| Port allocator | port sets | allocate, release | exhaustion, double release | one owner per port |
| Saga and DAG executors | step results | run, compensate | failure in the middle | compensation in reverse order |
| Engine transports and drivers | sockets, child processes | I/O | outside the models | |
| Guest init supervisor (`tatara-init`) | map from PID to service | boot, reap, restart | exits at any moment, orphans, PIDs given out again | the map is true; one instance; every child reaped |
| Nix build operator, Kubernetes applier (both deprecated) | custom resources, NATS messages | build, evaluate, order, apply, prune | answers that overtake status patches, failures half-way | status follows the build |
| Export worker, probe, GitHub watcher | Jobs, Allocations | clients of the loops above | retries | seen as the environment |
| Lisp, lattice, Nix/OS/VM/WASM synthesis, network types, API, CLIs, MCP, UI | none shared | text to typed values to files | sequential | not control loops |

`PROJECT.json` lists the same components with their sources and status, and
every hazard with its line and the properties aimed at it.

## 2. Modules

| Module | Role |
|---|---|
| `ProcessPhase` | phases, legal transitions, signals and their effects, teardown policies, export triggers: the closed sets and pure decisions |
| `ProcessReconciler` | the Process controller over the API server, its properties |
| `ProcessLifecycle` | abstract specification: what a watcher of a Process may observe |
| `ProcessReconcilerProofs` | theorems about `ProcessReconciler` |
| `WarmPool` | pool and allocation controllers sharing members and a status |
| `WarmPoolProofs` | theorems about `WarmPool` |
| `StableClaims` | the stable-name registry: arbiter, `handle_execing` as its reader |
| `StableClaimsProofs` | theorems about `StableClaims` |
| `WorkloadEngine` | one task group under the engine's Reconciler and Executor |
| `WorkloadEngineProofs` | theorems about `WorkloadEngine` |
| `ClusterScheduling` | the replicated store and the schedulers that write to it |
| `ClusterSchedulingProofs` | theorems about `ClusterScheduling` |
| `InitSupervisor` | process 1 of a guest over the kernel's process table |
| `InitSupervisorProofs` | theorems about `InitSupervisor` |
| `MC...` | constants for TLC |

`StableClaims` and `WarmPool` each take the Process controller of
`ProcessReconciler` in the coarser form they need: which phases a Process can
move between. `ClusterScheduling` ends where an allocation is placed and
`WorkloadEngine` begins with the allocations of one group; `tatara-cli`'s
`server.rs` wires both side by side, the file store for the executor and the
Reconciler (lines 296 and 363), the Raft store for the scheduler and the API
(lines 230 and 348-351), and nothing copies from one to the other.

### ProcessReconciler

State: `live` and `store` are the API server's objects, `cache[p]` the copy
that p's reconcile starts from, `worker[p]` where that reconcile stands between
two API calls, `nextSeq` is `ProcessTable.spec.nextSequence`, `jobs` the
export Jobs, `ttlElapsed` whether p's TTL ran out. `ops` and `faults` count
interventions against their bounds. Two history variables, which no action
reads, say what a property excuses: `lag[p]` is whether p's latest reconcile
("now"), an earlier one ("past") or none ("never") started from a copy behind
the object, and `dropped` are the Processes that lost a SIGTERM.

`controller::reconcile` decides in this order: deletion of an alive Process
(`ForceExiting`), a signal annotation (`IngestSignal`, then `ConsumeEffect`),
then `Dispatch` to the handler of the phase. A handler that writes once is one
action. A handler that makes several calls is one action per call, with
`worker` recording which comes next: finalizer then Forking; sequence number,
PID, then Execing; for a release, the phase that is read, the stamp, then
Releasing; the children of an Exiting Process, deleted one by one. `Crash` and
API errors drop the rest of a reconcile at any of these points. A single write
that fails changes nothing and is retried, so it needs no action. The watch
cache delivers when it likes (`Deliver`), and a reconcile starts from whatever
copy it has; a start from a copy that is behind is one of the `MaxFaults`
bounded events.

`Refused` names the calls that a real API server rejects whenever they are made:
"stamp", because the released-from annotation is a server-side apply whose body
has neither apiVersion nor kind (`phase_machine.rs:1073`), and "jobs", because
the export Jobs are labelled and listed by `ns/name` (`render.rs:891`,
`phase_machine.rs:768`), and `/` is not allowed in a label value. Every run sets
both, except `process_lifecycle`: it takes these calls to succeed, so that the
code behind them is checked too.

The environment creates objects, writes signals, deletes, sets Failed from
outside, lets Jobs run, fail and be retried, lets TTLs pass, and delivers watch
events. Manifests, hashes, conditions and log texts are data that no property
tells apart: an attestation is its generation number, a boundary check its
outcome, drift of the Flux references a choice of
`DetectDrift`.

`ProcessLifecycle` hides all of that but `lag`: a phase and whether a PID was
assigned. Its edges are the legal table (`LegalTransitions`), those that
deletion, SIGTERM, SIGKILL and SIGUSR1 add (`Interrupts`), and those by which a
handler that had read another phase patches over a Failed written from outside
(`Overtaken`). `Stray` is a step of a reconcile that started behind its object,
of which nothing is promised.

### WarmPool

State: `member[s]` is the Process in name slot s with the allocation annotation
it carries; `status` is `pool.status.members`; `pool` is the pool reconcile in
flight (members to create, members to delete, the list it made); `alloc` and
`cache` are the Allocations and their watched copies; `binder[a]` is where a's
reconcile stands.

`desired` is `spec.desired`: zero for allocation-driven sizing, else the
desired-count loop is in force. `ListAndDecide` takes the list and evaluates
the decision of that mode. Each create, each delete and the final status patch are actions of their
own, and each may be lost. The status patch writes the states seen in the list,
as the code does, not the states after the calls. The allocation controller
reads `status`, patches the Process (`BindMember`) and then the Allocation
(`PatchAllocStatus`); `LoseBinder` and `LosePool` are lost calls and restarts.
A reconcile of an Allocation starts from any copy the watch has delivered.
Two history variables: `behind[a]`, whether a's latest reconcile started from a
copy without its phase or its member, and `slips[a]`, how often a was routed from
such a copy or lost the status patch of a binding.

Members move as `ProcessReconciler` moves them. A member may fail, drift from
Attested to Reconverging and come back, be told to exit by an operator, or go
stale (`MemberFails`); the pool controller's catch-all counts Reconverging as
Spawning, for bound members too (`controller_pool.rs:669`). A member deleted
while alive stays Exiting (run `process_deletion`). A bound member is not torn
down by policy or TTL: Bind merges an ephemeral lifetime beside the permanent
one, the pair is Ambiguous (`lifetime.rs:281`, 407-421), and the lifetime clock
skips it (`lifetime_clock.rs:299-301`).

Simplifications: ages are not kept, so the desired-count loop may pick any member
as the oldest; whether the selector matches a requestor is the constant
`Matched`; deletion of the pool only marks it, with foreground propagation, and
the garbage collector's deletes by ownerReference are not modelled; the
return-trigger annotation that the release writes first
(`controller_allocation.rs:445-451`) is left out, since nothing reads it;
`SpawnFails` with no slot left is an artefact of the bound on slots.

### StableClaims

State: the Processes that want names (`obj`, with PID, creation time, priority
and phase), the registry `claims`, the arbiter's round (`arbiter`: the list it
made, then the registry it decided), each `handle_execing` between its calls
(`exec`) and the stable edges it rendered (`edges`).

A round is `ListProcesses`, `ReadTable` (or `ReadTableFails`: the code takes a
failed read for an empty table) and `PatchClaims`. The Process side reads the
registry, applies its routes and patches Running. In between Processes are
created, edited, re-rendered, drained and removed, and a removed one may come
back under its name with a new PID. The order of `best_candidate` is `Outranks`;
`served` is a history variable. The apps a Process declares are not edited, PIDs
are taken to be unique although `UniquePids` fails (below), and the patch of the
registry is taken to succeed although its body has neither apiVersion nor kind
(`table_controller.rs:217-231`), which a real API server refuses every time: the
model is about what the arbiter decides once that body is completed.

### WorkloadEngine

State: the flake's count, the job and its allocations in the store, the
Executor's map (`entries`, `running`), the processes that are alive, whether the
store has a ready node (`ready`), and the tick under way (`rec`; `rec.nodes` is
the node list that the tick has read). The Reconciler is one task, so a tick is one sequence
of awaited calls, each an action: health check, per allocation the restarts of
its dead tasks (stop, start, count, enter the map), the count pass (create,
start tasks, mark; stop tasks, mark Complete), and the drift pass, which creates
replacements for all allocations before it stops the old ones. Without a ready
node the count pass returns (`NoReadyNode`), and the drift pass creates nothing
and stops the old allocations all the same (`UpdateWithoutNode`). Task processes
exit at any moment, the flake is edited, the node becomes ready and drains,
driver and store calls fail, a start is given up before its first task
(`StartAborts`: job or group missing, no directory, no driver;
`executor.rs:67-88`), and the engine crashes: store and processes survive, the
map does not. `StateStore::put_node` has no caller, so as shipped the node table
is empty and the loop creates nothing; the model says what it does once a node
is registered. Since nothing removes a node and allocations are made on nodes of
the table, the pass that marks allocations Lost (`reconciler.rs:232-243`) finds
none. `hurt` remembers
which kinds of damage were done, so that a property can say what it excuses.
`Detected` are the tasks whose driver notices an exit: exec, nix and wasi
forget the child handle, and a zombie answers signal 0.

### ClusterScheduling

State: the one committed `log`, and per node how much of it its log store has
(`stored`, `purged`), its state machine `sm` with `applied`, and the evaluation
its scheduler has under way. openraft is external: a write is committed when a
majority stores it, and only a node that has the whole log is elected. What the
repository adds is modelled: the state machine lives in memory, a snapshot is
built into memory and lets the log be purged, a restart begins with an empty
memory and replays what its log store still has, a node that lacks entries is
given the leader's snapshot, and a node whose own log no longer reaches back to
its memory is `Stranded`, which the model takes to be for good: it comes up with
a log that begins after what it has applied, and nothing in the repository
repairs that. A rollback to a version that is not in the
history is a command that changes nothing. The scheduler confirms leadership, lists
Pending jobs in its own memory and writes allocations one by one and the
status last; elections, crashes and failed writes come in between. `ReplayOf` is
what a prefix of a log amounts to, a recursive function over `ApplyCommand`.
`NextTurn` is the loop over the list between two writes: the jobs it passes over
without writing, the job it writes for next, or the end of the evaluation.

### InitSupervisor

State: the kernel's process table `proc`, the map from PID to service that
`run_once` keeps (`tracking`), and where process 1 is. `boot` forks enabled
services in order; `run_once` reaps one child after the other and respawns by
policy. Services exit at any moment, also during boot, fork children of their
own that process 1 adopts, and the kernel gives out a PID again once it is
reaped. A fork of process 1 may fail, which ends it (`halted`).

## 3. Runs

No run assumes that a cache is up to date. A reconcile starts from any copy that
the watch has delivered, as in the code, which waits for no event in particular.
A start from a copy behind the object is counted as one of the `MaxFaults`
events, and a property that such a reconcile breaks excuses that reconcile and
no other (`lag`, `behind`, `slips`). Between two calls of a reconcile other
actors always run.

Passing runs:

| Run | Instance | Shows |
|---|---|---|
| `process_lifecycle` | one ephemeral Process with two exports, every signal, deletes, outside failures, stamps and Jobs accepted, 3 interventions, 1 fault | `TypeOK`, `PidGuarded`, `ReconcilesInFlight`, `NoResurrection`, `PidStable`, `AttestationChain`, `ReleaseGateFaithful` |
| `process_tree` | a root and a child that depends on it, SIGTERM, deletes, outside failures, 2 interventions, 1 fault | refinement of `ProcessLifecycle` |
| `process_liveness` | one ephemeral Process, one export, SIGTERM, SIGUSR1 and SIGSTOP, 2 interventions, 2 faults, fair | `SigtermHonoured`, `LeafDrains` |
| `pool_binding` | 2 slots, 1 requestor that expires, releases and deletes, desired 0 or 1, min and max 1, 1 fault (a lost call, a restart, a lagging copy, a member that fails, drifts, exits or goes stale) | `TypeOK`, `SupplyBounded`, `OneMemberEach`, `BindingStable` |
| `pool_liveness` | 3 slots, 1 requestor, allocation-driven sizing without a maximum, the pool may be deleted, 1 fault of any kind, fair | `AllocationsServed`, `PoolSettles`, `PoolDrains`, `ExitedRecycled` |
| `stable_claims` | 2 Processes, one name contested and one not, 2 priorities, 4 changes, 1 failed call or restart | `TypeOK`, `ClaimsGrounded`, `OustedForCause`, `DeadNamesLeave` |
| `engine` | a group of 2 tasks between 1 and 2 allocations, 2 exits, 1 edit, 1 drain of the node, 1 fault, fair | `TypeOK`, `StartsBounded`, `OneLiveCopy`, `Accounted`, `CapacityKept`, `CountConverges` |
| `init` | a service of each policy and one switched off, 4 PIDs, 3 exits, 1 orphan, 1 failing fork, fair | `TypeOK`, `TrackingTrue`, `OneInstance`, `StaysDown`, `ComesBack`, `Reaped` |
| `cluster` | 3 nodes, a job that fits and one that does not, 2 operations, 1 fault, snapshots every 4 entries, fair | `TypeOK`, `ReplicasAgree`, `Durable`, `PlacementsCaused`, `JobsPlaced` |

The pool's liveness is claimed for allocation-driven sizing only. The desired-count
loop counts bound members as its own and need not keep one Free; and
`PoolDrains` fails with `spec.desired` > 0, because `reconcile_inner` takes the
desired-count branch (`controller_pool.rs:186-312`) before anything looks at the
deletionTimestamp, and goes on creating members of a pool that is being deleted.
`PoolSettles` needs `max_size` unset (see below). CHECK_DEADLOCK is off where the
system may come to rest: interventions are bounded, a Reaped Process or a Released
Allocation has nothing left to do, and process 1 may halt. The engine and the
cluster never rest, and their runs check deadlock.

What the properties excuse is what the code does not handle:

- `SigtermHonoured`: a SIGTERM that a later signal replaces before it is read,
  that the strip removes unread, or whose effect an API error or crash drops
  between the strip and the phase patch. There is no fourth way to lose one.
- `NoResurrection`, `PidStable`, `AttestationChain`, `ReleaseGateFaithful`,
  `ReconcilesInFlight`: steps of a reconcile that started behind its object;
  `PidGuarded` and `LeafDrains`: a Process that ever had such a reconcile.
- `BindingStable`: a reconcile that started from a copy without the binding;
  `OneMemberEach` allows one more member for each such routing and each lost
  status patch.
- `CapacityKept`: a rolling update that finds no ready node.
- `CountConverges`: a crash, a start or save given up half-way (the early errors
  of a start included), and no ready node. `Accounted`: a crash, a task
  that fails to start after others, a failed stop, a lost status answer.
- `Durable` is for restarts of a minority; `ComesBack` excuses a failed fork of
  process 1.

Runs that end in a violation, each a disagreement between code and a comment or
document (the quotations are in `PROJECT.json`):

| Run | Property | What the trace shows |
|---|---|---|
| `process_deletion` | `DeletionCompletes` | deletion is tested before dispatch and Exiting counts as alive, so the finalizer of a deleted Process is never released |
| `process_exports` | `ExpiryReleases` | the stamp that precedes Releasing is refused on every tick, so an expired Process with exports stays Attested |
| `engine_zombies` | `CountConverges` | the exit of a task of an exec, nix or wasi driver is never noticed: the child is not waited for, and a zombie answers the liveness probe |

Other disagreements are built into the models as the code has them, without a
run of their own. Those stated as a definition of a module fail when checked.

Processes:

- `UniquePids` (`ProcessReconciler`): two forks read the same `nextSequence`
  (`phase_machine.rs:165`), while `docs/k8s-as-processes.md:46` and
  `table.rs:31` promise unique PIDs.
- A cache that shows the stripped annotation and the old phase undoes a SIGTERM
  (`signals.rs:118`); one without the PID has it allocated again, one without the
  last attestation repeats its generation. The properties excuse these
  reconciles, and fail without the excuse.
- The release stamp and the export Jobs are refused by a real API server (see
  `Refused` above): no export ever runs, and expiry of a Process with exports
  never takes it down.
- Deletion, SIGTERM, SIGKILL and SIGUSR1 write phases that `can_transition_to`
  rejects; `ProcessLifecycle` lists them as `Interrupts`.
- `handle_releasing` treats a Job with one failed pod as finished, although
  `backoffLimit` is 1 and the pod is being retried (`CountsAsActive`).
- A Process terminated by a signal stays in the cluster as Reaped: nothing
  deletes it (`HandleReaped`).
- `signals::ingest` strips the annotation whatever it holds by then, so a
  signal written after the read is lost (`IngestSignal`).

Pools:

- `ExclusiveBinding` (`WarmPool`): two allocations are Bound to one live member
  (`controller_allocation.rs:331`; `allocation.rs:13` says a member is lent to
  one).
- A bound member is never torn down, neither by TTL nor by its teardown policy:
  its lifetime is Ambiguous after Bind (`controller_allocation.rs:247`), and the
  clock skips it.
- `ReleasedReturned` (`WarmPool`): the release leaves the member to the pool
  reconciler (`controller_allocation.rs:401-404`), which does not look at it;
  `plan_return` has no caller, and the member stays Attested and held.
- The status patch of a binding may be lost while the member is already bound;
  the next reconcile binds a second member (`LoseBinder`, counted in `slips`).
- With `spec.desired` > 0 a pool under deletion goes on creating members.
- Rule 6 of `decide_pool_reconcile` spawns without looking at `max_size`, and
  rule 5 counts members stuck in Exiting, so a pool at its ceiling may reap every
  Free member and never spawn again.
- The desired-count loop counts only Running and Attested members, so each tick
  creates more until the first is Running.
- Excess members are deleted by the names of the list, also when an allocation
  has bound one since.

Stable names:

- `StableNameExclusive` (`StableClaims`): "at most one Process per (cluster, app)
  holds the stable-form DNS name at any moment" (`claim.rs:4`). Edges are
  rendered in Execing only and never withdrawn, so an ousted holder keeps them.
- `handle_execing` compares holders by name, not PID, so a Process takes the
  claim of its predecessor of the same name for its own; one claim lets it
  render the edges of all its apps.
- Keeping a holder also keeps the priority recorded when it won.
- The body of the registry's server-side apply has neither apiVersion nor kind
  (`table_controller.rs:217`): a real API server refuses it every time, and the
  registry is never written. The model takes the patch to succeed.

Engine:

- An allocation is to be Failed "when restarts are exhausted"
  (`reconciler.rs:108`), but becomes so only when all its tasks are dead.
- Exit codes are never set, so OnFailure also restarts tasks that ended well.
- A status call that fails counts as Dead, and a live task is restarted.
- A task that fails to start leaves the ones before it running, in no map.
- After a crash, Running allocations that are in no map are skipped by the
  health pass and still counted as active.
- `StateStore::put_node` has no caller (`state_store.rs:121`): as shipped
  `list_nodes` is empty, the count pass returns and nothing is created.
- A rolling update that finds no ready node creates nothing and stops all old
  allocations (`reconciler.rs:481-489`, 505).
- An error before the first task of a start leaves the allocation Pending, which
  counts as active for ever (`executor.rs:67-88`).
- The drift pass stops the old allocations also when replacements failed, and a
  failed save of the new job means its rollout never happens.
- A start by the scheduler and a stop by the REST API share the executor: a
  stop before the tasks are in the map is undone when the start ends. The
  composition is not modelled.

Cluster:

- `NoDuplicates` (`ClusterScheduling`): a leader check before an evaluation
  "prevents duplicate allocations" (`scheduler.rs:12`), but a failed write or an
  election between the writes places a second set. `PlacementsCaused` bounds
  the excess.
- `put_job` returns once "ALL nodes have confirmed application"
  (`store.rs:20`, 38, 515), while it counts nodes that have stored the entry.
- Once an evaluation has placed any allocation, it marks every later job of its
  list Running, those that got none included, without any error
  (`evaluation.rs:60`). An evaluation that ends in an error leaves what it placed
  undispatched.
- The scheduler's status write after a `stop_job` brings a Dead job back.
- Snapshots are not persisted: two restarts of three nodes can strand a quorum.
- The compare-and-set of `ProposeAllocations` (`raft_sm.rs:503`) is used by
  nothing; events draw ids and times while the log is applied (`raft_sm.rs:213`),
  so they differ between replicas.

Init:

- `lib.rs:11` says process 1 handles SIGTERM and SIGHUP: nothing does.
- "no partial state" (`supervisor.rs:284`): a fork that fails half-way through
  boot leaves the services before it running.
- Two services of one name overwrite each other in the boot map (line 294).

### Bounds

Every bound is a constant named in the module. `MaxOps` 3 allows a signal or
delete to hit a reconcile that another one has already disturbed (signal, second
signal, delete); `MaxFaults` 1 puts a crash or API error between any two
patches; `MaxGen` 3 lets a Process be attested, sent back and attested again
twice; `MaxSeq` 3 lets forks be retried after a bump. Two Processes are enough
for parent and child, for a dependency and for a race on `nextSequence`, the
only state reconciles share. In `pool_binding` the second slot leaves room for
one member more than the target of 1, without which `SupplyBounded` would hold
for lack of names, and for a second member after a slip; in `pool_liveness`
three slots hold a bound member, one that never finishes exiting and one to
replace it. Several requestors and requestors that no pool matches are covered
by the theorems, for any number of slots and faults. In `stable_claims` two
Processes contest a name while one of them also holds another; four changes let
a holder be ousted, leave and come back under its old name while a round is
under way. In `engine`, two exits and one attempt exhaust a restart budget, five
allocations leave room for a rollout of two after a replacement, and one drain
takes the node away under a tick or an update. In `init`, four PIDs for three
services and an orphan make PIDs scarce enough to be given out again. In
`cluster`, a snapshot every four entries comes in the middle of an evaluation,
and one fault restarts a node after its log was purged. No symmetry is used:
most runs check liveness, and root and child differ.

### Fairness

`FairSpec` gives weak fairness to the actions of the controllers (every
reconcile returns a requeue or is retried by the error policy, and heartbeats
re-list the pool), to watch delivery and, in `WarmPool`, to the Process controller
that moves members. Nothing is assumed of users, failures, crashes, lost calls,
of export Jobs ever ending (nothing bounds one), or of boundary checks succeeding
in `ProcessReconciler`. In `WarmPool` members are assumed to converge
(`MemberConverges`), without which no request could be promised a member.
`WorkloadEngine` is fair to the Reconciler's loop, which ticks on an
interval and whose calls return; nothing is assumed of exits, edits and faults.
`ClusterScheduling` is fair to replication, to an election while there is no
leader, to the schedulers' ticks and to the error that a write returns when
its node is not the leader. `InitSupervisor` is fair to process 1.

## 4. Theorems

For any values of the constants. The assumptions on constants
(`ConstantsAssumption`, `WarmPoolAssumption`, `StableClaimsAssumption`,
`WorkloadEngineAssumption`, `ClusterSchedulingAssumption`,
`InitSupervisorAssumption`) type them and say that slots, Processes and the nodes
of a cluster are finite, that a cluster has a node, and that names are ordered.
The bounds on exits, faults and operations are arbitrary numbers, so the theorems
cover any finite number of them.

Every safety property that a passing run checks is proved: each invariant, each
action property and the refinement.

`ProcessReconcilerProofs`, for any caches, any `Refused` and with failures written
from outside:

| Theorem | Property |
|---|---|
| `TypeCorrect` | `TypeOK` |
| `InFlightDecisionsFit` | `ReconcilesInFlight` |
| `PidsAreGuarded` | `PidGuarded` |
| `ExitsAreFinal` | `NoResurrection` |
| `PidsAreStable` | `PidStable` |
| `AttestationsChain` | `AttestationChain` |
| `ReleaseGatesAreFaithful` | `ReleaseGateFaithful` |
| `LifecycleIsImplemented` | `RefinesLifecycle` |

The argument. The action properties are not consequences of the handlers'
guards, because a guard is evaluated when a reconcile starts and its patch
lands later. What carries over the gap is `InFlight(p)`: for each point between
two calls, what the object must still look like for the pending write to be
right (a pending Forking finds the object Pending with its finalizer; a pending
PID finds it Forking without one; a pending signal effect that sends a Process
back up finds it in service; a pending Releasing finds the stamp equal to the
phase). It holds of a reconcile that did not start behind its object. `Safe(p)` is
that, `lag[p] # "now" => InFlight(p)`, with `Guarded(p)`: an object whose cache
never lagged has its finalizer in every phase after Pending and on the way up
(`Installed`), and with a PID until it is Reaped. `Safe` is inductive together with
`TypeOK`. A reconcile step of p touches only p's
part, except the delete of a child, so the proof has one case per action for p
itself and one lemma for every other object. `Kept(p)` collects the four action
properties, proved in the same cases. At the start of a reconcile either the copy
and the object agree or `lag[p]` becomes "now"; a reconcile that goes on keeps the
`lag` it started with.

The refinement uses `Safe`. A step of a reconcile that started behind is a `Stray`
step (`StrayRefines`). Otherwise a patch follows the legal table from the phase
that the handler dispatched on, or from a Failed written over it since
(`PatchMoves`, `BranchMoves`), a signal or deletion is an interrupt
(`InterruptMoves`), a PID is given in Forking (`PidAllocated`), a delete removes
what has no PID or is Reaped (`DeleteVanishes`), and everything else is not seen
(`UnseenStep`). A step is of one of these kinds (`NextObserved`), and each kind
is a step of `ProcessLifecycle` or a stutter (`MoveRefines`, `OthersRefine`).

`WarmPoolProofs`, for any caches and any lost calls:

| Theorem | Property |
|---|---|
| `TypeCorrect` | `TypeOK` |
| `SupplyIsBounded` | `SupplyBounded` (about `desired = 0`) |
| `BindingIsStable` | `BindingStable` |
| `OneMemberForEach` | `OneMemberEach` |

`SupplyBounded` is about the members that nobody holds and that are or will be
Free: a bound member that drifts is counted as Spawning by the controller, which
makes it provide less. The bound is not inductive: creates that are planned and
not yet made must be counted, so `SupplyInv` adds `pool.spawn` to these members
(`Ready`). `ReconcilePlan` shows that each rule of `decide_pool_reconcile` stays
within it; a create trades one planned for one that exists; every other step
`Shrinks` the sum. For the bindings, `BinderSound` ties what a reconcile that did
not start behind has decided to the Allocation it will write (a pending bind finds
it unserved, a pending release finds it Bound to the member it releases, or gone).
`HoldSound` counts the members that carry the allocation's annotation: as many as
its slips, and one that it accounts for once a binding is made (`Accounted`).

`StableClaimsProofs`: `TypeCorrect`, `ClaimsAreGrounded` (`ClaimsGrounded`),
`OustingHasCause` (`OustedForCause`), `DeadHoldersLeave` (`DeadNamesLeave`: no write
of the registry leaves a name with a Process that was gone, draining or another incarnation when
the round listed), without further assumptions. The list a
round works on is a past state; the invariant says what remains true of it: a
Process listed live, if it still is the same incarnation, has been Running
(`ListSound`), what was decided from the list (`NewSound`, `DecidedBest`) and
what was written (`ClaimsSound`) inherit it. That the best candidate exists,
which `CHOOSE` needs, is a minimum argument over the finite set of candidates.

`InitSupervisorProofs`: `TypeCorrect`, `TrackingIsTrue` (`TrackingTrue`),
`OneInstanceEach` (`OneInstance`), `StaysDownForGood` (`StaysDown`), without
further assumptions. The invariant relates the process table to the map in each
phase of process 1: during boot the map is exact for the services before the
current one (`BootExact`), later for all (`MapExact`), between reaping and
respawning the service has no process (`SpawnDue`), and a free PID belongs to
nobody (`FreeIsClean`).

`WorkloadEngineProofs`, without further assumptions:

| Theorem | Property | Inductive invariant, with `Shape` |
|---|---|---|
| `TypeCorrect` | `TypeOK` | `Shape`: `TypeOK` and `Position` |
| `StartsAreBounded` | `StartsBounded` | `Books`, `Budgeted` |
| `OneCopyLives` | `OneLiveCopy` | `Books`, `OneCopy` |
| `ProcessesAreAccounted` | `Accounted` | `Books`, `NoStray` |
| `CapacityIsKept` | `CapacityKept` | `Books`, `NoStray`, `Whole` |

`TypeOK` alone is not inductive: which fields of the tick have a value depends on
where it is (`Position`). `Books` is what all the others need of the store, the
map and the tick together: ids are given out in order, a process has a number
that was given out and is in the map under its own allocation, the health pass
is at entries of the map and at tasks that may be restarted, and the tick holds
exactly the restarted process or the first processes of the first tasks of an
allocation that is not in the map. `Budgeted` ties processes started to restarts
counted: of an allocation in the map, starts are at most the restarts counted plus
one, plus the one that is not counted yet. `OneCopy` adds to `OneLiveCopy` that a
live process of a task the map knows is the one the map has (`InMap`), and that a
task being restarted has no other process than the new one (`Cleared`). `NoStray` adds to
`Accounted` that a verdict "all tasks dead", read at the start of a tick, is still
true when it is acted on (`Judged`), and that the health pass is at Running
allocations (`AtWork`). For `CapacityKept`, `Whole` says that as long as nothing
exits or fails every active allocation but the one in hand runs all its first
processes (`Lively`), the health pass finds nothing to do (`NoneDead`), and the
allocations that are active, not to be stopped or still to be created reach a
count of the flake (`Supplied`), unless the pass has no ready node or there are
none: what the count pass plans (`CountPlan`) and what the rolling update plans
(`UpdatePlan`). A stop then leaves at least these; the update without a node, which
leaves none, is the exception that `CapacityKept` names.

`ClusterSchedulingProofs`, without further assumptions:

| Theorem | Property | Inductive invariant, with `Shape` |
|---|---|---|
| `TypeCorrect` | `TypeOK` | `Shape`: `TypeOK`, `Ordered`, `InTurn` |
| `ReplicasAreReplays` | `ReplicasAgree` | itself |
| `CommittedIsDurable` | `Durable` | `Kept`: `OnMajority`, `FewLost` |
| `PlacementsAreCaused` | `PlacementsCaused` | `ReplicasAgree`, `Credit` |

`Ordered` says that a log store reaches as far as what was purged and applied from
it, `InTurn` that a scheduler which writes is at a job it will not come to again.
`ReplicasAgree` rests on what `ReplayOf` computes for any log (`ReplayStep`,
`ReplayPrefix`), by induction over the log. `Durable` is not inductive: it speaks
of few faults only and does not say where an entry is. Every entry was stored by
a majority and log stores never get shorter (`OnMajority`), and a node can lack
what it stored only after a fault of its own (`FewLost`), so less than half the
nodes do; the two sets of nodes then differ. `PlacementsCaused` counts placed
allocations only. `Credit` adds those the leader's evaluation may still place
(`Due`): all of a job it is at, has listed, or may list from a memory that is
behind the log. A write of the evaluation moves one from due to placed; a new
cause pays for a new list.

The library's induction theorems take a predicate as a parameter, which the
installed provers cannot instantiate. `NatSetInduction` takes the set of the
numbers that satisfy it instead, and is proved from the well-foundedness of
inclusion of finite sets; the argument over logs and `MinBound` (a set of numbers
has a least one) use this.

`Shape`, `Books`, `Budgeted`, `OneCopy`, `NoStray` and `Whole` held in TLC on the
instance of `engine` before they were proved.

Only model-checked: the liveness properties (`SigtermHonoured`, `LeafDrains`,
`AllocationsServed`, `PoolSettles`, `PoolDrains`, `ExitedRecycled`,
`CountConverges`, `ComesBack`, `Reaped`, `JobsPlaced`), since fairness and
ENABLED are outside the prover. A violation is a trace of TLC and nothing else.

## 5. Not modelled

- The sources pass of the workload Reconciler, the node pass (it never finds
  anything, see `WorkloadEngine`), placement (`pick_node`), and the tables of the
  state machine other than jobs and allocations. Events draw ids and times while
  they are applied; the others are the same calls on other records.
- Port allocator, saga and DAG executors, planner: behind one lock or called by
  nothing but tests.
- `best_match` over several pools: one pool is modelled. `plan_return` is
  called by no controller.
- Nix build operator and Kubernetes applier: deprecated by the repository
  (`DEPRECATED.md` of both crates).
- Lisp, derive, lattice, Nix, OS, VM, hypervisor and WASM crates: functions from
  text or types to files, without shared state. They are the bulk of the
  repository's lines (`tatara-lisp` alone has several hundred thousand, most of
  them closed sets of names, their projections and tests), so the modelled share of all
  lines stays small however much of the control loops is covered.
- API server, CLIs, MCP, UI, drivers and transports: I/O around the stores.
- Durations and time: only whether a deadline has passed.

## 6. Plan

Done, in the order of importance: `ProcessPhase`, `ProcessReconciler`,
`ProcessLifecycle`, `WarmPool`, `StableClaims`, `WorkloadEngine`,
`ClusterScheduling`, `InitSupervisor`, and the theorems about each of them.

Next theorems: what the liveness properties rest on that is safety (that a
reconcile in flight always has a next step, that a round of the arbiter decides
the same registry when nothing has changed).

Next models: `best_match` as an operator against a reference and as the routing
step of `WarmPool`; the composition of the scheduler's starts with the
executor; the Nix build operator, if it is kept.
