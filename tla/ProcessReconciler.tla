-------------------------- MODULE ProcessReconciler --------------------------
(***************************************************************************)
(* The Process controller of tatara-reconciler over the Kubernetes API:    *)
(* controller::reconcile, its signal path and the eleven phase handlers.   *)
(*                                                                         *)
(*   store[p]   the Process object in the API server (the fields the       *)
(*              controller reads or writes), for p \in live;               *)
(*   cache[p]   the copy handed to p's reconcile by the watch cache, which *)
(*              may be any number of writes behind;                        *)
(*   worker[p]  where p's reconcile stands between two API calls.  The     *)
(*              controller never reconciles one object twice at once, and  *)
(*              reconciles different objects concurrently.                 *)
(*                                                                         *)
(* Two history variables record what the properties excuse: lag[p], whether*)
(* p's present or an earlier reconcile started behind the object, and      *)
(* dropped, the Processes that lost a SIGTERM.  No action reads them.      *)
(*                                                                         *)
(* A handler that makes one write is one action; a handler that makes      *)
(* several is split at each write, because other Processes, users, crashes *)
(* and API errors act in between.  A single write that fails changes       *)
(* nothing and is retried on requeue, so it needs no action.               *)
(***************************************************************************)
EXTENDS ProcessPhase, Sequences, FiniteSets

CONSTANTS
    Procs,          \* the Process objects that users may create
    Names,          \* identity names
    IdentityName,   \* [Procs -> Names]: derive_identity(spec).name
    Roots,          \* Processes declared without a parent PID
    Lifetime,       \* [Procs -> Lifetimes]: spec.lifetime
    Exports,        \* [Procs -> Seq(Triggers)]: spec.lifetime.ephemeral.exports
    Sighup,         \* [Procs -> SighupStrategies]: spec.signals.sighup_strategy
    DependsOn,      \* [Procs -> SUBSET (Procs \X {"Running", "Attested"})]
    Renderable,     \* Processes whose intent is Flux or Aplicacao
    UserSignals,    \* annotation values users write
    UserDeletes,    \* TRUE: users delete Processes
    ExternalFailures, \* TRUE: status.phase may be set to Failed from outside
    Refused,        \* calls the API server rejects: see StampRefused
    MaxSeq,         \* bound on nextSequence
    MaxGen,         \* bound on attestation generations
    MaxOps,         \* bound on user and environment interventions
    MaxFaults       \* bound on API errors, controller crashes and reconciles
                    \* that start from a copy behind the object

ASSUME ConstantsAssumption ==
    /\ IdentityName \in [Procs -> Names]
    /\ Roots \subseteq Procs
    /\ Lifetime \in [Procs -> Lifetimes]
    /\ Exports \in [Procs -> Seq(Triggers)]
    /\ Sighup \in [Procs -> SighupStrategies]
    /\ DependsOn \in [Procs -> SUBSET (Procs \X {"Running", "Attested"})]
    /\ Renderable \subseteq Procs
    /\ UserSignals \subseteq Signals \cup {BadSignal}
    /\ {UserDeletes, ExternalFailures} \subseteq BOOLEAN
    /\ Refused \subseteq {"stamp", "jobs"}
    /\ {MaxSeq, MaxGen, MaxOps, MaxFaults} \subseteq Nat

VARIABLES live, store, cache, worker, nextSeq, jobs, ttlElapsed, ops, faults,
          lag, dropped

vars == <<live, store, cache, worker, nextSeq, jobs, ttlElapsed, ops, faults,
          lag, dropped>>

-----------------------------------------------------------------------------
NoPid == <<>>
Pids  == Seq(Names \cup Nat)

\* The fields of a Process object that the controller acts on.  gen counts
\* the attestations in the chain (0: none yet, n: generation n - 1).
ProcessObject ==
    [phase : Phases, fin : BOOLEAN, deleting : BOOLEAN,
     signal : Signals \cup {NoSignal, BadSignal}, suspended : BOOLEAN,
     pid : Pids, parent : Pids, gen : Nat, releasedFrom : Labels]

NewProcess(parent) ==
    [phase |-> "Pending", fin |-> FALSE, deleting |-> FALSE,
     signal |-> NoSignal, suspended |-> FALSE,
     pid |-> NoPid, parent |-> parent, gen |-> 0, releasedFrom |-> "none"]

\* Where a reconcile stands, and what it holds there: the sequence number it
\* read, the effect of a signal or the phase it read for the released-from
\* stamp, the children it has still to delete.
Steps == {"idle", "dispatch", "declare", "bump", "pid", "exec", "effect",
          "stamp", "release", "cascade"}
WorkerState == [step : Steps, seq : Nat, effect : Effects, todo : SUBSET Procs]
At(step)  == [step |-> step, seq |-> 0, effect |-> "Noop", todo |-> {}]
Idle      == At("idle")

\* How p's copy has stood to its object at the starts of p's reconciles:
\* never behind, behind at an earlier start, behind at the last one.
LagStates == {"never", "past", "now"}

\* batch/v1 Job of one export.  backoffLimit is 1: a first failed pod is
\* retried, and only a second failure is terminal.
JobStates == {"none", "active", "retrying", "succeeded", "failed"}
ExportIndex(p) == 1..Len(Exports[p])

\* pid::allocate_pid: <parent>.<seq>, or <identity name>.<seq> for a root.
AllocatePid(p, parent, seq) ==
    IF parent # NoPid THEN Append(parent, seq) ELSE <<IdentityName[p], seq>>

\* boundary::check_depends_on, over live reads of the other objects.
DependenciesMet(p) ==
    \A d \in DependsOn[p] :
        d[1] \in live /\ PhaseReached(store[d[1]].phase, d[2])

\* Exports of p that fire on the gate, by index.
Applicable(p, gate) == {i \in ExportIndex(p) : FiresOn(Exports[p][i], gate)}

\* handle_exiting's list: every object that declares pid as its parent.
Children(pid) == {c \in live : pid # NoPid /\ store[c].parent = pid}

-----------------------------------------------------------------------------
Init ==
    /\ live = {}
    /\ store = [p \in Procs |-> NewProcess(NoPid)]
    /\ cache = [p \in Procs |-> NewProcess(NoPid)]
    /\ worker = [p \in Procs |-> Idle]
    /\ nextSeq = 1
    /\ jobs = [p \in Procs |-> [i \in ExportIndex(p) |-> "none"]]
    /\ ttlElapsed = [p \in Procs |-> FALSE]
    /\ ops = 0
    /\ faults = 0
    /\ lag = [p \in Procs |-> "never"]
    /\ dropped = {}

-----------------------------------------------------------------------------
(* The start of a reconcile and its priority order.                        *)

\* The parts of its copy that a reconcile relies on are still those of p's
\* object, except that a failure may have been recorded meanwhile.
SameBasis(p) ==
    /\ cache[p].fin = store[p].fin
    /\ cache[p].pid = store[p].pid
    /\ cache[p].gen = store[p].gen
    /\ \/ cache[p].phase = store[p].phase
       \/ cache[p].phase \in {"Execing", "Running"} /\ store[p].phase = "Failed"

\* p's reconcile starts, from whatever copy the watch cache has: none is
\* running and the object is there.
CanStart(p) == p \in live /\ worker[p] = Idle

LagAtStart(p) ==
    [lag EXCEPT ![p] = IF ~SameBasis(p) THEN "now"
                       ELSE IF @ = "now" THEN "past" ELSE @]

\* One of the MaxFaults things that may go wrong.
Fault == faults < MaxFaults /\ faults' = faults + 1

Start(p) ==
    /\ CanStart(p)
    /\ lag' = LagAtStart(p)
    /\ \/ SameBasis(p) /\ UNCHANGED faults
       \/ ~SameBasis(p) /\ Fault

\* It goes on after one of its calls.
Continue(p, step) ==
    /\ p \in live
    /\ worker[p].step = step
    /\ UNCHANGED <<lag, faults>>

DeletionForced(p) == cache[p].deleting /\ IsAlive(cache[p].phase)
HasSignal(p)      == cache[p].signal # NoSignal /\ IsAlive(cache[p].phase)

\* controller::reconcile, first branch: a Process with a deletionTimestamp
\* in any alive phase is patched to Exiting and the reconcile returns.
ForceExiting(p) ==
    /\ Start(p)
    /\ DeletionForced(p)
    /\ store' = [store EXCEPT ![p].phase = "Exiting"]
    /\ UNCHANGED <<live, cache, worker, nextSeq, jobs, ttlElapsed, ops,
                   dropped>>

\* Mutant of IngestSignal: the annotation is stripped, its effect forgotten.
IngestSignal_Forgets(p) ==
    /\ Start(p)
    /\ ~DeletionForced(p)
    /\ HasSignal(p)
    /\ store' = [store EXCEPT ![p].signal = NoSignal]
    /\ worker' = [worker EXCEPT ![p] = At("dispatch")]
    /\ UNCHANGED <<live, cache, nextSeq, jobs, ttlElapsed, ops, dropped>>

\* The annotation holds a SIGTERM that the copy does not show.
TermUnread(p) == store[p].signal = "SIGTERM" /\ cache[p].signal # "SIGTERM"

\* signals::ingest: strip the annotation, whatever it holds by now, and
\* derive the effect of the value that was read.
IngestSignal(p) ==
    /\ Start(p)
    /\ ~DeletionForced(p)
    /\ HasSignal(p)
    /\ store' = [store EXCEPT ![p].signal = NoSignal]
    /\ worker' = [worker EXCEPT ![p] =
                    IF cache[p].signal = BadSignal
                    THEN At("dispatch")
                    ELSE [At("effect") EXCEPT !.effect =
                            ApplySignal(cache[p].phase, cache[p].signal,
                                        Sighup[p])]]
    /\ dropped' = IF TermUnread(p) THEN dropped \cup {p} ELSE dropped
    /\ UNCHANGED <<live, cache, nextSeq, jobs, ttlElapsed, ops>>

\* signals::ingest fails to strip: a warning, and the reconcile goes on.
IngestFails(p) ==
    /\ CanStart(p)
    /\ ~DeletionForced(p)
    /\ HasSignal(p)
    /\ Fault
    /\ lag' = LagAtStart(p)
    /\ worker' = [worker EXCEPT ![p] = At("dispatch")]
    /\ UNCHANGED <<live, store, cache, nextSeq, jobs, ttlElapsed, ops, dropped>>

\* Mutant of AfterEffect: every other effect is taken for a phase.
AfterEffect_Unmapped(obj, effect) ==
    CASE effect \in {"Noop", "Suspend", "Resume"} -> obj
      [] OTHER -> [obj EXCEPT !.phase = effect]

\* signals::consume_effect
AfterEffect(obj, effect) ==
    CASE effect = "Noop"        -> obj
      [] effect = "Suspend"     -> [obj EXCEPT !.suspended = TRUE]
      [] effect = "Resume"      -> [obj EXCEPT !.suspended = FALSE]
      [] effect = "ForceAttest" -> [obj EXCEPT !.phase = "Running"]
      [] effect = "Remediate"   -> [obj EXCEPT !.phase = "Reconverging"]
      [] OTHER                  -> [obj EXCEPT !.phase = effect]

ConsumeEffect(p) ==
    /\ Continue(p, "effect")
    /\ store' = [store EXCEPT ![p] = AfterEffect(@, worker[p].effect)]
    /\ worker' = [worker EXCEPT ![p] = Idle]
    /\ UNCHANGED <<live, cache, nextSeq, jobs, ttlElapsed, ops, dropped>>

\* The reconcile of p reaches the handler of its cached phase: not forced
\* to Exiting, no signal drained, not suspended while alive.
Dispatch(p, phase) ==
    /\ p \in live
    /\ cache[p].phase = phase
    /\ \/ Start(p) /\ ~DeletionForced(p) /\ ~HasSignal(p)
       \/ Continue(p, "dispatch")
    /\ ~(cache[p].suspended /\ IsAlive(phase))

\* A handler's only write is a phase transition.
Transition(p, next) ==
    /\ store' = [store EXCEPT ![p].phase = next]
    /\ worker' = [worker EXCEPT ![p] = Idle]
    /\ UNCHANGED <<live, cache, nextSeq, jobs, ttlElapsed, ops, dropped>>

\* A reconcile that went past ingestion and returns without a write: its
\* handler waits (unmet conditions, suspended), or its only write fails.
HandlerWaits(p) ==
    /\ worker[p].step = "dispatch"
    /\ worker' = [worker EXCEPT ![p] = Idle]
    /\ UNCHANGED <<live, store, cache, nextSeq, jobs, ttlElapsed, ops, faults,
                   lag, dropped>>

-----------------------------------------------------------------------------
(* The way up: DECLARE, PID assignment, RENDER, VERIFY, ATTEST.            *)

\* Mutant of HandlePending: the finalizer is not installed.
HandlePending_NoFinalizer(p) ==
    /\ Dispatch(p, "Pending")
    /\ worker' = [worker EXCEPT ![p] = At("declare")]
    /\ UNCHANGED <<live, store, cache, nextSeq, jobs, ttlElapsed, ops, dropped>>

\* handle_pending: install the finalizer, then patch Forking.
HandlePending(p) ==
    /\ Dispatch(p, "Pending")
    /\ store' = [store EXCEPT ![p].fin = @ \/ ~cache[p].fin]
    /\ worker' = [worker EXCEPT ![p] = At("declare")]
    /\ UNCHANGED <<live, cache, nextSeq, jobs, ttlElapsed, ops, dropped>>

PatchForking(p) ==
    /\ Continue(p, "declare")
    /\ Transition(p, "Forking")

\* Mutant of HandleForking: an observed PID is not looked at.
HandleForking_Reallocates(p) ==
    /\ Dispatch(p, "Forking")
    /\ DependenciesMet(p)
    /\ worker' = [worker EXCEPT ![p] =
                     [At("bump") EXCEPT !.seq = nextSeq]]
    /\ UNCHANGED <<live, store, cache, nextSeq, jobs, ttlElapsed, ops, dropped>>

\* handle_forking: with dependencies met and no PID observed, read the
\* ProcessTable's nextSequence ...
HandleForking(p) ==
    /\ Dispatch(p, "Forking")
    /\ DependenciesMet(p)
    /\ IF cache[p].pid = NoPid
       THEN worker' = [worker EXCEPT ![p] =
                         [At("bump") EXCEPT !.seq = nextSeq]]
       ELSE worker' = [worker EXCEPT ![p] = At("exec")]
    /\ UNCHANGED <<live, store, cache, nextSeq, jobs, ttlElapsed, ops, dropped>>

\* ... write nextSequence back incremented (an unconditional merge patch) ...
BumpSequence(p) ==
    /\ Continue(p, "bump")
    /\ worker[p].seq < MaxSeq
    /\ nextSeq' = worker[p].seq + 1
    /\ worker' = [worker EXCEPT ![p].step = "pid"]
    /\ UNCHANGED <<live, store, cache, jobs, ttlElapsed, ops, dropped>>

\* ... patch status.pid ...
PatchPid(p) ==
    /\ Continue(p, "pid")
    /\ store' = [store EXCEPT ![p].pid =
                   AllocatePid(p, cache[p].parent, worker[p].seq)]
    /\ worker' = [worker EXCEPT ![p] = At("exec")]
    /\ UNCHANGED <<live, cache, nextSeq, jobs, ttlElapsed, ops, dropped>>

\* ... and patch Execing.
PatchExecing(p) ==
    /\ Continue(p, "exec")
    /\ Transition(p, "Execing")

\* handle_execing: preconditions hold, the intent renders, its resources
\* are applied.  (Unmet preconditions and other intents wait in Execing.)
HandleExecing(p) ==
    /\ Dispatch(p, "Execing")
    /\ p \in Renderable
    /\ Transition(p, "Running")

\* handle_running: the lifetime clock first; otherwise, once every Flux
\* reference is ready and the postconditions hold, advance_to_attested
\* extends the chain of the attestation it read.
ExpireRunning(p) ==
    /\ Dispatch(p, "Running")
    /\ AutoTerminate(Lifetime[p], "Running", ttlElapsed[p])
    /\ Transition(p, "Exiting")

\* Mutant of AdvanceToAttested: every attestation starts a new chain.
AdvanceToAttested_Initial(p) ==
    /\ Dispatch(p, "Running")
    /\ ~AutoTerminate(Lifetime[p], "Running", ttlElapsed[p])
    /\ store' = [store EXCEPT ![p].phase = "Attested", ![p].gen = 1]
    /\ worker' = [worker EXCEPT ![p] = Idle]
    /\ UNCHANGED <<live, cache, nextSeq, jobs, ttlElapsed, ops, dropped>>

AdvanceToAttested(p) ==
    /\ Dispatch(p, "Running")
    /\ ~AutoTerminate(Lifetime[p], "Running", ttlElapsed[p])
    /\ cache[p].gen < MaxGen
    /\ store' = [store EXCEPT ![p].phase = "Attested",
                              ![p].gen = cache[p].gen + 1]
    /\ worker' = [worker EXCEPT ![p] = Idle]
    /\ UNCHANGED <<live, cache, nextSeq, jobs, ttlElapsed, ops, dropped>>

\* transition_to_releasing: read the phase from the live status ...
BeginRelease(p) ==
    /\ worker' = [worker EXCEPT ![p] =
                     [At("stamp") EXCEPT !.effect = store[p].phase]]
    /\ UNCHANGED <<live, store, cache, nextSeq, jobs, ttlElapsed, ops, dropped>>

\* Mutant of StampGate: an annotation that is there is kept.
StampGate_KeepsStamp(p) ==
    /\ Continue(p, "stamp")
    /\ "stamp" \notin Refused
    /\ store' = [store EXCEPT ![p].releasedFrom =
                   IF @ = "none" THEN ReleasedFromLabel(worker[p].effect) ELSE @]
    /\ worker' = [worker EXCEPT ![p] = At("release")]
    /\ UNCHANGED <<live, cache, nextSeq, jobs, ttlElapsed, ops, dropped>>

\* ... stamp it as released-from ...
StampGate(p) ==
    /\ Continue(p, "stamp")
    /\ "stamp" \notin Refused
    /\ store' = [store EXCEPT ![p].releasedFrom =
                   ReleasedFromLabel(worker[p].effect)]
    /\ worker' = [worker EXCEPT ![p] = At("release")]
    /\ UNCHANGED <<live, cache, nextSeq, jobs, ttlElapsed, ops, dropped>>

\* ... (the stamp is a server-side apply of an object without apiVersion and
\* kind; an API server that insists on them answers with an error, which
\* ends the reconcile) ...
StampRefused(p) ==
    /\ Continue(p, "stamp")
    /\ "stamp" \in Refused
    /\ worker' = [worker EXCEPT ![p] = Idle]
    /\ UNCHANGED <<live, store, cache, nextSeq, jobs, ttlElapsed, ops, dropped>>

\* ... and patch Releasing.
PatchReleasing(p) ==
    /\ Continue(p, "release")
    /\ Transition(p, "Releasing")

\* handle_attested: the lifetime clock first, then drift of the Flux
\* references.
HandleAttested(p) ==
    /\ Dispatch(p, "Attested")
    /\ AutoTerminate(Lifetime[p], "Attested", ttlElapsed[p])
    /\ IF Applicable(p, "Attested") # {}
       THEN BeginRelease(p)
       ELSE Transition(p, "Exiting")

DetectDrift(p) ==
    /\ Dispatch(p, "Attested")
    /\ ~AutoTerminate(Lifetime[p], "Attested", ttlElapsed[p])
    /\ Transition(p, "Reconverging")

HandleReconverging(p) ==
    /\ Dispatch(p, "Reconverging")
    /\ Transition(p, "Execing")

-----------------------------------------------------------------------------
(* The way down: exports, cascade, reap.                                   *)

\* advance_out_of_releasing
AdvanceOutOfReleasing(p, gate) ==
    Transition(p, IF gate = "Failed" THEN "Zombie" ELSE "Exiting")

\* handle_releasing counts a Job with any failed pod as finished.
CountsAsActive(state) == state = "active"

\* handle_releasing: apply one Job per applicable export, list the export
\* Jobs, and advance when none is active and none is missing.  (Jobs and list
\* carry a label with the value <ns>/<name>; where that is refused, so is the
\* reconcile, unless no export applies.)
HandleReleasing(p) ==
    LET gate    == ParseReleasedFrom(cache[p].releasedFrom)
        missing == {i \in Applicable(p, gate) : jobs[p][i] = "none"}
    IN  /\ Dispatch(p, "Releasing")
        /\ "jobs" \notin Refused \/ Applicable(p, gate) = {}
        /\ \/ /\ missing # {}
              /\ jobs' = [jobs EXCEPT ![p] =
                    [i \in ExportIndex(p) |->
                        IF i \in missing THEN "active" ELSE jobs[p][i]]]
              /\ worker' = [worker EXCEPT ![p] = Idle]
              /\ UNCHANGED <<live, store, cache, nextSeq, ttlElapsed, ops,
                             dropped>>
           \/ /\ missing = {}
              /\ \/ Applicable(p, gate) = {}
                 \/ \A i \in ExportIndex(p) : ~CountsAsActive(jobs[p][i])
              /\ AdvanceOutOfReleasing(p, gate)

\* A delete call: objects with a finalizer are marked, others go at once.
DeleteObjects(doomed) ==
    /\ store' = [c \in Procs |->
                   IF c \in doomed /\ store[c].fin
                   THEN [store[c] EXCEPT !.deleting = TRUE]
                   ELSE store[c]]
    /\ live' = live \ {c \in doomed : ~store[c].fin}

\* handle_exiting with children: list them, delete one after the other those
\* that are not yet being deleted, ignoring errors, and wait.
CascadeDelete(p) ==
    LET children == Children(cache[p].pid)
    IN  /\ Dispatch(p, "Exiting")
        /\ children # {}
        /\ worker' = [worker EXCEPT ![p] = [At("cascade") EXCEPT !.todo =
                        {c \in children : ~store[c].deleting}]]
        /\ UNCHANGED <<live, store, cache, nextSeq, jobs, ttlElapsed, ops,
                       dropped>>

\* The delete of one child, or its failure, which nothing notices.
DeleteChild(p) ==
    /\ worker[p].step = "cascade"
    /\ \E c \in worker[p].todo :
          /\ worker' = [worker EXCEPT ![p].todo = @ \ {c}]
          /\ \/ DeleteObjects({c} \cap live) /\ UNCHANGED faults
             \/ Fault /\ UNCHANGED <<live, store>>
    /\ UNCHANGED <<cache, nextSeq, jobs, ttlElapsed, ops, lag, dropped>>

CascadeDone(p) ==
    /\ worker[p].step = "cascade"
    /\ worker[p].todo = {}
    /\ worker' = [worker EXCEPT ![p] = Idle]
    /\ UNCHANGED <<live, store, cache, nextSeq, jobs, ttlElapsed, ops, faults,
                   lag, dropped>>

\* handle_exiting without children.
HandleExiting(p) ==
    /\ Dispatch(p, "Exiting")
    /\ Children(cache[p].pid) = {}
    /\ Transition(p, "Zombie")

\* handle_failed
HandleFailed(p) ==
    /\ Dispatch(p, "Failed")
    /\ IF /\ AutoTerminate(Lifetime[p], "Failed", ttlElapsed[p])
          /\ Applicable(p, "Failed") # {}
       THEN BeginRelease(p)
       ELSE Transition(p, "Zombie")

\* Mutants of HandleZombie: the finalizer is dropped one phase early; only
\* objects under deletion are reaped.
HandleZombie_DropsFinalizer(p) ==
    /\ Dispatch(p, "Zombie")
    /\ store' = [store EXCEPT ![p].fin = FALSE]
    /\ live' = IF store[p].deleting THEN live \ {p} ELSE live
    /\ worker' = [worker EXCEPT ![p] = Idle]
    /\ UNCHANGED <<cache, nextSeq, jobs, ttlElapsed, ops, dropped>>

HandleZombie_OnlyDeleted(p) ==
    /\ Dispatch(p, "Zombie")
    /\ cache[p].deleting
    /\ Transition(p, "Reaped")

HandleZombie(p) ==
    /\ Dispatch(p, "Zombie")
    /\ Transition(p, "Reaped")

\* handle_reaped: drop the finalizer; the API server then removes an
\* object that is being deleted, and keeps one that is not.
HandleReaped(p) ==
    /\ Dispatch(p, "Reaped")
    /\ cache[p].fin
    /\ store' = [store EXCEPT ![p].fin = FALSE]
    /\ live' = IF store[p].deleting THEN live \ {p} ELSE live
    /\ worker' = [worker EXCEPT ![p] = Idle]
    /\ UNCHANGED <<cache, nextSeq, jobs, ttlElapsed, ops, dropped>>

-----------------------------------------------------------------------------
(* The world around the controller.                                        *)

\* The watch delivers p's current object, also between two calls of a
\* reconcile.  (Of its copy, a reconcile past its first write reads only
\* the immutable declared parent; one about to dispatch keeps its copy.)
Deliver(p) ==
    /\ p \in live
    /\ worker[p].step # "dispatch"
    /\ cache[p] # store[p]
    /\ cache' = [cache EXCEPT ![p] = store[p]]
    /\ UNCHANGED <<live, store, worker, nextSeq, jobs, ttlElapsed, ops, faults,
                   lag, dropped>>

\* The annotation is stripped, and the exit it asked for not yet written.
HoldsTerm(p) == worker[p].step = "effect" /\ worker[p].effect = "Exiting"

\* An API call of a split handler fails: the reconcile ends there and is
\* requeued (reconcile's error arm; for a signal, only a warning).
ApiError(p) ==
    /\ worker[p].step \notin {"idle", "cascade"}
    /\ Fault
    /\ worker' = [worker EXCEPT ![p] = Idle]
    /\ dropped' = IF HoldsTerm(p) THEN dropped \cup {p} ELSE dropped
    /\ UNCHANGED <<live, store, cache, nextSeq, jobs, ttlElapsed, ops, lag>>

\* The object went away under a reconcile: its next call gets NotFound.
ObjectGone(p) ==
    /\ worker[p].step \notin {"idle", "cascade"}
    /\ p \notin live
    /\ worker' = [worker EXCEPT ![p] = Idle]
    /\ UNCHANGED <<live, store, cache, nextSeq, jobs, ttlElapsed, ops, faults,
                   lag, dropped>>

\* The controller restarts: every reconcile is lost, caches are relisted.
Crash ==
    /\ Fault
    /\ worker' = [p \in Procs |-> Idle]
    /\ cache' = [p \in Procs |-> IF p \in live THEN store[p] ELSE cache[p]]
    /\ dropped' = dropped \cup {p \in Procs : HoldsTerm(p)}
    /\ UNCHANGED <<live, store, nextSeq, jobs, ttlElapsed, ops, lag>>

Spend == ops < MaxOps /\ ops' = ops + 1

\* A user creates p, once; a non-root names an assigned PID as its parent.
Unborn(p) == p \notin live /\ store[p] = NewProcess(NoPid)

Create(p) ==
    /\ Unborn(p)
    /\ \E parent \in {NoPid} \cup {store[q].pid : q \in live} :
          /\ p \in Roots <=> parent = NoPid
          /\ store' = [store EXCEPT ![p] = NewProcess(parent)]
          /\ cache' = [cache EXCEPT ![p] = NewProcess(parent)]
    /\ live' = live \cup {p}
    /\ UNCHANGED <<worker, nextSeq, jobs, ttlElapsed, ops, faults, lag,
                   dropped>>

\* The annotation holds one signal: a new one replaces one not yet read.
SendSignal(p) ==
    /\ p \in live
    /\ Spend
    /\ \E s \in UserSignals :
          /\ store' = [store EXCEPT ![p].signal = s]
          /\ dropped' = IF store[p].signal = "SIGTERM" /\ s # "SIGTERM"
                        THEN dropped \cup {p} ELSE dropped \ {p}
    /\ UNCHANGED <<live, cache, worker, nextSeq, jobs, ttlElapsed, faults, lag>>

Delete(p) ==
    /\ UserDeletes
    /\ p \in live
    /\ ~store[p].deleting
    /\ Spend
    /\ DeleteObjects({p})
    /\ UNCHANGED <<cache, worker, nextSeq, jobs, ttlElapsed, faults, lag,
                   dropped>>

\* Something outside the repository records a failed exit in status.phase,
\* where can_transition_to allows it; no code in the workspace does.
MarkFailed(p) ==
    /\ ExternalFailures
    /\ p \in live
    /\ CanTransitionTo(store[p].phase, "Failed")
    /\ Spend
    /\ store' = [store EXCEPT ![p].phase = "Failed"]
    /\ UNCHANGED <<live, cache, worker, nextSeq, jobs, ttlElapsed, faults, lag,
                   dropped>>

\* p's TTL elapses.
ElapseTtl(p) ==
    /\ p \in live
    /\ Lifetime[p] # "Permanent"
    /\ ~ttlElapsed[p]
    /\ ttlElapsed' = [ttlElapsed EXCEPT ![p] = TRUE]
    /\ UNCHANGED <<live, store, cache, worker, nextSeq, jobs, ops, faults, lag,
                   dropped>>

\* The Job controller runs an export's pods.
JobMoves == {<<"active", "succeeded">>, <<"active", "retrying">>,
             <<"retrying", "succeeded">>, <<"retrying", "failed">>}

JobProgress(p) ==
    /\ \E i \in ExportIndex(p), move \in JobMoves :
          /\ jobs[p][i] = move[1]
          /\ jobs' = [jobs EXCEPT ![p][i] = move[2]]
    /\ UNCHANGED <<live, store, cache, worker, nextSeq, ttlElapsed, ops, faults,
                   lag, dropped>>

-----------------------------------------------------------------------------
Reconcile(p) ==
    \/ ForceExiting(p) \/ IngestSignal(p) \/ IngestFails(p)
    \/ ConsumeEffect(p) \/ HandlerWaits(p)
    \/ HandlePending(p) \/ PatchForking(p)
    \/ HandleForking(p) \/ BumpSequence(p) \/ PatchPid(p) \/ PatchExecing(p)
    \/ HandleExecing(p) \/ ExpireRunning(p) \/ AdvanceToAttested(p)
    \/ HandleAttested(p) \/ DetectDrift(p) \/ HandleReconverging(p)
    \/ StampGate(p) \/ StampRefused(p) \/ PatchReleasing(p) \/ HandleReleasing(p)
    \/ CascadeDelete(p) \/ DeleteChild(p) \/ CascadeDone(p) \/ HandleExiting(p)
    \/ HandleFailed(p) \/ HandleZombie(p) \/ HandleReaped(p)

Environment(p) ==
    \/ Deliver(p) \/ ApiError(p) \/ ObjectGone(p) \/ Create(p)
    \/ SendSignal(p) \/ Delete(p) \/ MarkFailed(p) \/ ElapseTtl(p) \/ JobProgress(p)

Next == (\E p \in Procs : Reconcile(p) \/ Environment(p)) \/ Crash

Spec == Init /\ [][Next]_vars

\* The controller requeues every object it has not finished with, and the
\* watch is eventually consistent.  The handlers whose outcome depends on
\* Flux, and the pods of export Jobs, are not assumed to progress.
Fairness ==
    \A p \in Procs :
        /\ WF_vars(Deliver(p))
        /\ WF_vars(ForceExiting(p))
        /\ WF_vars(IngestSignal(p))
        /\ WF_vars(ConsumeEffect(p))
        /\ WF_vars(HandlerWaits(p))
        /\ WF_vars(PatchForking(p) \/ BumpSequence(p) \/ PatchPid(p)
                     \/ PatchExecing(p) \/ StampGate(p) \/ StampRefused(p)
                     \/ PatchReleasing(p) \/ DeleteChild(p) \/ CascadeDone(p))
        /\ WF_vars(HandleAttested(p))
        /\ WF_vars(HandleReleasing(p))
        /\ WF_vars(CascadeDelete(p))
        /\ WF_vars(HandleExiting(p))
        /\ WF_vars(HandleZombie(p))
        /\ WF_vars(HandleReaped(p))
        /\ WF_vars(ObjectGone(p))

FairSpec == Spec /\ Fairness

-----------------------------------------------------------------------------
(* What makes the controller correct.                                      *)

\* Type invariant: every object, reconcile position and counter of the
\* controller's state has the shape the code gives it.
TypeOK ==
    /\ live \subseteq Procs
    /\ store \in [Procs -> ProcessObject]
    /\ cache \in [Procs -> ProcessObject]
    /\ worker \in [Procs -> WorkerState]
    /\ nextSeq \in Nat
    /\ DOMAIN jobs = Procs
    /\ \A p \in Procs : jobs[p] \in [ExportIndex(p) -> JobStates]
    /\ ttlElapsed \in [Procs -> BOOLEAN]
    /\ ops \in Nat
    /\ faults \in Nat
    /\ lag \in [Procs -> LagStates]
    /\ dropped \subseteq Procs

\* A Process that was given a PID, and so may have children and owned
\* resources, keeps its finalizer until it is Reaped: no crash, API error,
\* signal or delete between the patches of handle_pending, handle_forking
\* and handle_reaped lets Kubernetes remove it earlier.  (Only a reconcile
\* from a copy behind the object can: handle_pending from a copy that has
\* the finalizer handle_reaped dropped forks without one.)
PidGuarded ==
    \A p \in live :
        lag[p] = "never" /\ store[p].pid # NoPid /\ store[p].phase # "Reaped"
            => store[p].fin

\* What consume_effect may still have to write, and the phases it was
\* derived from: only a Process in service is sent back up.
Revivals == {"ForceAttest", "Remediate", "Reconverging"}
Stops    == {"Noop", "Suspend", "Resume", "Exiting", "Reaped"}

\* Between two calls of a reconcile that did not start behind its object, the
\* decision it is about to write still fits the object: handle_pending's
\* Forking, handle_forking's PID, consume_effect's transition and
\* transition_to_releasing's gate land on the phase they were derived from,
\* whatever users, parents and failures did in between.
InFlight(p) ==
    LET step == worker[p].step
        obj  == store[p]
    IN  /\ step = "dispatch" => IsAlive(cache[p].phase) /\ SameBasis(p)
        /\ step = "declare" => obj.phase = "Pending" /\ obj.fin
        /\ step \in {"bump", "pid", "exec"} => obj.phase = "Forking"
        /\ step \in {"bump", "pid"} => obj.pid = NoPid
        /\ step = "effect" =>
             /\ obj.phase \notin {"Zombie", "Reaped"}
             /\ \/ worker[p].effect \in Stops
                \/ /\ worker[p].effect \in Revivals
                   /\ obj.phase \in {"Running", "Attested", "Failed"}
        /\ step \in {"stamp", "release"} => obj.phase \in {"Attested", "Failed"}
        /\ step = "stamp" => worker[p].effect = obj.phase
        /\ step = "release" => obj.releasedFrom = obj.phase

ReconcilesInFlight == \A p \in Procs : lag[p] # "now" => InFlight(p)

Draining == {"Exiting", "Zombie", "Reaped"}

\* Once a Process is told to exit, no later reconcile, late signal effect or
\* retried patch brings it back up, except a reconcile that started from a
\* copy behind the object: transition_to_exiting, SIGTERM, SIGKILL and
\* deletion are final as far as the watch cache has kept up.
NoResurrection ==
    [][\A p \in live \cap live' :
          lag'[p] # "now" /\ store[p].phase \in Draining
            => store'[p].phase \in Draining]_vars

\* status.pid, the key children name as their parent, is assigned once:
\* through retries and restarts, handle_forking re-allocates it only from a
\* copy that does not have it yet.
PidStable ==
    [][\A p \in live \cap live' :
          lag'[p] # "now" /\ store[p].pid # NoPid
            => store'[p].pid = store[p].pid]_vars

\* Each entry into Attested extends the chain of the attestation before it
\* by exactly one generation, and nothing else touches the chain: not a
\* forced re-attestation, a reconvergence, or a repeated or lost patch.  Only
\* a reconcile behind the object may repeat a generation.
AttestationChain ==
    [][\A p \in live \cap live' :
          lag'[p] # "now" =>
            store'[p].gen = IF store[p].phase # "Attested"
                                  /\ store'[p].phase = "Attested"
                            THEN store[p].gen + 1
                            ELSE store[p].gen]_vars

\* The released-from annotation names the phase from which the Process
\* entered Releasing, although the phase is read, stamped and patched in
\* three calls with crashes and signals between them and an older stamp may
\* be there.
ReleaseGateFaithful ==
    [][\A p \in live \cap live' :
          lag'[p] # "now" /\ store[p].phase # "Releasing"
              /\ store'[p].phase = "Releasing"
            => store'[p].releasedFrom = store[p].phase]_vars

\* SIGTERM on a Process that is alive takes it out of service, from any copy
\* and through any other signals: the annotation is drained and its effect
\* reaches status.phase.  There are three ways to lose one, and no other: a
\* later signal replaces it before it is read, the strip removes it unread,
\* or an API error or crash comes between the strip and the phase patch.
SigtermHonoured ==
    \A p \in Procs :
        (p \in live /\ store[p].signal = "SIGTERM" /\ IsAlive(store[p].phase))
            ~> (p \notin live \/ ~IsAlive(store[p].phase)
                  \/ store[p].phase = "Exiting" \/ p \in dropped)

\* An Exiting Process that nobody deletes or suspends, and that has no
\* children, is reaped: handle_exiting, handle_zombie.  (A reconcile behind
\* the object may bring it back up instead.)
LeafDrains ==
    \A p \in Procs :
        (p \in live /\ store[p].phase = "Exiting")
            ~> (\/ p \notin live
                \/ store[p].phase = "Reaped"
                \/ store[p].deleting
                \/ store[p].suspended
                \/ Children(store[p].pid) # {}
                \/ lag[p] # "never")

-----------------------------------------------------------------------------
(* The lifecycle an observer of the API sees.                              *)

Lifecycle == INSTANCE ProcessLifecycle WITH
    phase  <- [p \in Procs |-> IF p \in live THEN store[p].phase ELSE "Absent"],
    forked <- [p \in Procs |-> p \in live /\ store[p].pid # NoPid],
    lag    <- lag

\* The controller, with its caches, split handlers, faults and cascades,
\* implements the observable lifecycle: every phase change is an edge of
\* the legal table, an interrupt or the loss of a failure recorded from
\* outside, PIDs appear only in Forking, and only objects without a PID or
\* already Reaped disappear, up to the reconciles that start behind.
RefinesLifecycle == Lifecycle!LifecycleSpec

-----------------------------------------------------------------------------
(* What the documentation says of the controller, and the code does not do. *)

\* docs/k8s-as-processes.md on kubectl delete: "Once children gone, ->
\* Zombie -> Reaped on next tick", which releases the finalizer.
DeletionCompletes ==
    \A p \in Procs :
        (p \in live /\ store[p].deleting) ~> (p \notin live)

\* phase.rs on the way down of an ephemeral Process with exports: "Attested
\* -> Releasing -> Exiting -> Zombie -> Reaped (export-then-SIGTERM)".
ExpiryReleases ==
    \A p \in Procs :
        (/\ p \in live
         /\ store[p].phase = "Attested"
         /\ AutoTerminate(Lifetime[p], "Attested", ttlElapsed[p]))
            ~> (p \notin live \/ store[p].phase # "Attested")

\* ProcessTable hands out hierarchical PIDs, the identity of a Process.
UniquePids ==
    \A p, q \in live :
        p # q /\ store[p].pid # NoPid => store[p].pid # store[q].pid
=============================================================================
