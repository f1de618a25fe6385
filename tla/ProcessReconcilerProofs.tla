----------------------- MODULE ProcessReconcilerProofs -----------------------
(***************************************************************************)
(* Theorems about ProcessReconciler, for any set of Processes, any specs,  *)
(* any signals, deletes, crashes, API errors and copies in the cache.      *)
(***************************************************************************)
EXTENDS ProcessReconciler, TLAPS

(***************************************************************************)
(* Types of the pieces that actions put into the state.                    *)
(***************************************************************************)

\* A new object, as users create it, is well typed.
LEMMA NewProcessType ==
    ASSUME NEW parent \in Pids
    PROVE  NewProcess(parent) \in ProcessObject
  BY DEF NewProcess, ProcessObject, Phases, NoPid, Pids, Labels, NoSignal

\* Writing one field of an object keeps it well typed.
LEMMA FieldTypes ==
    ASSUME NEW obj \in ProcessObject
    PROVE  /\ \A v \in Phases : [obj EXCEPT !.phase = v] \in ProcessObject
           /\ \A v \in BOOLEAN : [obj EXCEPT !.fin = v] \in ProcessObject
           /\ \A v \in BOOLEAN : [obj EXCEPT !.deleting = v] \in ProcessObject
           /\ \A v \in Signals \cup {NoSignal, BadSignal} :
                 [obj EXCEPT !.signal = v] \in ProcessObject
           /\ \A v \in BOOLEAN : [obj EXCEPT !.suspended = v] \in ProcessObject
           /\ \A v \in Pids : [obj EXCEPT !.pid = v] \in ProcessObject
           /\ \A v \in Phases, n \in Nat :
                 [obj EXCEPT !.phase = v, !.gen = n] \in ProcessObject
           /\ \A v \in Labels :
                 [obj EXCEPT !.releasedFrom = v] \in ProcessObject
  BY DEF ProcessObject

\* Reading the fields back.
LEMMA FieldReads ==
    ASSUME NEW obj \in ProcessObject
    PROVE  /\ obj.phase \in Phases
           /\ obj.fin \in BOOLEAN
           /\ obj.deleting \in BOOLEAN
           /\ obj.pid \in Pids
           /\ obj.parent \in Pids
           /\ obj.gen \in Nat
           /\ obj.releasedFrom \in Labels
  BY DEF ProcessObject

\* The empty path, an absent PID, is a path.
LEMMA NoPidType == NoPid \in Pids
  BY DEF NoPid, Pids

\* The PID that pid::allocate_pid builds is a path of names and numbers.
LEMMA AllocatePidType ==
    ASSUME NEW p \in Procs, NEW parent \in Pids, NEW seq \in Nat
    PROVE  AllocatePid(p, parent, seq) \in Pids
  <1>1. IdentityName[p] \in Names
    BY ConstantsAssumption DEF ConstantsAssumption
  <1>2. Append(parent, seq) \in Pids
    BY DEF Pids
  <1>3. <<IdentityName[p], seq>> \in Pids
    BY <1>1 DEF Pids
  <1>4. QED
    BY <1>2, <1>3 DEF AllocatePid

\* signals::apply yields a SignalEffect for every phase, signal, strategy.
LEMMA ApplySignalType ==
    ASSUME NEW ph \in Phases, NEW s, NEW st
    PROVE  ApplySignal(ph, s, st) \in Effects
  <1>1. SighupTarget(st) \in Effects
    BY DEF SighupTarget, Effects, Phases
  <1>2. {"Exiting", "Reaped", "ForceAttest", "Remediate", "Suspend", "Resume",
         "Noop"} \subseteq Effects
    BY DEF Effects, Phases
  <1>3. QED
    BY <1>1, <1>2 DEF ApplySignal

\* consume_effect keeps the object well typed.
LEMMA AfterEffectType ==
    ASSUME NEW obj \in ProcessObject, NEW e \in Effects
    PROVE  AfterEffect(obj, e) \in ProcessObject
  <1>1. CASE e \in {"Noop", "Suspend", "Resume", "ForceAttest", "Remediate"}
    BY <1>1 DEF AfterEffect, ProcessObject, Phases
  <1>2. CASE e \in Phases
    <2>1. e \notin {"Noop", "Suspend", "Resume", "ForceAttest", "Remediate"}
      BY <1>2 DEF Phases
    <2>2. AfterEffect(obj, e) = [obj EXCEPT !.phase = e]
      BY <2>1 DEF AfterEffect
    <2>3. QED
      BY <1>2, <2>2 DEF ProcessObject
  <1>3. QED
    BY <1>1, <1>2 DEF Effects

\* Worker positions.
LEMMA WorkerTypes ==
    /\ \A step \in Steps : At(step) \in WorkerState
    /\ \A step \in Steps, n \in Nat : [At(step) EXCEPT !.seq = n] \in WorkerState
    /\ \A step \in Steps, e \in Effects :
          [At(step) EXCEPT !.effect = e] \in WorkerState
    /\ \A step \in Steps, todo \in SUBSET Procs :
          [At(step) EXCEPT !.todo = todo] \in WorkerState
    /\ Idle \in WorkerState
  BY DEF At, Idle, WorkerState, Steps, Effects

\* A step of p's reconcile either starts it, and records how its copy stood,
\* or leaves the record alone; it makes at most one fault.
LEMMA Bookkeeping ==
    ASSUME NEW p \in Procs, Reconcile(p)
    PROVE  /\ lag' = LagAtStart(p) \/ lag' = lag
           /\ faults' = faults \/ faults' = faults + 1
  <1>1. ASSUME Start(p)
        PROVE  lag' = LagAtStart(p) /\ (faults' = faults \/ faults' = faults + 1)
    BY <1>1 DEF Start, Fault
  <1>2. ASSUME NEW step, Continue(p, step)
        PROVE  lag' = lag /\ faults' = faults
    BY <1>2 DEF Continue
  <1>3. ASSUME NEW ph, Dispatch(p, ph)
        PROVE  /\ lag' = LagAtStart(p) \/ lag' = lag
               /\ faults' = faults \/ faults' = faults + 1
    BY <1>1, <1>2, <1>3 DEF Dispatch
  <1>4. CASE ForceExiting(p) \/ IngestSignal(p)
    BY <1>1, <1>4 DEF ForceExiting, IngestSignal
  <1>5. CASE IngestFails(p) \/ HandlerWaits(p) \/ DeleteChild(p) \/ CascadeDone(p)
    BY <1>5 DEF IngestFails, HandlerWaits, DeleteChild, CascadeDone, Fault
  <1>6. CASE \/ ConsumeEffect(p) \/ PatchForking(p) \/ BumpSequence(p)
             \/ PatchPid(p) \/ PatchExecing(p) \/ StampGate(p)
             \/ StampRefused(p) \/ PatchReleasing(p)
    BY <1>2, <1>6 DEF ConsumeEffect, PatchForking, BumpSequence, PatchPid,
       PatchExecing, StampGate, StampRefused, PatchReleasing
  <1>7. CASE \/ HandlePending(p) \/ HandleForking(p) \/ HandleExecing(p)
             \/ ExpireRunning(p) \/ AdvanceToAttested(p) \/ HandleAttested(p)
             \/ DetectDrift(p) \/ HandleReconverging(p)
    BY <1>3, <1>7 DEF HandlePending, HandleForking, HandleExecing,
       ExpireRunning, AdvanceToAttested, HandleAttested, DetectDrift,
       HandleReconverging
  <1>8. CASE \/ HandleReleasing(p) \/ CascadeDelete(p) \/ HandleExiting(p)
             \/ HandleFailed(p) \/ HandleZombie(p) \/ HandleReaped(p)
    BY <1>3, <1>8 DEF HandleReleasing, CascadeDelete, HandleExiting,
       HandleFailed, HandleZombie, HandleReaped
  <1>9. QED
    BY <1>4, <1>5, <1>6, <1>7, <1>8 DEF Reconcile

\* The record stays well typed.
LEMMA BooksTyped ==
    ASSUME TypeOK, NEW p \in Procs, Reconcile(p)
    PROVE  faults' \in Nat /\ lag' \in [Procs -> LagStates]
  <1>1. LagAtStart(p) \in [Procs -> LagStates]
    BY DEF TypeOK, LagAtStart, LagStates
  <1>2. QED
    BY <1>1, Bookkeeping DEF TypeOK


(***************************************************************************)
(* Type correctness.                                                       *)
(***************************************************************************)

\* A phase transition patch keeps the state well typed.
LEMMA TransitionType ==
    ASSUME TypeOK, NEW p \in Procs, NEW next \in Phases, Transition(p, next),
           faults' \in Nat, lag' \in [Procs -> LagStates]
    PROVE  TypeOK'
  <1>1. store' \in [Procs -> ProcessObject]
    BY FieldTypes DEF TypeOK, Transition
  <1>2. worker' \in [Procs -> WorkerState]
    BY WorkerTypes DEF TypeOK, Transition
  <1>3. QED
    BY <1>1, <1>2 DEF TypeOK, Transition, ExportIndex

\* So does reading the phase for the released-from annotation.
LEMMA BeginReleaseType ==
    ASSUME TypeOK, NEW p \in Procs, BeginRelease(p),
           faults' \in Nat, lag' \in [Procs -> LagStates]
    PROVE  TypeOK'
  <1>1. store[p].phase \in Effects
    BY FieldReads DEF TypeOK, Effects
  <1>2. worker' \in [Procs -> WorkerState]
    BY <1>1, WorkerTypes DEF TypeOK, BeginRelease, Steps
  <1>3. QED
    BY <1>2 DEF TypeOK, BeginRelease, ExportIndex

\* And a delete call.
LEMMA DeleteObjectsType ==
    ASSUME TypeOK, NEW doomed, DeleteObjects(doomed)
    PROVE  /\ store' \in [Procs -> ProcessObject]
           /\ live' \subseteq Procs
  BY FieldTypes DEF TypeOK, DeleteObjects

\* Every step of p's reconcile keeps the state well typed.
LEMMA ReconcileType ==
    ASSUME TypeOK, NEW p \in Procs, Reconcile(p)
    PROVE  TypeOK'
  <1>0. {"Forking", "Execing", "Running", "Exiting", "Reconverging",
         "Releasing", "Zombie", "Reaped"} \subseteq Phases
    BY DEF Phases
  <1>b. faults' \in Nat /\ lag' \in [Procs -> LagStates]
    BY BooksTyped
  <1>1. CASE ForceExiting(p)
    <2>1. store' \in [Procs -> ProcessObject]
      BY <1>1, <1>0, FieldTypes DEF TypeOK, ForceExiting
    <2>2. QED
      BY <1>b, <1>1, <2>1 DEF TypeOK, ForceExiting, ExportIndex
  <1>2. CASE IngestSignal(p)
    <2>1. store' \in [Procs -> ProcessObject]
      BY <1>2, FieldTypes DEF TypeOK, IngestSignal
    <2>2. ApplySignal(cache[p].phase, cache[p].signal, Sighup[p]) \in Effects
      BY ApplySignalType, FieldReads DEF TypeOK
    <2>3. worker' \in [Procs -> WorkerState]
      BY <1>2, <2>2, WorkerTypes DEF TypeOK, IngestSignal, Steps
    <2>4. QED
      BY <1>b, <1>2, <2>1, <2>3 DEF TypeOK, IngestSignal, ExportIndex
  <1>3. CASE IngestFails(p)
    BY <1>b, <1>3, WorkerTypes DEF TypeOK, IngestFails, Steps, ExportIndex
  <1>4. CASE ConsumeEffect(p)
    <2>1. worker[p].effect \in Effects
      BY DEF TypeOK, WorkerState
    <2>2. AfterEffect(store[p], worker[p].effect) \in ProcessObject
      BY <2>1, AfterEffectType DEF TypeOK
    <2>3. store' \in [Procs -> ProcessObject]
      BY <1>4, <2>2 DEF TypeOK, ConsumeEffect
    <2>4. QED
      BY <1>b, <1>4, <2>3, WorkerTypes DEF TypeOK, ConsumeEffect, ExportIndex
  <1>5. CASE HandlerWaits(p)
    BY <1>b, <1>5, WorkerTypes DEF TypeOK, HandlerWaits, ExportIndex
  <1>6. CASE HandlePending(p)
    <2>1. store' \in [Procs -> ProcessObject]
      <3>1. (store[p].fin \/ ~cache[p].fin) \in BOOLEAN
        OBVIOUS
      <3>2. QED
        BY <1>6, <3>1, FieldTypes DEF TypeOK, HandlePending
    <2>2. QED
      BY <1>b, <1>6, <2>1, WorkerTypes DEF TypeOK, HandlePending, Steps, ExportIndex
  <1>7. CASE HandleForking(p)
    <2>1. worker' \in [Procs -> WorkerState]
      BY <1>7, WorkerTypes DEF TypeOK, HandleForking, Steps
    <2>2. QED
      BY <1>b, <1>7, <2>1 DEF TypeOK, HandleForking, ExportIndex
  <1>8. CASE BumpSequence(p)
    <2>1. worker[p].seq + 1 \in Nat
      BY DEF TypeOK, WorkerState
    <2>2. worker' \in [Procs -> WorkerState]
      <3>1. [worker[p] EXCEPT !.step = "pid"] \in WorkerState
        BY DEF TypeOK, WorkerState, Steps
      <3>2. QED
        BY <1>8, <3>1 DEF TypeOK, BumpSequence
    <2>3. QED
      BY <1>b, <1>8, <2>1, <2>2 DEF TypeOK, BumpSequence, ExportIndex
  <1>9. CASE PatchPid(p)
    <2>1. AllocatePid(p, cache[p].parent, worker[p].seq) \in Pids
      BY AllocatePidType, FieldReads DEF TypeOK, WorkerState
    <2>2. store' \in [Procs -> ProcessObject]
      BY <1>9, <2>1, FieldTypes DEF TypeOK, PatchPid
    <2>3. QED
      BY <1>b, <1>9, <2>2, WorkerTypes DEF TypeOK, PatchPid, Steps, ExportIndex
  <1>10. CASE AdvanceToAttested(p)
    <2>1. cache[p].gen + 1 \in Nat
      BY FieldReads DEF TypeOK
    <2>2. store' \in [Procs -> ProcessObject]
      BY <1>10, <2>1, FieldTypes DEF TypeOK, AdvanceToAttested, Phases
    <2>3. QED
      BY <1>b, <1>10, <2>2, WorkerTypes DEF TypeOK, AdvanceToAttested, ExportIndex
  <1>11. CASE HandleAttested(p)
    BY <1>b, <1>11, <1>0, BeginReleaseType, TransitionType DEF HandleAttested
  <1>12. CASE HandleReleasing(p)
    <2>1. DEFINE gate    == ParseReleasedFrom(cache[p].releasedFrom)
                 missing == {i \in Applicable(p, gate) : jobs[p][i] = "none"}
    <2>2. CASE AdvanceOutOfReleasing(p, gate)
      BY <1>b, <2>2, <1>0, TransitionType DEF AdvanceOutOfReleasing
    <2>3. CASE /\ jobs' = [jobs EXCEPT ![p] =
                    [i \in ExportIndex(p) |->
                        IF i \in missing THEN "active" ELSE jobs[p][i]]]
               /\ worker' = [worker EXCEPT ![p] = Idle]
               /\ UNCHANGED <<live, store, cache, nextSeq, ttlElapsed, ops,
                              dropped>>
      <3>1. /\ DOMAIN jobs' = Procs
            /\ \A q \in Procs : jobs'[q] \in [ExportIndex(q) -> JobStates]
        BY <2>3 DEF TypeOK, JobStates
      <3>2. QED
        BY <1>b, <2>3, <3>1, WorkerTypes DEF TypeOK, ExportIndex
    <2>4. QED
      BY <1>12, <2>2, <2>3 DEF HandleReleasing
  <1>13. CASE CascadeDelete(p)
    <2>1. {c \in Children(cache[p].pid) : ~store[c].deleting} \in SUBSET Procs
      BY DEF TypeOK, Children
    <2>2. worker' \in [Procs -> WorkerState]
      BY <1>13, <2>1, WorkerTypes DEF TypeOK, CascadeDelete, Steps
    <2>3. QED
      BY <1>b, <1>13, <2>2 DEF TypeOK, CascadeDelete, ExportIndex
  <1>d. CASE DeleteChild(p)
    <2>1. PICK c \in worker[p].todo :
             /\ worker' = [worker EXCEPT ![p].todo = @ \ {c}]
             /\ DeleteObjects({c} \cap live) \/ UNCHANGED <<live, store>>
      BY <1>d DEF DeleteChild
    <2>2. store' \in [Procs -> ProcessObject] /\ live' \subseteq Procs
      <3>1. CASE DeleteObjects({c} \cap live)
        BY <3>1, DeleteObjectsType
      <3>2. CASE UNCHANGED <<live, store>>
        BY <3>2 DEF TypeOK
      <3>3. QED
        BY <2>1, <3>1, <3>2
    <2>3. worker' \in [Procs -> WorkerState]
      BY <2>1 DEF TypeOK, WorkerState
    <2>4. QED
      BY <1>b, <1>d, <2>2, <2>3 DEF TypeOK, DeleteChild, ExportIndex
  <1>e. CASE StampGate(p)
    <2>1. ReleasedFromLabel(worker[p].effect) \in Labels
      BY DEF ReleasedFromLabel, Labels
    <2>2. store' \in [Procs -> ProcessObject]
      BY <1>e, <2>1, FieldTypes DEF TypeOK, StampGate
    <2>3. QED
      BY <1>b, <1>e, <2>2, WorkerTypes DEF TypeOK, StampGate, Steps, ExportIndex
  <1>f. CASE StampRefused(p) \/ CascadeDone(p)
    BY <1>b, <1>f, WorkerTypes DEF TypeOK, StampRefused, CascadeDone, ExportIndex
  <1>14. CASE HandleFailed(p)
    BY <1>b, <1>14, <1>0, BeginReleaseType, TransitionType DEF HandleFailed
  <1>15. CASE HandleReaped(p)
    <2>1. store' \in [Procs -> ProcessObject]
      BY <1>15, FieldTypes DEF TypeOK, HandleReaped
    <2>2. QED
      BY <1>b, <1>15, <2>1, WorkerTypes DEF TypeOK, HandleReaped, ExportIndex
  <1>16. CASE \/ PatchForking(p) \/ PatchExecing(p) \/ HandleExecing(p)
              \/ ExpireRunning(p) \/ PatchReleasing(p) \/ DetectDrift(p)
              \/ HandleReconverging(p) \/ HandleExiting(p) \/ HandleZombie(p)
    BY <1>b, <1>16, <1>0, TransitionType
       DEF PatchForking, PatchExecing, HandleExecing, ExpireRunning,
           PatchReleasing, DetectDrift, HandleReconverging, HandleExiting, HandleZombie
  <1>17. QED
    BY <1>1, <1>2, <1>3, <1>4, <1>5, <1>6, <1>7, <1>8, <1>9, <1>10, <1>11,
       <1>12, <1>13, <1>14, <1>15, <1>16, <1>d, <1>e, <1>f DEF Reconcile

\* Every step of users, the watch, the clock and faults does too.
LEMMA EnvironmentType ==
    ASSUME TypeOK, NEW p \in Procs, Environment(p)
    PROVE  TypeOK'
  <1>1. CASE Deliver(p)
    BY <1>1 DEF TypeOK, Deliver, ExportIndex
  <1>2. CASE ApiError(p)
    BY <1>2, WorkerTypes DEF TypeOK, ApiError, Fault, ExportIndex
  <1>3. CASE ObjectGone(p)
    BY <1>3, WorkerTypes DEF TypeOK, ObjectGone, ExportIndex
  <1>4. CASE Create(p)
    <2>1. PICK parent \in {NoPid} \cup {store[q].pid : q \in live} :
             /\ store' = [store EXCEPT ![p] = NewProcess(parent)]
             /\ cache' = [cache EXCEPT ![p] = NewProcess(parent)]
      BY <1>4 DEF Create
    <2>2. parent \in Pids
      BY NoPidType, FieldReads DEF TypeOK
    <2>3. NewProcess(parent) \in ProcessObject
      BY <2>2, NewProcessType
    <2>4. QED
      BY <1>4, <2>1, <2>3 DEF TypeOK, Create, ExportIndex
  <1>5. CASE SendSignal(p)
    <2>1. PICK s \in UserSignals : store' = [store EXCEPT ![p].signal = s]
      BY <1>5 DEF SendSignal
    <2>2. s \in Signals \cup {NoSignal, BadSignal}
      BY ConstantsAssumption DEF ConstantsAssumption
    <2>3. store' \in [Procs -> ProcessObject]
      BY <2>1, <2>2, FieldTypes DEF TypeOK
    <2>4. QED
      BY <1>5, <2>3 DEF TypeOK, SendSignal, Spend, ExportIndex
  <1>6. CASE Delete(p)
    <2>1. store' \in [Procs -> ProcessObject] /\ live' \subseteq Procs
      BY <1>6, DeleteObjectsType DEF Delete
    <2>2. QED
      BY <1>6, <2>1 DEF TypeOK, Delete, Spend, ExportIndex
  <1>7. CASE MarkFailed(p)
    <2>1. store' \in [Procs -> ProcessObject]
      BY <1>7, FieldTypes DEF TypeOK, MarkFailed, Phases
    <2>2. QED
      BY <1>7, <2>1 DEF TypeOK, MarkFailed, Spend, ExportIndex
  <1>8. CASE ElapseTtl(p)
    BY <1>8 DEF TypeOK, ElapseTtl, ExportIndex
  <1>9. CASE JobProgress(p)
    <2>1. PICK i \in ExportIndex(p), move \in JobMoves :
             jobs' = [jobs EXCEPT ![p][i] = move[2]]
      BY <1>9 DEF JobProgress
    <2>2. move[2] \in JobStates
      BY DEF JobMoves, JobStates
    <2>3. /\ DOMAIN jobs' = Procs
          /\ \A q \in Procs : jobs'[q] \in [ExportIndex(q) -> JobStates]
      BY <2>1, <2>2 DEF TypeOK
    <2>4. QED
      BY <1>9, <2>3 DEF TypeOK, JobProgress, ExportIndex
  <1>10. QED
    BY <1>1, <1>2, <1>3, <1>4, <1>5, <1>6, <1>7, <1>8, <1>9 DEF Environment

\* The state of the controller and of the objects it manages is always well
\* typed: every phase, PID, effect and job state is one the code names.
THEOREM TypeCorrect == Spec => []TypeOK
  <1>1. Init => TypeOK
    <2>1. NewProcess(NoPid) \in ProcessObject
      BY NewProcessType, NoPidType
    <2>2. QED
      BY <2>1, WorkerTypes DEF Init, TypeOK, JobStates, LagStates, ExportIndex
  <1>2. TypeOK /\ [Next]_vars => TypeOK'
    <2> SUFFICES ASSUME TypeOK, [Next]_vars PROVE TypeOK'
      OBVIOUS
    <2>2. CASE \E p \in Procs : Reconcile(p) \/ Environment(p)
      BY <2>2, ReconcileType, EnvironmentType
    <2>3. CASE Crash
      BY <2>3, WorkerTypes DEF TypeOK, Crash, Fault, ExportIndex
    <2>4. CASE UNCHANGED vars
      BY <2>4 DEF TypeOK, vars, ExportIndex
    <2>5. QED
      BY <2>2, <2>3, <2>4 DEF Next
  <1>3. QED
    BY <1>1, <1>2, PTL DEF Spec

(***************************************************************************)
(* Safety of the controller, from whatever copies the watch cache hands    *)
(* out.  A reconcile that started behind its object (lag = "now") may      *)
(* overwrite what was decided since; the theorems say what no other step   *)
(* does, and that the damage ends with that reconcile: lag is "past" from  *)
(* the next start on, and everything but PidGuarded holds again.           *)
(*                                                                         *)
(* The inductive invariant is ReconcilesInFlight with Guarded: what a      *)
(* reconcile is about to write still fits its object, and an object past   *)
(* Pending has its finalizer.  Each action of p touches only p's part of   *)
(* it, except a delete, which may reach any object.  Kept(q) collects what *)
(* a step may not do to q's object.                                        *)
(***************************************************************************)

\* Phases that an object reaches only after its finalizer was installed.
Installed == Phases \ {"Pending", "Exiting", "Zombie", "Reaped"}

Guarded(q) ==
    q \in live /\ lag[q] = "never" =>
        /\ store[q].phase \in Installed => store[q].fin
        /\ store[q].pid # NoPid /\ store[q].phase # "Reaped" => store[q].fin

Safe(q) == (lag[q] # "now" => InFlight(q)) /\ Guarded(q)

StaysDown(q) == store[q].phase \in Draining => store'[q].phase \in Draining
KeepsPid(q)  == store[q].pid # NoPid => store'[q].pid = store[q].pid
Chains(q)    == store'[q].gen = IF store[q].phase # "Attested"
                                      /\ store'[q].phase = "Attested"
                                THEN store[q].gen + 1
                                ELSE store[q].gen
Stamped(q)   == store[q].phase # "Releasing" /\ store'[q].phase = "Releasing"
                  => store'[q].releasedFrom = store[q].phase
Kept(q) == q \in live \cap live' /\ lag'[q] # "now"
             => StaysDown(q) /\ KeepsPid(q) /\ Chains(q) /\ Stamped(q)

\* A step that leaves q's object, copy and reconcile alone keeps q safe.
LEMMA Untouched ==
    ASSUME NEW q \in Procs, Safe(q), store'[q] = store[q],
           cache'[q] = cache[q], worker'[q] = worker[q], lag'[q] = lag[q],
           q \in live' <=> q \in live
    PROVE  Safe(q)' /\ Kept(q)
  BY DEF Safe, InFlight, Guarded, SameBasis, Kept, StaysDown, KeepsPid,
         Chains, Stamped

\* So does one that leaves its phase, finalizer, PID, chain and stamp alone
\* and ends its reconcile.
LEMMA Ended ==
    ASSUME NEW q \in Procs, Safe(q), worker'[q].step = "idle",
           store'[q].phase = store[q].phase, store'[q].fin = store[q].fin,
           store'[q].pid = store[q].pid, store'[q].gen = store[q].gen,
           lag'[q] = "never" => lag[q] = "never",
           q \in live' => q \in live
    PROVE  Safe(q)' /\ Kept(q)
  BY DEF Safe, InFlight, Guarded, Kept, StaysDown, KeepsPid, Chains, Stamped

\* A start that is not behind works on what the object still is.
LEMMA Started ==
    ASSUME TypeOK, NEW p \in Procs, CanStart(p), lag' = LagAtStart(p),
           lag'[p] # "now"
    PROVE  /\ p \in live
           /\ worker[p].step = "idle"
           /\ SameBasis(p)
           /\ lag'[p] = "never" => lag[p] = "never"
  BY DEF CanStart, LagAtStart, TypeOK, Idle, At

\* A reconcile that goes on was not behind when it started.
LEMMA Continued ==
    ASSUME NEW p \in Procs, NEW step, Safe(p), Continue(p, step), lag'[p] # "now"
    PROVE  /\ p \in live
           /\ worker[p].step = step
           /\ InFlight(p)
           /\ lag' = lag
  BY DEF Continue, Safe

\* A reconcile that reaches a handler works on what the object still is.
LEMMA Dispatched ==
    ASSUME TypeOK, NEW p \in Procs, NEW ph, Safe(p), Dispatch(p, ph),
           lag'[p] # "now"
    PROVE  /\ p \in live
           /\ SameBasis(p)
           /\ lag'[p] = "never" => lag[p] = "never"
           /\ \/ store[p].phase = ph
              \/ ph \in {"Execing", "Running"} /\ store[p].phase = "Failed"
  <1>1. p \in live /\ cache[p].phase = ph
    BY DEF Dispatch
  <1>2. CASE Start(p)
    <2>1. CanStart(p) /\ lag' = LagAtStart(p)
      BY <1>2 DEF Start
    <2>2. QED
      BY <1>1, <2>1, Started DEF SameBasis
  <1>3. CASE Continue(p, "dispatch")
    <2>1. SameBasis(p) /\ lag' = lag
      BY <1>3, Continued DEF InFlight
    <2>2. QED
      BY <1>1, <2>1 DEF SameBasis
  <1>4. QED
    BY <1>2, <1>3 DEF Dispatch

\* A phase patch that ends a reconcile is safe if it is final, or the
\* finalizer is there, and if it neither attests nor opens an export window
\* and lifts no Process out of the draining phases.
LEMMA TransitionSafe ==
    ASSUME TypeOK, NEW p \in Procs, NEW next \in Phases, p \in live, Safe(p),
           Transition(p, next),
           lag'[p] = "never" => lag[p] = "never" /\ (next \in Draining \/ store[p].fin),
           next # "Attested",
           next # "Releasing" \/ store[p].releasedFrom = store[p].phase,
           store[p].phase \in Draining => next \in Draining,
           store[p].phase = "Reaped" => next = "Reaped"
    PROVE  Safe(p)' /\ Kept(p)
  <1>1. store[p] \in ProcessObject
    BY DEF TypeOK
  <1>2. store'[p] = [store[p] EXCEPT !.phase = next]
    BY DEF Transition, TypeOK
  <1>3. /\ store'[p].phase = next
        /\ store'[p].fin = store[p].fin
        /\ store'[p].pid = store[p].pid
        /\ store'[p].gen = store[p].gen
        /\ store'[p].releasedFrom = store[p].releasedFrom
    BY <1>1, <1>2 DEF ProcessObject
  <1>4. worker'[p].step = "idle" /\ live' = live
    BY DEF Transition, TypeOK, Idle, At
  <1>5. InFlight(p)'
    BY <1>4 DEF InFlight
  <1>6. Guarded(p)'
    BY <1>3, <1>4 DEF Guarded, Safe, Draining, Installed
  <1>7. Kept(p)
    BY <1>3, <1>4 DEF Kept, StaysDown, KeepsPid, Chains, Stamped
  <1>8. QED
    BY <1>5, <1>6, <1>7 DEF Safe

\* Reading the gate of a Process that is still Attested or Failed is safe.
LEMMA BeginReleaseSafe ==
    ASSUME TypeOK, NEW p \in Procs, p \in live, Safe(p), BeginRelease(p),
           lag'[p] = "never" => lag[p] = "never",
           store[p].phase \in {"Attested", "Failed"}
    PROVE  Safe(p)' /\ Kept(p)
  <1>1. /\ worker'[p].step = "stamp"
        /\ worker'[p].effect = store[p].phase
        /\ UNCHANGED <<live, store, cache>>
    BY DEF BeginRelease, TypeOK, At
  <1>2. InFlight(p)'
    BY <1>1 DEF InFlight
  <1>3. QED
    BY <1>1, <1>2 DEF Safe, Guarded, Kept, StaysDown, KeepsPid, Chains, Stamped

\* Stamping it names the phase the object still has.
LEMMA StampSafe ==
    ASSUME TypeOK, NEW p \in Procs, Safe(p), lag'[p] # "now", StampGate(p)
    PROVE  Safe(p)' /\ Kept(p)
  <1>0. store[p] \in ProcessObject
    BY DEF TypeOK
  <1>1. /\ p \in live /\ lag' = lag
        /\ store[p].phase \in {"Attested", "Failed"}
        /\ worker[p].effect = store[p].phase
    BY Continued DEF StampGate, InFlight
  <1>2. ReleasedFromLabel(worker[p].effect) = store[p].phase
    BY <1>1 DEF ReleasedFromLabel
  <1>3. store'[p] = [store[p] EXCEPT !.releasedFrom = store[p].phase]
    BY <1>2 DEF StampGate, TypeOK
  <1>4. /\ store'[p].phase = store[p].phase
        /\ store'[p].fin = store[p].fin
        /\ store'[p].pid = store[p].pid
        /\ store'[p].gen = store[p].gen
        /\ store'[p].releasedFrom = store[p].phase
    BY <1>0, <1>3 DEF ProcessObject
  <1>5. worker'[p].step = "release" /\ live' = live
    BY DEF StampGate, TypeOK, At
  <1>6. InFlight(p)'
    BY <1>1, <1>4, <1>5 DEF InFlight
  <1>7. QED
    BY <1>1, <1>4, <1>5, <1>6 DEF Safe, Guarded, Kept, StaysDown, KeepsPid,
       Chains, Stamped

\* signals::apply sends only a Process in service back up.
LEMMA EffectDerived ==
    ASSUME NEW ph \in Phases, NEW s, NEW st
    PROVE  LET e == ApplySignal(ph, s, st)
           IN  \/ e \in Stops
               \/ e \in Revivals /\ ph \in {"Running", "Attested"}
  <1>1. SighupTarget(st) \in {"Noop", "Exiting", "Reconverging"}
    BY DEF SighupTarget
  <1>2. CASE s = "SIGHUP" /\ IsRunning(ph)
    BY <1>1, <1>2 DEF ApplySignal, Stops, Revivals, IsRunning
  <1>3. CASE ~(s = "SIGHUP" /\ IsRunning(ph))
    BY <1>3 DEF ApplySignal, Stops, Revivals, IsRunning
  <1>4. QED
    BY <1>2, <1>3

\* Draining a signal: the effect fits the phase it was derived from, also
\* when a failure was recorded since.
LEMMA IngestSafe ==
    ASSUME TypeOK, NEW p \in Procs, Safe(p), lag'[p] # "now",
           IngestSignal(p) \/ IngestFails(p)
    PROVE  Safe(p)' /\ Kept(p)
  <1>0. CanStart(p) /\ lag' = LagAtStart(p)
    BY DEF IngestSignal, IngestFails, Start
  <1>1. /\ p \in live
        /\ SameBasis(p)
        /\ lag'[p] = "never" => lag[p] = "never"
        /\ IsAlive(cache[p].phase)
        /\ store[p] \in ProcessObject
        /\ cache[p].phase \in Phases
    BY <1>0, Started, FieldReads DEF IngestSignal, IngestFails, HasSignal, TypeOK
  <1>2. live' = live /\ cache' = cache
    BY DEF IngestSignal, IngestFails
  <1>3. \/ store'[p] = store[p]
        \/ store'[p] = [store[p] EXCEPT !.signal = NoSignal]
    BY DEF IngestSignal, IngestFails, TypeOK
  <1>4. /\ store'[p].phase = store[p].phase
        /\ store'[p].fin = store[p].fin
        /\ store'[p].pid = store[p].pid
        /\ store'[p].gen = store[p].gen
        /\ store'[p].releasedFrom = store[p].releasedFrom
    BY <1>1, <1>3 DEF ProcessObject
  <1>5. Guarded(p)' /\ Kept(p)
    BY <1>1, <1>2, <1>4 DEF Guarded, Safe, Kept, StaysDown, KeepsPid, Chains, Stamped
  <1>6. CASE worker'[p] = At("dispatch")
    <2>1. worker'[p].step = "dispatch"
      BY <1>6 DEF At
    <2>2. SameBasis(p)'
      BY <1>1, <1>2, <1>4 DEF SameBasis
    <2>3. InFlight(p)'
      BY <1>1, <1>2, <2>1, <2>2 DEF InFlight
    <2>4. QED
      BY <1>5, <2>3 DEF Safe
  <1>7. CASE worker'[p] = [At("effect") EXCEPT !.effect =
                             ApplySignal(cache[p].phase, cache[p].signal, Sighup[p])]
    <2>1. /\ worker'[p].step = "effect"
          /\ worker'[p].effect
               = ApplySignal(cache[p].phase, cache[p].signal, Sighup[p])
      BY <1>7 DEF At
    <2>2. \/ worker'[p].effect \in Stops
          \/ /\ worker'[p].effect \in Revivals
             /\ cache[p].phase \in {"Running", "Attested"}
      BY <1>1, <2>1, EffectDerived
    <2>3. /\ store[p].phase \notin {"Zombie", "Reaped"}
          /\ cache[p].phase \in {"Running", "Attested"} =>
                store[p].phase \in {"Running", "Attested", "Failed"}
      BY <1>1 DEF SameBasis, IsAlive
    <2>4. InFlight(p)'
      BY <1>4, <2>1, <2>2, <2>3 DEF InFlight
    <2>5. QED
      BY <1>5, <2>4 DEF Safe
  <1>8. QED
    BY <1>6, <1>7 DEF IngestSignal, IngestFails, TypeOK

\* consume_effect: a late effect never revives a Process that is draining.
LEMMA ConsumeSafe ==
    ASSUME TypeOK, NEW p \in Procs, Safe(p), lag'[p] # "now", ConsumeEffect(p)
    PROVE  Safe(p)' /\ Kept(p)
  <1> DEFINE e == worker[p].effect
  <1>1. /\ p \in live
        /\ live' = live
        /\ lag' = lag
        /\ InFlight(p)
        /\ store[p] \in ProcessObject
        /\ store'[p] = AfterEffect(store[p], e)
        /\ worker'[p].step = "idle"
    BY Continued DEF ConsumeEffect, TypeOK, Idle, At
  <1>2. /\ store[p].phase \notin {"Zombie", "Reaped"}
        /\ \/ e \in Stops
           \/ e \in Revivals /\ store[p].phase \in {"Running", "Attested", "Failed"}
    BY <1>1, Continued DEF ConsumeEffect, InFlight
  <1>3. /\ store'[p].fin = store[p].fin
        /\ store'[p].pid = store[p].pid
        /\ store'[p].gen = store[p].gen
        /\ store'[p].releasedFrom = store[p].releasedFrom
    BY <1>1, <1>2 DEF AfterEffect, ProcessObject, Stops, Revivals
  <1>4. \/ store'[p].phase = store[p].phase
        \/ store'[p].phase \in {"Exiting", "Reaped"}
        \/ /\ store[p].phase \in {"Running", "Attested", "Failed"}
           /\ store'[p].phase \in {"Running", "Reconverging"}
    BY <1>1, <1>2 DEF AfterEffect, ProcessObject, Stops, Revivals
  <1>5. InFlight(p)'
    BY <1>1 DEF InFlight
  <1>6. Guarded(p)'
    BY <1>1, <1>2, <1>3, <1>4 DEF Guarded, Safe, Installed, Phases
  <1>7. Kept(p)
    BY <1>1, <1>2, <1>3, <1>4
       DEF Kept, StaysDown, KeepsPid, Chains, Stamped, Draining
  <1>8. QED
    BY <1>5, <1>6, <1>7 DEF Safe

\* The steps of p's reconcile that end with one phase patch.
LEMMA PatchSafe ==
    ASSUME TypeOK, NEW p \in Procs, Safe(p), lag'[p] # "now",
           \/ PatchForking(p) \/ PatchExecing(p) \/ HandleExecing(p)
           \/ ExpireRunning(p) \/ PatchReleasing(p) \/ DetectDrift(p)
           \/ HandleReconverging(p) \/ HandleExiting(p) \/ HandleZombie(p)
    PROVE  Safe(p)' /\ Kept(p)
  <1>0. {"Forking", "Execing", "Running", "Exiting", "Reconverging",
         "Releasing", "Zombie", "Reaped"} \subseteq Phases
    BY DEF Phases
  <1>1. p \in live /\ lag[p] = "never" /\ store[p].phase \in {"Forking",
          "Execing", "Running", "Attested", "Reconverging", "Failed"}
            => store[p].fin
    BY DEF Safe, Guarded, Installed, Phases
  <1>2. CASE PatchForking(p)
    <2>1. /\ p \in live /\ lag' = lag
          /\ store[p].phase = "Pending" /\ store[p].fin
      BY <1>2, Continued DEF PatchForking, InFlight
    <2>2. Transition(p, "Forking")
      BY <1>2 DEF PatchForking
    <2>3. QED
      BY <1>0, <2>1, <2>2, TransitionSafe DEF Draining
  <1>3. CASE PatchExecing(p)
    <2>1. p \in live /\ lag' = lag /\ store[p].phase = "Forking"
      BY <1>3, Continued DEF PatchExecing, InFlight
    <2>2. Transition(p, "Execing")
      BY <1>3 DEF PatchExecing
    <2>3. QED
      BY <1>0, <1>1, <2>1, <2>2, TransitionSafe DEF Draining
  <1>4. CASE PatchReleasing(p)
    <2>1. /\ p \in live /\ lag' = lag
          /\ store[p].phase \in {"Attested", "Failed"}
          /\ store[p].releasedFrom = store[p].phase
      BY <1>4, Continued DEF PatchReleasing, InFlight
    <2>2. Transition(p, "Releasing")
      BY <1>4 DEF PatchReleasing
    <2>3. QED
      BY <1>0, <1>1, <2>1, <2>2, TransitionSafe DEF Draining
  <1>5. CASE HandleExecing(p)
    <2>1. /\ p \in live /\ store[p].phase \in {"Execing", "Failed"}
          /\ lag'[p] = "never" => lag[p] = "never"
      BY <1>5, Dispatched DEF HandleExecing
    <2>2. Transition(p, "Running")
      BY <1>5 DEF HandleExecing
    <2>3. QED
      BY <1>0, <1>1, <2>1, <2>2, TransitionSafe DEF Draining
  <1>6. CASE ExpireRunning(p)
    <2>1. /\ p \in live /\ store[p].phase \in {"Running", "Failed"}
          /\ lag'[p] = "never" => lag[p] = "never"
      BY <1>6, Dispatched DEF ExpireRunning
    <2>2. Transition(p, "Exiting")
      BY <1>6 DEF ExpireRunning
    <2>3. QED
      BY <1>0, <2>1, <2>2, TransitionSafe DEF Draining
  <1>7. CASE DetectDrift(p)
    <2>1. /\ p \in live /\ store[p].phase = "Attested"
          /\ lag'[p] = "never" => lag[p] = "never"
      BY <1>7, Dispatched DEF DetectDrift
    <2>2. Transition(p, "Reconverging")
      BY <1>7 DEF DetectDrift
    <2>3. QED
      BY <1>0, <1>1, <2>1, <2>2, TransitionSafe DEF Draining
  <1>8. CASE HandleReconverging(p)
    <2>1. /\ p \in live /\ store[p].phase = "Reconverging"
          /\ lag'[p] = "never" => lag[p] = "never"
      BY <1>8, Dispatched DEF HandleReconverging
    <2>2. Transition(p, "Execing")
      BY <1>8 DEF HandleReconverging
    <2>3. QED
      BY <1>0, <1>1, <2>1, <2>2, TransitionSafe DEF Draining
  <1>9. CASE HandleExiting(p)
    <2>1. /\ p \in live /\ store[p].phase = "Exiting"
          /\ lag'[p] = "never" => lag[p] = "never"
      BY <1>9, Dispatched DEF HandleExiting
    <2>2. Transition(p, "Zombie")
      BY <1>9 DEF HandleExiting
    <2>3. QED
      BY <1>0, <2>1, <2>2, TransitionSafe DEF Draining
  <1>10. CASE HandleZombie(p)
    <2>1. /\ p \in live /\ store[p].phase = "Zombie"
          /\ lag'[p] = "never" => lag[p] = "never"
      BY <1>10, Dispatched DEF HandleZombie
    <2>2. Transition(p, "Reaped")
      BY <1>10 DEF HandleZombie
    <2>3. QED
      BY <1>0, <2>1, <2>2, TransitionSafe DEF Draining
  <1>11. QED
    BY <1>2, <1>3, <1>4, <1>5, <1>6, <1>7, <1>8, <1>9, <1>10

\* The handlers that decide between two outcomes.
LEMMA BranchSafe ==
    ASSUME TypeOK, NEW p \in Procs, Safe(p), lag'[p] # "now",
           HandleAttested(p) \/ HandleFailed(p) \/ HandleReleasing(p)
    PROVE  Safe(p)' /\ Kept(p)
  <1>0. {"Exiting", "Zombie"} \subseteq Phases
    BY DEF Phases
  <1>1. CASE HandleAttested(p)
    <2>1. /\ p \in live /\ store[p].phase = "Attested"
          /\ lag'[p] = "never" => lag[p] = "never"
      BY <1>1, Dispatched DEF HandleAttested
    <2>2. BeginRelease(p) \/ Transition(p, "Exiting")
      BY <1>1 DEF HandleAttested
    <2>3. QED
      BY <1>0, <2>1, <2>2, BeginReleaseSafe, TransitionSafe DEF Draining
  <1>2. CASE HandleFailed(p)
    <2>1. /\ p \in live /\ store[p].phase = "Failed"
          /\ lag'[p] = "never" => lag[p] = "never"
      BY <1>2, Dispatched DEF HandleFailed
    <2>2. BeginRelease(p) \/ Transition(p, "Zombie")
      BY <1>2 DEF HandleFailed
    <2>3. QED
      BY <1>0, <2>1, <2>2, BeginReleaseSafe, TransitionSafe DEF Draining
  <1>3. CASE HandleReleasing(p)
    <2>1. /\ p \in live /\ store[p].phase = "Releasing"
          /\ lag'[p] = "never" => lag[p] = "never"
      BY <1>3, Dispatched DEF HandleReleasing
    <2>2. \/ \E next \in {"Exiting", "Zombie"} : Transition(p, next)
          \/ /\ worker' = [worker EXCEPT ![p] = Idle]
             /\ UNCHANGED <<live, store, cache>>
      BY <1>3 DEF HandleReleasing, AdvanceOutOfReleasing
    <2>3. CASE \E next \in {"Exiting", "Zombie"} : Transition(p, next)
      BY <1>0, <2>1, <2>3, TransitionSafe DEF Draining
    <2>4. CASE /\ worker' = [worker EXCEPT ![p] = Idle]
               /\ UNCHANGED <<live, store, cache>>
      <3>1. worker'[p].step = "idle"
        BY <2>4 DEF TypeOK, Idle, At
      <3>2. QED
        BY <2>1, <2>4, <3>1, Ended
    <2>5. QED
      BY <2>2, <2>3, <2>4
  <1>4. QED
    BY <1>1, <1>2, <1>3

\* Declaring, forking and attesting.
LEMMA RiseSafe ==
    ASSUME TypeOK, NEW p \in Procs, Safe(p), lag'[p] # "now",
           \/ HandlePending(p) \/ HandleForking(p) \/ BumpSequence(p)
           \/ PatchPid(p) \/ AdvanceToAttested(p)
    PROVE  Safe(p)' /\ Kept(p)
  <1>0. store[p] \in ProcessObject /\ cache[p] \in ProcessObject
    BY DEF TypeOK
  <1>1. CASE HandlePending(p)
    <2>1. p \in live /\ store[p].phase = "Pending" /\ SameBasis(p)
      BY <1>1, Dispatched DEF HandlePending
    <2>2. store'[p] = [store[p] EXCEPT !.fin = TRUE]
      <3>1. store'[p] = [store[p] EXCEPT !.fin = store[p].fin \/ ~cache[p].fin]
        BY <1>1 DEF HandlePending, TypeOK
      <3>2. (store[p].fin \/ ~cache[p].fin) = TRUE
        BY <1>0, <2>1, FieldReads DEF SameBasis
      <3>3. QED
        BY <3>1, <3>2
    <2>3. /\ store'[p].phase = "Pending"
          /\ store'[p].fin
          /\ store'[p].pid = store[p].pid
          /\ store'[p].gen = store[p].gen
          /\ worker'[p].step = "declare"
          /\ live' = live
      BY <1>0, <1>1, <2>1, <2>2 DEF ProcessObject, HandlePending, TypeOK, At
    <2>4. InFlight(p)'
      BY <2>3 DEF InFlight
    <2>5. QED
      BY <2>1, <2>3, <2>4 DEF Safe, Guarded, Kept, StaysDown, KeepsPid,
                        Chains, Stamped, Draining
  <1>2. CASE HandleForking(p)
    <2>1. /\ p \in live /\ store[p].phase = "Forking" /\ SameBasis(p)
          /\ lag'[p] = "never" => lag[p] = "never"
      BY <1>2, Dispatched DEF HandleForking
    <2>2. /\ \/ worker'[p].step = "bump" /\ store[p].pid = NoPid
             \/ worker'[p].step = "exec"
          /\ UNCHANGED <<live, store, cache>>
      BY <1>2, <2>1 DEF HandleForking, SameBasis, TypeOK, At
    <2>3. InFlight(p)'
      BY <2>1, <2>2 DEF InFlight
    <2>4. QED
      BY <2>1, <2>2, <2>3 DEF Safe, Guarded, Kept, StaysDown, KeepsPid,
                        Chains, Stamped
  <1>3. CASE BumpSequence(p)
    <2>1. /\ worker'[p].step = "pid"
          /\ UNCHANGED <<live, store, cache>>
      BY <1>3 DEF BumpSequence, TypeOK, WorkerState
    <2>2. p \in live /\ lag' = lag /\ store[p].phase = "Forking" /\ store[p].pid = NoPid
      BY <1>3, Continued DEF BumpSequence, InFlight
    <2>3. InFlight(p)'
      BY <2>1, <2>2 DEF InFlight
    <2>4. QED
      BY <2>1, <2>2, <2>3 DEF Safe, Guarded, Kept, StaysDown, KeepsPid, Chains,
                  Stamped
  <1>4. CASE PatchPid(p)
    <2>1. p \in live /\ lag' = lag /\ store[p].phase = "Forking" /\ store[p].pid = NoPid
      BY <1>4, Continued DEF PatchPid, InFlight
    <2>2. lag[p] = "never" => store[p].fin
      BY <2>1 DEF Safe, Guarded, Installed, Phases
    <2>3. store'[p] = [store[p] EXCEPT !.pid =
                         AllocatePid(p, cache[p].parent, worker[p].seq)]
      BY <1>4 DEF PatchPid, TypeOK
    <2>4. /\ store'[p].phase = store[p].phase
          /\ store'[p].fin = store[p].fin
          /\ store'[p].gen = store[p].gen
          /\ worker'[p].step = "exec"
          /\ live' = live
      BY <1>0, <1>4, <2>3 DEF ProcessObject, PatchPid, TypeOK, At
    <2>5. InFlight(p)'
      BY <2>1, <2>4 DEF InFlight
    <2>6. QED
      BY <2>1, <2>2, <2>4, <2>5 DEF Safe, Guarded, Kept, StaysDown,
                              KeepsPid, Chains, Stamped
  <1>5. CASE AdvanceToAttested(p)
    <2>1. /\ p \in live
          /\ store[p].phase \in {"Running", "Failed"}
          /\ cache[p].gen = store[p].gen
          /\ lag'[p] = "never" => lag[p] = "never"
      BY <1>5, Dispatched DEF AdvanceToAttested, SameBasis
    <2>2. lag[p] = "never" => store[p].fin
      BY <2>1 DEF Safe, Guarded, Installed, Phases
    <2>3. store'[p] = [store[p] EXCEPT !.phase = "Attested",
                                       !.gen = store[p].gen + 1]
      BY <1>5, <2>1 DEF AdvanceToAttested, TypeOK
    <2>4. /\ store'[p].phase = "Attested"
          /\ store'[p].fin = store[p].fin
          /\ store'[p].pid = store[p].pid
          /\ store'[p].gen = store[p].gen + 1
          /\ worker'[p].step = "idle"
          /\ live' = live
      BY <1>0, <1>5, <2>3 DEF ProcessObject, AdvanceToAttested, TypeOK, Idle, At
    <2>5. InFlight(p)'
      BY <2>4 DEF InFlight
    <2>6. QED
      BY <2>1, <2>2, <2>4, <2>5 DEF Safe, Guarded, Kept, StaysDown,
                              KeepsPid, Chains, Stamped, Draining
  <1>6. QED
    BY <1>1, <1>2, <1>3, <1>4, <1>5

\* Deleting objects, by a user or by a parent's cascade, changes nothing that
\* a reconcile in flight relies on.
LEMMA DeleteSafe ==
    ASSUME TypeOK, NEW doomed, DeleteObjects(doomed), NEW q \in Procs, Safe(q),
           cache'[q] = cache[q], lag'[q] = lag[q],
           worker'[q] = worker[q]
    PROVE  Safe(q)' /\ Kept(q)
  <1>1. store[q] \in ProcessObject
    BY DEF TypeOK
  <1>2. /\ store'[q].phase = store[q].phase
        /\ store'[q].fin = store[q].fin
        /\ store'[q].pid = store[q].pid
        /\ store'[q].gen = store[q].gen
        /\ store'[q].releasedFrom = store[q].releasedFrom
    BY <1>1 DEF DeleteObjects, ProcessObject
  <1>3. q \in live' => q \in live
    BY DEF DeleteObjects
  <1>4. SameBasis(q) => SameBasis(q)'
    BY <1>2 DEF SameBasis
  <1>5. InFlight(q) => InFlight(q)'
    BY <1>2, <1>4 DEF InFlight
  <1>6. QED
    BY <1>2, <1>3, <1>5 DEF Safe, Guarded, Kept, StaysDown, KeepsPid, Chains,
                            Stamped

\* So does a cascade, which moves on to the next child.
LEMMA DeleteChildSafe ==
    ASSUME TypeOK, NEW p \in Procs, DeleteChild(p), NEW q \in Procs, Safe(q)
    PROVE  Safe(q)' /\ Kept(q)
  <1>0. store[q] \in ProcessObject /\ worker[q] \in WorkerState
    BY DEF TypeOK
  <1>1. PICK c \in worker[p].todo :
           /\ worker' = [worker EXCEPT ![p].todo = @ \ {c}]
           /\ DeleteObjects({c} \cap live) \/ UNCHANGED <<live, store>>
    BY DEF DeleteChild
  <1>2. cache' = cache /\ lag' = lag
    BY DEF DeleteChild
  <1>3. worker'[q].step = worker[q].step /\ worker'[q].effect = worker[q].effect
    BY <1>0, <1>1 DEF WorkerState, TypeOK
  <1>4. /\ store'[q].phase = store[q].phase
        /\ store'[q].fin = store[q].fin
        /\ store'[q].pid = store[q].pid
        /\ store'[q].gen = store[q].gen
        /\ store'[q].releasedFrom = store[q].releasedFrom
    BY <1>0, <1>1 DEF DeleteObjects, ProcessObject
  <1>5. q \in live' => q \in live
    BY <1>1 DEF DeleteObjects
  <1>6. SameBasis(q) => SameBasis(q)'
    BY <1>2, <1>4 DEF SameBasis
  <1>7. InFlight(q) => InFlight(q)'
    BY <1>2, <1>3, <1>4, <1>6 DEF InFlight
  <1>8. QED
    BY <1>2, <1>4, <1>5, <1>7 DEF Safe, Guarded, Kept, StaysDown, KeepsPid,
                                  Chains, Stamped

\* A step of p's reconcile leaves the other Processes alone, unless it
\* deletes a child.
LEMMA OthersUntouched ==
    ASSUME TypeOK, NEW p \in Procs, Reconcile(p), ~DeleteChild(p),
           NEW q \in Procs, q # p
    PROVE  /\ store'[q] = store[q]
           /\ cache'[q] = cache[q]
           /\ worker'[q] = worker[q]
           /\ lag'[q] = lag[q]
           /\ q \in live' <=> q \in live
  <1>1. lag'[q] = lag[q]
    BY Bookkeeping DEF LagAtStart, TypeOK
  <1>2. CASE \/ ForceExiting(p) \/ IngestSignal(p) \/ IngestFails(p)
             \/ ConsumeEffect(p) \/ HandlerWaits(p) \/ HandlePending(p)
             \/ HandleForking(p) \/ BumpSequence(p) \/ PatchPid(p)
    BY <1>1, <1>2 DEF TypeOK, ForceExiting, IngestSignal, IngestFails,
       ConsumeEffect, HandlerWaits, HandlePending, HandleForking, BumpSequence,
       PatchPid
  <1>3. CASE \/ PatchForking(p) \/ PatchExecing(p) \/ HandleExecing(p)
             \/ ExpireRunning(p) \/ PatchReleasing(p) \/ DetectDrift(p)
             \/ HandleReconverging(p) \/ HandleExiting(p) \/ HandleZombie(p)
    BY <1>1, <1>3 DEF TypeOK, PatchForking, PatchExecing, HandleExecing,
       ExpireRunning, PatchReleasing, DetectDrift, HandleReconverging,
       HandleExiting, HandleZombie, Transition
  <1>4. CASE \/ HandleAttested(p) \/ HandleFailed(p) \/ HandleReleasing(p)
             \/ AdvanceToAttested(p) \/ HandleReaped(p)
    BY <1>1, <1>4 DEF TypeOK, HandleAttested, HandleFailed, HandleReleasing,
       AdvanceToAttested, HandleReaped, AdvanceOutOfReleasing, BeginRelease,
       Transition
  <1>5. CASE StampGate(p) \/ StampRefused(p) \/ CascadeDelete(p) \/ CascadeDone(p)
    BY <1>1, <1>5 DEF TypeOK, StampGate, StampRefused, CascadeDelete, CascadeDone
  <1>6. QED
    BY <1>2, <1>3, <1>4, <1>5 DEF Reconcile

\* The other steps of p's reconcile: ending it, listing children, reaping.
LEMMA RestSafe ==
    ASSUME TypeOK, NEW p \in Procs, Safe(p), lag'[p] # "now",
           \/ ForceExiting(p) \/ HandlerWaits(p) \/ StampRefused(p)
           \/ CascadeDelete(p) \/ CascadeDone(p) \/ HandleReaped(p)
    PROVE  Safe(p)' /\ Kept(p)
  <1>0. store[p] \in ProcessObject
    BY DEF TypeOK
  <1>1. CASE ForceExiting(p)
    <2>1. /\ p \in live
          /\ worker[p].step = "idle"
          /\ SameBasis(p) /\ IsAlive(cache[p].phase)
          /\ lag'[p] = "never" => lag[p] = "never"
      BY <1>1, Started DEF ForceExiting, Start, DeletionForced
    <2>2. store'[p] = [store[p] EXCEPT !.phase = "Exiting"]
      BY <1>1 DEF ForceExiting, TypeOK
    <2>3. /\ store'[p].phase = "Exiting"
          /\ store'[p].fin = store[p].fin
          /\ store'[p].pid = store[p].pid
          /\ store'[p].gen = store[p].gen
          /\ worker'[p].step = "idle"
          /\ live' = live
      BY <1>0, <1>1, <2>1, <2>2 DEF ProcessObject, ForceExiting
    <2>4. store[p].phase # "Reaped"
      BY <2>1 DEF SameBasis, IsAlive
    <2>5. InFlight(p)'
      BY <2>3 DEF InFlight
    <2>6. Guarded(p)'
      BY <2>1, <2>3, <2>4 DEF Safe, Guarded, Installed
    <2>7. QED
      BY <2>3, <2>5, <2>6 DEF Safe, Kept, StaysDown, KeepsPid, Chains, Stamped,
                              Draining
  <1>2. CASE HandlerWaits(p) \/ StampRefused(p) \/ CascadeDone(p)
    <2>1. /\ worker'[p].step = "idle"
          /\ UNCHANGED <<live, store, lag>>
      BY <1>2 DEF HandlerWaits, StampRefused, CascadeDone, Continue, TypeOK, Idle, At
    <2>2. QED
      BY <2>1, Ended
  <1>3. CASE CascadeDelete(p)
    <2>1. lag'[p] = "never" => lag[p] = "never"
      BY <1>3, Dispatched DEF CascadeDelete
    <2>2. worker'[p].step = "cascade" /\ UNCHANGED <<live, store>>
      BY <1>3 DEF CascadeDelete, TypeOK, At
    <2>3. InFlight(p)'
      BY <2>2 DEF InFlight
    <2>4. QED
      BY <2>1, <2>2, <2>3 DEF Safe, Guarded, Kept, StaysDown, KeepsPid, Chains,
                              Stamped
  <1>4. CASE HandleReaped(p)
    <2>1. p \in live /\ store[p].phase = "Reaped"
      BY <1>4, Dispatched DEF HandleReaped
    <2>2. store'[p] = [store[p] EXCEPT !.fin = FALSE]
      BY <1>4 DEF HandleReaped, TypeOK
    <2>3. /\ store'[p].phase = "Reaped"
          /\ store'[p].pid = store[p].pid
          /\ store'[p].gen = store[p].gen
          /\ worker'[p].step = "idle"
      BY <1>0, <1>4, <2>1, <2>2 DEF ProcessObject, HandleReaped, TypeOK, Idle, At
    <2>4. InFlight(p)'
      BY <2>3 DEF InFlight
    <2>5. QED
      BY <2>1, <2>3, <2>4 DEF Safe, Guarded, Kept, StaysDown, KeepsPid, Chains,
                              Stamped, Draining, Installed
  <1>5. QED
    BY <1>1, <1>2, <1>3, <1>4

\* A step of p's reconcile keeps every Process safe.
LEMMA ReconcileSafe ==
    ASSUME TypeOK, NEW p \in Procs, Reconcile(p), \A q \in Procs : Safe(q)
    PROVE  \A q \in Procs : Safe(q)' /\ Kept(q)
  <1>1. CASE DeleteChild(p)
    BY <1>1, DeleteChildSafe
  <1>2. CASE ~DeleteChild(p)
    <2>1. ASSUME NEW q \in Procs, q # p
          PROVE  Safe(q)' /\ Kept(q)
      BY <1>2, <2>1, OthersUntouched, Untouched
    <2>2. CASE lag'[p] = "now"
      <3>1. Safe(p)' /\ Kept(p)
        BY <2>2 DEF Safe, Guarded, Kept
      <3>2. QED
        BY <2>1, <3>1
    <2>3. CASE lag'[p] # "now"
      <3>1. Safe(p)' /\ Kept(p)
        BY <1>2, <2>3, IngestSafe, ConsumeSafe, PatchSafe, BranchSafe, RiseSafe,
           StampSafe, RestSafe DEF Reconcile
      <3>2. QED
        BY <2>1, <3>1
    <2>4. QED
      BY <2>2, <2>3
  <1>3. QED
    BY <1>1, <1>2

\* Users, the watch, the clock, Jobs and faults keep every Process safe.
LEMMA EnvironmentSafe ==
    ASSUME TypeOK, NEW p \in Procs, Environment(p), \A q \in Procs : Safe(q)
    PROVE  \A q \in Procs : Safe(q)' /\ Kept(q)
  <1>l. lag' = lag
    BY DEF Environment, Deliver, ApiError, ObjectGone, Create, SendSignal,
           Delete, MarkFailed, ElapseTtl, JobProgress
  <1>1. CASE Delete(p)
    <2>1. TAKE q \in Procs
    <2>2. DeleteObjects({p}) /\ cache' = cache /\ worker' = worker
      BY <1>1 DEF Delete
    <2>3. QED
      BY <1>l, <2>2, DeleteSafe
  <1>2. CASE ~Delete(p)
    <2>1. ASSUME NEW q \in Procs, q # p
          PROVE  Safe(q)' /\ Kept(q)
      <3>1. /\ store'[q] = store[q]
            /\ cache'[q] = cache[q]
            /\ worker'[q] = worker[q]
            /\ q \in live' <=> q \in live
        BY <1>2, <2>1
           DEF TypeOK, Environment, Deliver, ApiError, ObjectGone, Create,
               SendSignal, MarkFailed, ElapseTtl, JobProgress
      <3>2. QED
        BY <1>l, <3>1, Untouched
    <2>2. Safe(p)' /\ Kept(p)
      <3>0. store[p] \in ProcessObject /\ Safe(p)
        BY DEF TypeOK
      <3>1. CASE Deliver(p)
        <4>1. UNCHANGED <<live, store, worker>> /\ worker[p].step # "dispatch"
          BY <3>1 DEF Deliver
        <4>2. InFlight(p) => InFlight(p)'
          BY <4>1 DEF InFlight
        <4>3. QED
          BY <1>l, <3>0, <4>1, <4>2 DEF Safe, Guarded, Kept, StaysDown,
             KeepsPid, Chains, Stamped
      <3>2. CASE ApiError(p) \/ ObjectGone(p)
        <4>1. /\ worker'[p].step = "idle"
              /\ UNCHANGED <<live, store>>
          BY <3>2 DEF ApiError, ObjectGone, TypeOK, Idle, At
        <4>2. QED
          BY <1>l, <3>0, <4>1, Ended
      <3>3. CASE Create(p)
        <4>1. PICK parent : /\ store'[p] = NewProcess(parent)
                            /\ cache'[p] = NewProcess(parent)
          BY <3>3 DEF Create, TypeOK
        <4>2. /\ store'[p].phase = "Pending" /\ store[p].phase = "Pending"
              /\ ~store'[p].fin /\ ~store[p].fin
              /\ store'[p].pid = NoPid /\ store[p].pid = NoPid
              /\ store'[p].releasedFrom = store[p].releasedFrom
              /\ cache'[p] = store'[p]
          BY <3>3, <4>1 DEF NewProcess, Create, Unborn
        <4>3. p \notin live /\ worker' = worker
          BY <3>3 DEF Create, Unborn
        <4>4. SameBasis(p)' /\ IsAlive(cache[p].phase)'
          BY <4>2 DEF SameBasis, IsAlive
        <4>5. InFlight(p) => InFlight(p)'
          BY <4>2, <4>3, <4>4 DEF InFlight
        <4>6. QED
          BY <1>l, <3>0, <4>2, <4>3, <4>5 DEF Safe, Guarded, Kept, Installed
      <3>4. CASE SendSignal(p)
        <4>1. PICK s : store'[p] = [store[p] EXCEPT !.signal = s]
          BY <3>4 DEF SendSignal, TypeOK
        <4>2. /\ store'[p].phase = store[p].phase
              /\ store'[p].fin = store[p].fin
              /\ store'[p].pid = store[p].pid
              /\ store'[p].gen = store[p].gen
              /\ store'[p].releasedFrom = store[p].releasedFrom
          BY <3>0, <4>1 DEF ProcessObject
        <4>3. UNCHANGED <<live, cache, worker>>
          BY <3>4 DEF SendSignal
        <4>4. InFlight(p) => InFlight(p)'
          BY <4>2, <4>3 DEF InFlight, SameBasis
        <4>5. QED
          BY <1>l, <3>0, <4>2, <4>3, <4>4 DEF Safe, Guarded, Kept,
             StaysDown, KeepsPid, Chains, Stamped
      <3>5. CASE MarkFailed(p)
        <4>1. store[p].phase \in {"Execing", "Running"} /\ p \in live
          BY <3>5 DEF MarkFailed, CanTransitionTo, LegalTransitions
        <4>2. store'[p] = [store[p] EXCEPT !.phase = "Failed"]
          BY <3>5 DEF MarkFailed, TypeOK
        <4>3. /\ store'[p].phase = "Failed"
              /\ store'[p].fin = store[p].fin
              /\ store'[p].pid = store[p].pid
              /\ store'[p].gen = store[p].gen
              /\ store'[p].releasedFrom = store[p].releasedFrom
          BY <3>0, <4>2 DEF ProcessObject
        <4>4. UNCHANGED <<live, cache, worker>>
          BY <3>5 DEF MarkFailed
        <4>5. SameBasis(p) => SameBasis(p)'
          BY <4>1, <4>3, <4>4 DEF SameBasis
        <4>6. InFlight(p) => InFlight(p)'
          BY <4>1, <4>3, <4>4, <4>5 DEF InFlight
        <4>7. Guarded(p)'
          BY <1>l, <3>0, <4>1, <4>3, <4>4 DEF Safe, Guarded, Installed, Phases
        <4>8. QED
          BY <1>l, <3>0, <4>1, <4>3, <4>4, <4>6, <4>7 DEF Safe, Kept,
             StaysDown, KeepsPid, Chains, Stamped, Draining
      <3>6. CASE ElapseTtl(p) \/ JobProgress(p)
        BY <1>l, <3>0, <3>6, Untouched DEF ElapseTtl, JobProgress
      <3>7. QED
        BY <1>2, <3>1, <3>2, <3>3, <3>4, <3>5, <3>6 DEF Environment
    <2>3. QED
      BY <2>1, <2>2
  <1>3. QED
    BY <1>1, <1>2

\* Every step of the specification keeps every Process safe.
LEMMA NextSafe ==
    ASSUME TypeOK, \A q \in Procs : Safe(q), [Next]_vars
    PROVE  \A q \in Procs : Safe(q)' /\ Kept(q)
  <1>1. CASE \E p \in Procs : Reconcile(p) \/ Environment(p)
    BY <1>1, ReconcileSafe, EnvironmentSafe
  <1>2. CASE Crash
    <2>1. TAKE q \in Procs
    <2>2. /\ worker'[q].step = "idle"
          /\ UNCHANGED <<live, store, lag>>
      BY <1>2 DEF Crash, Idle, At
    <2>3. QED
      BY <2>2, Ended
  <1>3. CASE UNCHANGED vars
    BY <1>3, Untouched DEF vars
  <1>4. QED
    BY <1>1, <1>2, <1>3 DEF Next

\* No Process exists at first, and no reconcile runs.
LEMMA InitSafe == Init => \A q \in Procs : Safe(q)
  <1> SUFFICES ASSUME Init, NEW q \in Procs PROVE Safe(q)
    OBVIOUS
  <1>1. q \notin live /\ worker[q].step = "idle"
    BY DEF Init, Idle, At
  <1>2. QED
    BY <1>1 DEF Safe, InFlight, Guarded

\* The inductive invariant: types, reconciles in flight, guarded PIDs.
LEMMA SafeAlways == Spec => [](TypeOK /\ \A q \in Procs : Safe(q))
  <1>1. Init => \A q \in Procs : Safe(q)
    BY InitSafe
  <1>2. TypeOK /\ (\A q \in Procs : Safe(q)) /\ [Next]_vars
          => (\A q \in Procs : Safe(q))'
    BY NextSafe
  <1>3. Spec => []TypeOK
    BY TypeCorrect
  <1>4. QED
    BY <1>1, <1>2, <1>3, PTL DEF Spec

\* What a reconcile is about to write still fits its object, whatever users,
\* deletes, cascades, crashes, API errors and failures did in between, unless
\* it started behind the object.
THEOREM InFlightDecisionsFit == Spec => []ReconcilesInFlight
  <1>1. (\A q \in Procs : Safe(q)) => ReconcilesInFlight
    BY DEF Safe, ReconcilesInFlight
  <1>2. QED
    BY <1>1, SafeAlways, PTL

\* A Process that has a PID keeps its finalizer until it is Reaped, unless one
\* of its reconciles started behind it.
THEOREM PidsAreGuarded == Spec => []PidGuarded
  <1>1. TypeOK /\ (\A q \in Procs : Safe(q)) => PidGuarded
    BY DEF Safe, Guarded, PidGuarded, TypeOK
  <1>2. QED
    BY <1>1, SafeAlways, PTL

\* Exits are final: only a reconcile that started behind a draining Process
\* brings it back up.
THEOREM ExitsAreFinal == Spec => NoResurrection
  <1>1. TypeOK /\ (\A q \in Procs : Safe(q)) /\ [Next]_vars
          => [\A p \in live \cap live' :
                lag'[p] # "now" /\ store[p].phase \in Draining
                  => store'[p].phase \in Draining]_vars
    BY NextSafe DEF Kept, StaysDown, TypeOK
  <1>2. QED
    BY <1>1, SafeAlways, PTL DEF Spec, NoResurrection

\* A PID is assigned once, through retries and restarts: only a reconcile that
\* started behind the object assigns another.
THEOREM PidsAreStable == Spec => PidStable
  <1>1. TypeOK /\ (\A q \in Procs : Safe(q)) /\ [Next]_vars
          => [\A p \in live \cap live' :
                lag'[p] # "now" /\ store[p].pid # NoPid
                  => store'[p].pid = store[p].pid]_vars
    BY NextSafe DEF Kept, KeepsPid, TypeOK
  <1>2. QED
    BY <1>1, SafeAlways, PTL DEF Spec, PidStable

\* Attestations form one chain, one generation at a time, up to reconciles
\* that start behind the object.
THEOREM AttestationsChain == Spec => AttestationChain
  <1>1. TypeOK /\ (\A q \in Procs : Safe(q)) /\ [Next]_vars
          => [\A p \in live \cap live' :
                lag'[p] # "now" =>
                  store'[p].gen = IF store[p].phase # "Attested"
                                        /\ store'[p].phase = "Attested"
                                  THEN store[p].gen + 1
                                  ELSE store[p].gen]_vars
    BY NextSafe DEF Kept, Chains, TypeOK
  <1>2. QED
    BY <1>1, SafeAlways, PTL DEF Spec, AttestationChain

\* The gate that decides which exports fire is the phase that was left, up to
\* reconciles that start behind the object.
THEOREM ReleaseGatesAreFaithful == Spec => ReleaseGateFaithful
  <1>1. TypeOK /\ (\A q \in Procs : Safe(q)) /\ [Next]_vars
          => [\A p \in live \cap live' :
                lag'[p] # "now" /\ store[p].phase # "Releasing"
                    /\ store'[p].phase = "Releasing"
                  => store'[p].releasedFrom = store[p].phase]_vars
    BY NextSafe DEF Kept, Stamped, TypeOK
  <1>2. QED
    BY <1>1, SafeAlways, PTL DEF Spec, ReleaseGateFaithful

-----------------------------------------------------------------------------
(***************************************************************************)
(* The controller implements the observable lifecycle.                     *)
(*                                                                         *)
(* A step is seen as a change of one object's phase, as its PID, as its    *)
(* creation, as objects that disappear, perhaps none, or as anything at    *)
(* all that a reconcile which started behind its object does to it.        *)
(***************************************************************************)

OthersStay(p) == \A q \in Procs \ {p} : store'[q] = store[q] /\ (q \in live' <=> q \in live)

\* An edge of the lifecycle.
Edge(from, to) ==
    \/ <<from, to>> \in LegalTransitions
    \/ IsAlive(from) /\ to \in {"Exiting", "Reaped"}
    \/ from = "Attested" /\ to = "Running"
    \/ from = "Failed" /\ to \in {"Running", "Attested", "Reconverging",
                                  "Exiting", "Reaped"}

Moves(p) ==
    /\ p \in live /\ p \in live' /\ OthersStay(p)
    /\ store'[p].pid = store[p].pid /\ store'[p].phase \in Phases
    /\ Edge(store[p].phase, store'[p].phase)

Forks(p) ==
    /\ p \in live /\ p \in live' /\ OthersStay(p)
    /\ store[p].phase = "Forking" /\ store'[p].phase = "Forking"
    /\ store[p].pid = NoPid /\ store'[p].pid # NoPid

Appears(p) ==
    /\ p \notin live /\ p \in live' /\ OthersStay(p)
    /\ store'[p].phase = "Pending" /\ store'[p].pid = NoPid

Vanishes ==
    /\ live' \subseteq live
    /\ \A q \in Procs : store'[q].phase = store[q].phase /\ store'[q].pid = store[q].pid
    /\ \A q \in live \ live' :
          store[q].pid # NoPid /\ lag[q] = "never" => store[q].phase = "Reaped"

Strays(p) == OthersStay(p) /\ lag' = [lag EXCEPT ![p] = "now"]

InStep == \A p \in Procs : lag'[p] = lag[p] \/ (lag[p] = "now" /\ lag'[p] = "past")

Seen == (\E p \in Procs : Moves(p) \/ Forks(p) \/ Appears(p)) \/ Vanishes

Observed == (Seen /\ InStep) \/ \E p \in Procs : Strays(p)

\* A phase patch along an edge of the lifecycle is a move.
LEMMA TransitionMoves ==
    ASSUME TypeOK, NEW p \in Procs, NEW next \in Phases, p \in live,
           Transition(p, next), Edge(store[p].phase, next)
    PROVE  Moves(p)
  <1>1. store[p] \in ProcessObject
    BY DEF TypeOK
  <1>2. store'[p] = [store[p] EXCEPT !.phase = next] /\ live' = live
    BY DEF Transition, TypeOK
  <1>3. store'[p].phase = next /\ store'[p].pid = store[p].pid
    BY <1>1, <1>2 DEF ProcessObject
  <1>4. OthersStay(p)
    BY <1>2 DEF Transition, TypeOK, OthersStay
  <1>5. QED
    BY <1>2, <1>3, <1>4 DEF Moves

\* The phase patches of a reconcile.
LEMMA PatchMoves ==
    ASSUME TypeOK, NEW p \in Procs, Safe(p), lag'[p] # "now",
           \/ PatchForking(p) \/ PatchExecing(p) \/ HandleExecing(p)
           \/ ExpireRunning(p) \/ PatchReleasing(p) \/ DetectDrift(p)
           \/ HandleReconverging(p) \/ HandleExiting(p) \/ HandleZombie(p)
    PROVE  Moves(p)
  <1>0. {"Forking", "Execing", "Running", "Exiting", "Releasing", "Zombie",
         "Reaped", "Reconverging"} \subseteq Phases
    BY DEF Phases
  <1>3. CASE PatchForking(p)
    <2>1. p \in live /\ store[p].phase = "Pending" /\ Transition(p, "Forking")
      BY <1>3, Continued DEF PatchForking, InFlight
    <2>2. Edge("Pending", "Forking")
      BY DEF Edge, LegalTransitions
    <2>3. QED
      BY <1>0, <2>1, <2>2, TransitionMoves
  <1>4. CASE PatchExecing(p)
    <2>1. p \in live /\ store[p].phase = "Forking" /\ Transition(p, "Execing")
      BY <1>4, Continued DEF PatchExecing, InFlight
    <2>2. Edge("Forking", "Execing")
      BY DEF Edge, LegalTransitions
    <2>3. QED
      BY <1>0, <2>1, <2>2, TransitionMoves
  <1>5. CASE HandleExecing(p)
    <2>1. p \in live /\ store[p].phase \in {"Execing", "Failed"} /\ Transition(p, "Running")
      BY <1>5, Dispatched DEF HandleExecing
    <2>2. Edge("Execing", "Running") /\ Edge("Failed", "Running")
      BY DEF Edge, LegalTransitions
    <2>3. QED
      BY <1>0, <2>1, <2>2, TransitionMoves
  <1>6. CASE ExpireRunning(p)
    <2>1. p \in live /\ store[p].phase \in {"Running", "Failed"} /\ Transition(p, "Exiting")
      BY <1>6, Dispatched DEF ExpireRunning
    <2>2. Edge("Running", "Exiting") /\ Edge("Failed", "Exiting")
      BY DEF Edge, LegalTransitions
    <2>3. QED
      BY <1>0, <2>1, <2>2, TransitionMoves
  <1>7. CASE PatchReleasing(p)
    <2>1. p \in live /\ store[p].phase \in {"Attested", "Failed"} /\ Transition(p, "Releasing")
      BY <1>7, Continued DEF PatchReleasing, InFlight
    <2>2. Edge("Attested", "Releasing") /\ Edge("Failed", "Releasing")
      BY DEF Edge, LegalTransitions
    <2>3. QED
      BY <1>0, <2>1, <2>2, TransitionMoves
  <1>8. CASE DetectDrift(p)
    <2>1. p \in live /\ store[p].phase = "Attested" /\ Transition(p, "Reconverging")
      BY <1>8, Dispatched DEF DetectDrift
    <2>2. Edge("Attested", "Reconverging")
      BY DEF Edge, LegalTransitions
    <2>3. QED
      BY <1>0, <2>1, <2>2, TransitionMoves
  <1>9. CASE HandleReconverging(p)
    <2>1. p \in live /\ store[p].phase = "Reconverging" /\ Transition(p, "Execing")
      BY <1>9, Dispatched DEF HandleReconverging
    <2>2. Edge("Reconverging", "Execing")
      BY DEF Edge, LegalTransitions
    <2>3. QED
      BY <1>0, <2>1, <2>2, TransitionMoves
  <1>10. CASE HandleExiting(p)
    <2>1. p \in live /\ store[p].phase = "Exiting" /\ Transition(p, "Zombie")
      BY <1>10, Dispatched DEF HandleExiting
    <2>2. Edge("Exiting", "Zombie")
      BY DEF Edge, LegalTransitions
    <2>3. QED
      BY <1>0, <2>1, <2>2, TransitionMoves
  <1>11. CASE HandleZombie(p)
    <2>1. p \in live /\ store[p].phase = "Zombie" /\ Transition(p, "Reaped")
      BY <1>11, Dispatched DEF HandleZombie
    <2>2. Edge("Zombie", "Reaped")
      BY DEF Edge, LegalTransitions
    <2>3. QED
      BY <1>0, <2>1, <2>2, TransitionMoves
  <1>12. QED
    BY <1>3, <1>4, <1>5, <1>6, <1>7, <1>8, <1>9, <1>10, <1>11

\* Steps that leave the objects' phases and PIDs alone are not seen.
LEMMA UnseenStep ==
    ASSUME live' = live,
           \A q \in Procs : store'[q].phase = store[q].phase /\ store'[q].pid = store[q].pid
    PROVE  Vanishes
  BY DEF Vanishes

\* A handler that reads the gate, or applies Jobs, is not seen; the others
\* move the object along an edge.
LEMMA BranchMoves ==
    ASSUME TypeOK, NEW p \in Procs, Safe(p), lag'[p] # "now",
           HandleAttested(p) \/ HandleFailed(p) \/ HandleReleasing(p)
    PROVE  Moves(p) \/ Vanishes
  <1>0. {"Exiting", "Zombie"} \subseteq Phases
    BY DEF Phases
  <1>1. CASE HandleAttested(p)
    <2>1. p \in live /\ store[p].phase = "Attested"
      BY <1>1, Dispatched DEF HandleAttested
    <2>2. UNCHANGED <<live, store>> \/ Transition(p, "Exiting")
      BY <1>1 DEF HandleAttested, BeginRelease
    <2>3. Edge("Attested", "Exiting")
      BY DEF Edge, LegalTransitions
    <2>4. QED
      BY <1>0, <2>1, <2>2, <2>3, TransitionMoves, UnseenStep
  <1>2. CASE HandleFailed(p)
    <2>1. p \in live /\ store[p].phase = "Failed"
      BY <1>2, Dispatched DEF HandleFailed
    <2>2. UNCHANGED <<live, store>> \/ Transition(p, "Zombie")
      BY <1>2 DEF HandleFailed, BeginRelease
    <2>3. Edge("Failed", "Zombie")
      BY DEF Edge, LegalTransitions
    <2>4. QED
      BY <1>0, <2>1, <2>2, <2>3, TransitionMoves, UnseenStep
  <1>3. CASE HandleReleasing(p)
    <2>1. p \in live /\ store[p].phase = "Releasing"
      BY <1>3, Dispatched DEF HandleReleasing
    <2>2. \/ \E next \in {"Exiting", "Zombie"} : Transition(p, next)
          \/ UNCHANGED <<live, store>>
      BY <1>3 DEF HandleReleasing, AdvanceOutOfReleasing
    <2>3. \A next \in {"Exiting", "Zombie"} : Edge("Releasing", next)
      BY DEF Edge, LegalTransitions
    <2>4. CASE \E next \in {"Exiting", "Zombie"} : Transition(p, next)
      BY <1>0, <2>1, <2>3, <2>4, TransitionMoves
    <2>5. CASE UNCHANGED <<live, store>>
      BY <2>5, UnseenStep
    <2>6. QED
      BY <2>2, <2>4, <2>5
  <1>4. QED
    BY <1>1, <1>2, <1>3

\* Deletion, signals and attestation.
LEMMA InterruptMoves ==
    ASSUME TypeOK, NEW p \in Procs, Safe(p), lag'[p] # "now",
           ForceExiting(p) \/ ConsumeEffect(p) \/ AdvanceToAttested(p)
    PROVE  Moves(p) \/ Vanishes
  <1>0. store[p] \in ProcessObject /\ store[p].phase \in Phases
    BY FieldReads DEF TypeOK
  <1>p. {"Exiting", "Reaped", "Running", "Reconverging", "Attested"}
           \subseteq Phases
    BY DEF Phases
  <1>o. p \in live /\ live' = live /\ OthersStay(p)
    BY DEF ForceExiting, Start, CanStart, ConsumeEffect, Continue,
           AdvanceToAttested, Dispatch, OthersStay, TypeOK
  <1>1. CASE ForceExiting(p)
    <2>1. SameBasis(p) /\ IsAlive(cache[p].phase)
      BY <1>1, Started DEF ForceExiting, Start, DeletionForced
    <2>2. IsAlive(store[p].phase) \/ store[p].phase = "Failed"
      BY <2>1 DEF SameBasis
    <2>3. store'[p] = [store[p] EXCEPT !.phase = "Exiting"]
      BY <1>1 DEF ForceExiting, TypeOK
    <2>4. store'[p].phase = "Exiting" /\ store'[p].pid = store[p].pid
      BY <1>0, <2>3 DEF ProcessObject
    <2>5. QED
      BY <1>p, <1>o, <2>2, <2>4 DEF Moves, Edge
  <1>2. CASE ConsumeEffect(p)
    <2> DEFINE e == worker[p].effect
    <2>1. store'[p] = AfterEffect(store[p], e)
      BY <1>2 DEF ConsumeEffect, TypeOK
    <2>2. /\ store[p].phase \notin {"Zombie", "Reaped"}
          /\ \/ e \in Stops
             \/ /\ e \in Revivals
                /\ store[p].phase \in {"Running", "Attested", "Failed"}
      BY <1>2, Continued DEF ConsumeEffect, InFlight
    <2>3. store'[p].pid = store[p].pid
      BY <1>0, <2>1, <2>2 DEF AfterEffect, ProcessObject, Stops, Revivals
    <2>4. \/ store'[p].phase = store[p].phase
          \/ store'[p].phase \in {"Exiting", "Reaped"}
          \/ /\ store[p].phase \in {"Running", "Attested", "Failed"}
             /\ store'[p].phase \in {"Running", "Reconverging"}
      BY <1>0, <2>1, <2>2 DEF AfterEffect, ProcessObject, Stops, Revivals
    <2>5. CASE store'[p].phase = store[p].phase
      <3>1. \A q \in Procs : store'[q].phase = store[q].phase /\ store'[q].pid = store[q].pid
        BY <1>o, <2>3, <2>5 DEF OthersStay
      <3>2. QED
        BY <1>o, <3>1, UnseenStep
    <2>6. CASE store'[p].phase # store[p].phase
      <3>1. Edge(store[p].phase, store'[p].phase)
        BY <2>2, <2>4, <2>6 DEF Edge, IsAlive, LegalTransitions
      <3>2. store'[p].phase \in Phases
        BY <1>p, <2>4, <2>6
      <3>3. QED
        BY <1>o, <2>3, <3>1, <3>2 DEF Moves
    <2>7. QED
      BY <2>5, <2>6
  <1>3. CASE AdvanceToAttested(p)
    <2>1. store[p].phase \in {"Running", "Failed"}
      BY <1>3, Dispatched DEF AdvanceToAttested
    <2>2. PICK g : store'[p] = [store[p] EXCEPT !.phase = "Attested", !.gen = g]
      BY <1>3 DEF AdvanceToAttested, TypeOK
    <2>3. store'[p].phase = "Attested" /\ store'[p].pid = store[p].pid
      BY <1>0, <2>2 DEF ProcessObject
    <2>4. Edge("Running", "Attested") /\ Edge("Failed", "Attested")
      BY DEF Edge, LegalTransitions
    <2>5. QED
      BY <1>p, <1>o, <2>1, <2>3, <2>4 DEF Moves
  <1>4. QED
    BY <1>1, <1>2, <1>3

\* Deleted objects that go at once have no finalizer, and so no PID.
LEMMA DeleteVanishes ==
    ASSUME TypeOK, NEW doomed, DeleteObjects(doomed), \A q \in Procs : Safe(q)
    PROVE  Vanishes
  <1>1. live \subseteq Procs /\ store \in [Procs -> ProcessObject]
    BY DEF TypeOK
  <1>2. ASSUME NEW q \in Procs
        PROVE  store'[q].phase = store[q].phase /\ store'[q].pid = store[q].pid
    BY <1>1 DEF DeleteObjects, ProcessObject
  <1>3. live' \subseteq live /\ \A q \in live \ live' : ~store[q].fin
    BY DEF DeleteObjects
  <1>4. QED
    BY <1>1, <1>2, <1>3 DEF Vanishes, Safe, Guarded

\* The PID that handle_forking allocates is one.
LEMMA PidAllocated ==
    ASSUME TypeOK, NEW p \in Procs, NEW parent \in Pids, NEW seq \in Nat
    PROVE  AllocatePid(p, parent, seq) # NoPid
  <1>1. CASE parent # NoPid
    <2>1. AllocatePid(p, parent, seq) = Append(parent, seq) /\ Len(parent) \in Nat
      BY <1>1 DEF AllocatePid, Pids
    <2>2. Len(Append(parent, seq)) = Len(parent) + 1
      BY DEF Pids
    <2>3. Len(NoPid) = 0
      BY DEF NoPid
    <2>4. QED
      BY <2>1, <2>2, <2>3
  <1>2. CASE parent = NoPid
    <2>1. AllocatePid(p, parent, seq) = <<IdentityName[p], seq>>
      BY <1>2 DEF AllocatePid
    <2>2. QED
      BY <2>1 DEF NoPid
  <1>3. QED
    BY <1>1, <1>2

\* The remaining steps of a reconcile.
LEMMA OtherReconcile ==
    ASSUME TypeOK, NEW p \in Procs, Safe(p), lag'[p] # "now",
           \/ IngestSignal(p) \/ IngestFails(p) \/ HandlerWaits(p) \/ HandlePending(p)
           \/ HandleForking(p) \/ BumpSequence(p) \/ PatchPid(p) \/ HandleReaped(p)
           \/ StampGate(p) \/ StampRefused(p) \/ CascadeDelete(p) \/ CascadeDone(p)
    PROVE  Forks(p) \/ Vanishes
  <1>0. store \in [Procs -> ProcessObject] /\ store[p] \in ProcessObject
    BY DEF TypeOK
  <1>1. CASE \/ IngestFails(p) \/ HandlerWaits(p) \/ HandleForking(p)
             \/ BumpSequence(p) \/ StampRefused(p) \/ CascadeDelete(p)
             \/ CascadeDone(p)
    <2>1. UNCHANGED <<live, store>>
      BY <1>1 DEF IngestFails, HandlerWaits, HandleForking, BumpSequence,
         StampRefused, CascadeDelete, CascadeDone
    <2>2. QED
      BY <2>1, UnseenStep
  <1>2. CASE IngestSignal(p) \/ HandlePending(p) \/ StampGate(p)
    <2>1. live' = live
      BY <1>2 DEF IngestSignal, HandlePending, StampGate
    <2>2. \/ \E v : store' = [store EXCEPT ![p].signal = v]
          \/ \E v : store' = [store EXCEPT ![p].fin = v]
          \/ \E v : store' = [store EXCEPT ![p].releasedFrom = v]
      BY <1>2 DEF IngestSignal, HandlePending, StampGate
    <2>3. \A q \in Procs : store'[q].phase = store[q].phase /\ store'[q].pid = store[q].pid
      BY <1>0, <2>2 DEF ProcessObject
    <2>4. QED
      BY <2>1, <2>3, UnseenStep
  <1>3. CASE PatchPid(p)
    <2>1. p \in live /\ live' = live /\ store[p].phase = "Forking" /\ store[p].pid = NoPid
      BY <1>3, Continued DEF PatchPid, InFlight
    <2>2. PICK pid : /\ pid = AllocatePid(p, cache[p].parent, worker[p].seq)
                     /\ store' = [store EXCEPT ![p].pid = pid]
      BY <1>3 DEF PatchPid
    <2>3. cache[p].parent \in Pids /\ worker[p].seq \in Nat
      BY DEF TypeOK, ProcessObject, WorkerState
    <2>4. pid # NoPid
      BY <2>2, <2>3, PidAllocated
    <2>5. store'[p].phase = store[p].phase /\ store'[p].pid = pid
      BY <1>0, <2>2 DEF ProcessObject
    <2>6. OthersStay(p)
      BY <1>0, <2>1, <2>2 DEF OthersStay
    <2>7. QED
      BY <2>1, <2>4, <2>5, <2>6 DEF Forks
  <1>4. CASE HandleReaped(p)
    <2>1. p \in live /\ store[p].phase = "Reaped"
      BY <1>4, Dispatched DEF HandleReaped
    <2>2. store' = [store EXCEPT ![p].fin = FALSE] /\ (live' = live \/ live' = live \ {p})
      BY <1>4 DEF HandleReaped
    <2>3. \A q \in Procs : store'[q].phase = store[q].phase /\ store'[q].pid = store[q].pid
      BY <1>0, <2>2 DEF ProcessObject
    <2>4. QED
      BY <2>1, <2>2, <2>3 DEF Vanishes
  <1>5. QED
    BY <1>1, <1>2, <1>3, <1>4

\* Every step is one that the lifecycle knows.
LEMMA ReconcileObserved ==
    ASSUME TypeOK, \A q \in Procs : Safe(q), NEW p \in Procs, Reconcile(p)
    PROVE  Observed
  <1>1. CASE DeleteChild(p)
    <2>1. (\E doomed : DeleteObjects(doomed)) \/ UNCHANGED <<live, store>>
      BY <1>1 DEF DeleteChild
    <2>2. Vanishes
      BY <2>1, DeleteVanishes, UnseenStep
    <2>3. lag' = lag
      BY <1>1 DEF DeleteChild
    <2>4. QED
      BY <2>2, <2>3 DEF Observed, Seen, InStep
  <1>2. CASE ~DeleteChild(p) /\ lag'[p] = "now"
    <2>1. OthersStay(p)
      BY <1>2, OthersUntouched DEF OthersStay
    <2>2. lag' = [lag EXCEPT ![p] = "now"]
      BY <1>2, Bookkeeping DEF LagAtStart, TypeOK
    <2>3. QED
      BY <2>1, <2>2 DEF Observed, Strays
  <1>3. CASE ~DeleteChild(p) /\ lag'[p] # "now"
    <2>1. InStep
      BY <1>3, Bookkeeping DEF InStep, LagAtStart, TypeOK
    <2>2. Seen
      BY <1>3, PatchMoves, BranchMoves, InterruptMoves, OtherReconcile
      DEF Reconcile, Seen
    <2>3. QED
      BY <2>1, <2>2 DEF Observed
  <1>4. QED
    BY <1>1, <1>2, <1>3

\* So are the steps of users, the watch, the clock and faults.
LEMMA EnvironmentObserved ==
    ASSUME TypeOK, \A q \in Procs : Safe(q), NEW p \in Procs, Environment(p)
    PROVE  Observed
  <1>0. store \in [Procs -> ProcessObject] /\ live \subseteq Procs
    BY DEF TypeOK
  <1>l. InStep
    BY DEF InStep, Environment, Deliver, ApiError, ObjectGone, Create,
           SendSignal, Delete, MarkFailed, ElapseTtl, JobProgress
  <1>1. CASE \/ Deliver(p) \/ ApiError(p) \/ ObjectGone(p) \/ ElapseTtl(p)
             \/ JobProgress(p)
    <2>1. UNCHANGED <<live, store>>
      BY <1>1 DEF Deliver, ApiError, ObjectGone, ElapseTtl, JobProgress
    <2>2. QED
      BY <1>l, <2>1, UnseenStep DEF Observed, Seen
  <1>2. CASE SendSignal(p)
    <2>1. live' = live /\ \E v : store' = [store EXCEPT ![p].signal = v]
      BY <1>2 DEF SendSignal
    <2>2. \A q \in Procs : store'[q].phase = store[q].phase /\ store'[q].pid = store[q].pid
      BY <1>0, <2>1 DEF ProcessObject
    <2>3. QED
      BY <1>l, <2>1, <2>2, UnseenStep DEF Observed, Seen
  <1>3. CASE Delete(p)
    <2>1. DeleteObjects({p})
      BY <1>3 DEF Delete
    <2>2. QED
      BY <1>l, <2>1, DeleteVanishes DEF Observed, Seen
  <1>4. CASE MarkFailed(p)
    <2>1. p \in live /\ live' = live /\ <<store[p].phase, "Failed">> \in LegalTransitions
      BY <1>4 DEF MarkFailed, CanTransitionTo
    <2>2. store' = [store EXCEPT ![p].phase = "Failed"]
      BY <1>4 DEF MarkFailed
    <2>3. store'[p].phase = "Failed" /\ store'[p].pid = store[p].pid
      BY <1>0, <2>2 DEF ProcessObject
    <2>4. OthersStay(p)
      BY <1>0, <2>1, <2>2 DEF OthersStay
    <2>5. "Failed" \in Phases
      BY DEF Phases
    <2>6. QED
      BY <1>l, <2>1, <2>3, <2>4, <2>5 DEF Moves, Edge, Observed, Seen
  <1>5. CASE Create(p)
    <2>1. PICK parent : store' = [store EXCEPT ![p] = NewProcess(parent)]
      BY <1>5 DEF Create
    <2>2. p \notin live /\ live' = live \cup {p}
      BY <1>5 DEF Create, Unborn
    <2>3. store'[p].phase = "Pending" /\ store'[p].pid = NoPid
      BY <1>0, <2>1 DEF NewProcess
    <2>4. OthersStay(p)
      BY <1>0, <2>1, <2>2 DEF OthersStay
    <2>5. QED
      BY <1>l, <2>2, <2>3, <2>4 DEF Appears, Observed, Seen
  <1>6. QED
    BY <1>1, <1>2, <1>3, <1>4, <1>5 DEF Environment

\* Every step of the specification.
LEMMA NextObserved ==
    ASSUME TypeOK, \A q \in Procs : Safe(q), [Next]_vars
    PROVE  Observed
  <1>1. CASE \E p \in Procs : Reconcile(p) \/ Environment(p)
    BY <1>1, ReconcileObserved, EnvironmentObserved
  <1>2. CASE Crash \/ UNCHANGED vars
    <2>1. UNCHANGED <<live, store, lag>>
      BY <1>2 DEF Crash, vars
    <2>2. QED
      BY <2>1, UnseenStep DEF Observed, Seen, InStep
  <1>3. QED
    BY <1>1, <1>2 DEF Next

\* The observed phases and PIDs.
SeenPhase  == [p \in Procs |-> IF p \in live THEN store[p].phase ELSE "Absent"]
SeenForked == [p \in Procs |-> p \in live /\ store[p].pid # NoPid]

\* A move along an edge, as the lifecycle sees it.
LEMMA MoveRefines ==
    ASSUME TypeOK, NEW p \in Procs, Moves(p), InStep
    PROVE  Lifecycle!Move(p)
  <1>1. PICK next \in Phases : next = store'[p].phase
    BY DEF Moves
  <1>2. SeenPhase' = [SeenPhase EXCEPT ![p] = next]
    BY <1>1 DEF SeenPhase, Moves, OthersStay
  <1>3. SeenForked' = SeenForked
    BY DEF SeenForked, Moves, OthersStay
  <1>4. SeenPhase[p] = store[p].phase
    BY DEF SeenPhase, Moves
  <1>5. next \in Lifecycle!Phases
    BY DEF Phases, Lifecycle!Phases
  <1>6. store[p].phase \in Phases
    BY FieldReads DEF TypeOK
  <1>7. <<SeenPhase[p], next>>
           \in Lifecycle!LegalTransitions \cup Lifecycle!Interrupts \cup Lifecycle!Overtaken
    <2>1. CASE <<store[p].phase, next>> \in LegalTransitions
      BY <1>4, <2>1 DEF LegalTransitions, Lifecycle!LegalTransitions
    <2>2. CASE IsAlive(store[p].phase) /\ next \in {"Exiting", "Reaped"}
      BY <1>4, <1>6, <2>2
      DEF Lifecycle!Interrupts, IsAlive, Lifecycle!IsAlive, Phases, Lifecycle!Phases
    <2>3. CASE store[p].phase = "Attested" /\ next = "Running"
      BY <1>4, <2>3 DEF Lifecycle!Interrupts
    <2>4. CASE /\ store[p].phase = "Failed"
               /\ next \in {"Running", "Attested", "Reconverging", "Exiting", "Reaped"}
      BY <1>4, <2>4 DEF Lifecycle!Overtaken
    <2>5. QED
      BY <1>1, <2>1, <2>2, <2>3, <2>4 DEF Moves, Edge
  <1>8. Lifecycle!InStep
    BY DEF InStep, Lifecycle!InStep
  <1>9. QED
    BY <1>2, <1>3, <1>5, <1>7, <1>8 DEF Lifecycle!Move, SeenPhase, SeenForked

\* A PID, a new object and objects that disappear, as the lifecycle sees them.
LEMMA OthersRefine ==
    ASSUME TypeOK, InStep
    PROVE  /\ \A p \in Procs : Forks(p) => Lifecycle!Fork(p)
           /\ \A p \in Procs : Appears(p) => Lifecycle!Appear(p)
           /\ Vanishes => Lifecycle!Vanish
  <1>i. Lifecycle!InStep
    BY DEF InStep, Lifecycle!InStep
  <1>1. ASSUME NEW p \in Procs, Forks(p) PROVE Lifecycle!Fork(p)
    <2>1. SeenPhase' = SeenPhase
      BY <1>1 DEF SeenPhase, Forks, OthersStay
    <2>2. SeenForked' = [SeenForked EXCEPT ![p] = TRUE]
      BY <1>1 DEF SeenForked, Forks, OthersStay
    <2>3. SeenPhase[p] = "Forking" /\ ~SeenForked[p]
      BY <1>1 DEF SeenPhase, SeenForked, Forks
    <2>4. QED
      BY <1>i, <2>1, <2>2, <2>3 DEF Lifecycle!Fork, SeenPhase, SeenForked
  <1>2. ASSUME NEW p \in Procs, Appears(p) PROVE Lifecycle!Appear(p)
    <2>1. SeenPhase' = [SeenPhase EXCEPT ![p] = "Pending"]
      BY <1>2 DEF SeenPhase, Appears, OthersStay
    <2>2. SeenForked' = [SeenForked EXCEPT ![p] = FALSE]
      BY <1>2 DEF SeenForked, Appears, OthersStay
    <2>3. SeenPhase[p] = "Absent"
      BY <1>2 DEF SeenPhase, Appears
    <2>4. QED
      BY <1>i, <2>1, <2>2, <2>3 DEF Lifecycle!Appear, Lifecycle!Absent, SeenPhase, SeenForked
  <1>3. ASSUME Vanishes PROVE Lifecycle!Vanish
    <2> DEFINE gone == live \ live'
    <2>0. live \subseteq Procs /\ \A p \in live : store[p].phase # "Absent"
      BY FieldReads DEF TypeOK, Phases
    <2>1. gone \subseteq {p \in Procs : SeenPhase[p] # "Absent"}
      BY <2>0 DEF SeenPhase
    <2>2. \A p \in gone : SeenForked[p] /\ lag[p] = "never" => SeenPhase[p] = "Reaped"
      BY <1>3, <2>0 DEF Vanishes, SeenPhase, SeenForked
    <2>3. SeenPhase' = [p \in Procs |-> IF p \in gone THEN "Absent" ELSE SeenPhase[p]]
      BY <1>3, <2>0 DEF Vanishes, SeenPhase
    <2>4. SeenForked' = [p \in Procs |-> p \notin gone /\ SeenForked[p]]
      BY <1>3, <2>0 DEF Vanishes, SeenForked
    <2> HIDE DEF gone
    <2>5. QED
      BY <1>i, <2>1, <2>2, <2>3, <2>4
      DEF Lifecycle!Vanish, Lifecycle!Absent, SeenPhase, SeenForked
  <1>4. QED
    BY <1>1, <1>2, <1>3

\* A step of a reconcile that started behind, as the lifecycle sees it.
LEMMA StrayRefines ==
    ASSUME TypeOK, TypeOK', NEW p \in Procs, Strays(p)
    PROVE  Lifecycle!Stray(p)
  <1>1. store'[p].phase \in Phases
    BY DEF TypeOK, ProcessObject
  <1>2. PICK next : next = SeenPhase'[p]
    OBVIOUS
  <1>3. next \in Lifecycle!Phases \cup {Lifecycle!Absent}
    BY <1>1, <1>2 DEF SeenPhase, Phases, Lifecycle!Phases, Lifecycle!Absent
  <1>4. SeenPhase' = [SeenPhase EXCEPT ![p] = next]
    BY <1>2 DEF SeenPhase, Strays, OthersStay
  <1>5. PICK pid \in BOOLEAN : pid = SeenForked'[p]
    BY DEF SeenForked
  <1>6. SeenForked' = [SeenForked EXCEPT ![p] = pid]
    BY <1>5 DEF SeenForked, Strays, OthersStay
  <1>7. QED
    BY <1>3, <1>4, <1>6 DEF Lifecycle!Stray, Strays, SeenPhase, SeenForked

\* The controller implements the lifecycle that its observers rely on, with
\* any copies, faults and failures recorded from outside: phases change along
\* legal edges and interrupts, PIDs are given in Forking, and only objects
\* without a PID, or Reaped, disappear, up to the reconciles that start behind
\* their object.
THEOREM LifecycleIsImplemented == Spec => RefinesLifecycle
  <1>1. ASSUME Init PROVE Lifecycle!LifecycleInit
    <2>1. SeenPhase = [p \in Procs |-> "Absent"]
      BY <1>1 DEF Init, SeenPhase
    <2>2. SeenForked = [p \in Procs |-> FALSE]
      BY <1>1 DEF Init, SeenForked
    <2>3. lag = [p \in Procs |-> "never"]
      BY <1>1 DEF Init
    <2>4. QED
      BY <2>1, <2>2, <2>3 DEF Lifecycle!LifecycleInit, Lifecycle!Absent, SeenPhase, SeenForked
  <1>2. TypeOK /\ (\A q \in Procs : Safe(q)) /\ [Next]_vars => Observed
    BY NextObserved
  <1>3. TypeOK /\ TypeOK' /\ Observed => Lifecycle!LifecycleNext
    <2>1. SUFFICES ASSUME TypeOK, TypeOK', Observed PROVE Lifecycle!LifecycleNext
      OBVIOUS
    <2>2. CASE \E p \in Procs : Strays(p)
      BY <2>1, <2>2, StrayRefines DEF Lifecycle!LifecycleNext
    <2>3. CASE InStep /\ \E p \in Procs : Moves(p)
      BY <2>1, <2>3, MoveRefines DEF Lifecycle!LifecycleNext
    <2>4. CASE InStep /\ ((\E p \in Procs : Forks(p) \/ Appears(p)) \/ Vanishes)
      BY <2>1, <2>4, OthersRefine DEF Lifecycle!LifecycleNext
    <2>5. QED
      BY <2>1, <2>2, <2>3, <2>4 DEF Observed, Seen
  <1>4. Spec => [](TypeOK /\ \A q \in Procs : Safe(q))
    BY SafeAlways
  <1>5. QED
    BY <1>1, <1>2, <1>3, <1>4, PTL DEF Spec, RefinesLifecycle, Lifecycle!LifecycleSpec
=============================================================================
