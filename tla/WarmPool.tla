------------------------------- MODULE WarmPool -------------------------------
(***************************************************************************)
(* tatara-pool-reconciler: one EphemeralPool, the Processes it owns, and   *)
(* the EphemeralAllocations that ask it for one.  Two controllers share    *)
(* one API server:                                                         *)
(*                                                                         *)
(*   - the pool controller lists its members, decides on that list, makes  *)
(*     its create and delete calls one by one, and then writes the members *)
(*     it listed at the start to pool.status;                              *)
(*   - the allocation controller picks a Free member from pool.status,     *)
(*     patches that Process and then the Allocation's status.              *)
(*                                                                         *)
(* Each API call is an action; the Process controller, users, failures and *)
(* lost calls act in between.  Member processes move as ProcessReconciler  *)
(* moves them.  Names are hashes of the pool and a slot number: the list   *)
(* comes in the order NameOrder of its names.  Ages are not modelled: of   *)
(* the members the desired-count loop stops oldest first, any may be it.   *)
(***************************************************************************)
EXTENDS ProcessPhase, Integers, FiniteSets

CONSTANTS
    Slots,             \* slot numbers; naming.rs derives one name from each
    NameOrder,         \* [Slots -> Nat], the rank of the slot's name in a list
    Allocs,            \* EphemeralAllocation objects
    Matched,           \* those whose requestor the pool's selector matches
    DesiredSize, MinSize, MaxSize,   \* allocation-driven sizing
    DesiredCounts,     \* what spec.desired may be
    ReplacementPolicy, \* "ReplaceImmediate", "HoldFailed" or "PausePool"
    PoolDeletes,       \* TRUE: the pool may be deleted
    AllocDeletes,      \* TRUE: requestors may delete their Allocations
    MaxFaults          \* bound on lost API calls, controller crashes, reconciles
                       \* that start from a lagging copy, and members that fail,
                       \* drift or go stale

NoAlloc == "no allocation"
NoSlot  == -1
Absent  == "Absent"

ASSUME WarmPoolAssumption ==
    /\ Slots \subseteq Nat /\ IsFiniteSet(Slots)
    /\ NameOrder \in [Slots -> Nat]
    /\ \A s, t \in Slots : NameOrder[s] = NameOrder[t] => s = t
    /\ NoAlloc \notin Allocs
    /\ Matched \subseteq Allocs
    /\ DesiredCounts \subseteq Nat
    /\ {DesiredSize, MinSize, MaxSize, MaxFaults} \subseteq Nat
    /\ ReplacementPolicy \in {"ReplaceImmediate", "HoldFailed", "PausePool"}
    /\ {PoolDeletes, AllocDeletes} \subseteq BOOLEAN

VARIABLES
    desired,       \* spec.desired: the desired-count loop, when positive
    member,        \* [Slots -> MemberObject], the Processes of the pool
    status,        \* [Slots -> MemberStates], pool.status.members
    poolDeleting,  \* the pool has a deletionTimestamp
    pool,          \* the pool reconcile under way
    alloc,         \* [Allocs -> AllocObject]
    cache,         \* [Allocs -> AllocCopy], as the watch delivered them
    binder,        \* [Allocs -> ...], each allocation's reconcile under way
    faults,
    behind,        \* [Allocs -> BOOLEAN]: its latest reconcile started from a
                   \* copy that lacked its phase or its member
    slips          \* [Allocs -> Nat]: how often it was routed from such a copy,
                   \* or lost the status patch of a binding

vars == <<desired, member, status, poolDeleting, pool, alloc, cache, binder,
          faults, behind, slips>>

\* behind and slips are history variables: no action reads them.
history == <<behind, slips>>

-----------------------------------------------------------------------------
\* "Pending" stands for every phase before the first Running, "Reconverging"
\* also for the Execing that follows it.
MemberPhases == {"Pending", "Running", "Attested", "Reconverging", "Exiting",
                 "Failed", "Zombie", "Reaped", Absent}

\* holder is the ALLOCATION annotation.  The merge patch that writes it also
\* adds an ephemeral lifetime beside the permanent one: is_ephemeral holds
\* from then on, while the lifetime clock finds the pair ambiguous and never
\* acts on it.  stale: Free for longer than free_ttl.
MemberObject == [phase : MemberPhases, holder : Allocs \cup {NoAlloc},
                 deleting : BOOLEAN, stale : BOOLEAN]
NoMember  == [phase |-> Absent, holder |-> NoAlloc, deleting |-> FALSE,
              stale |-> FALSE]
NewMember == [NoMember EXCEPT !.phase = "Pending"]

MemberStates == {"Spawning", "Free", "Allocated", "Returning", "Failed", Absent}

\* Mutant: Reaped counts as on its way back.
MemberState_ReapedReturns(obj) ==
    CASE obj.phase = Absent                  -> Absent
      [] obj.phase = "Attested"              ->
             IF obj.holder = NoAlloc THEN "Free" ELSE "Allocated"
      [] obj.phase = "Failed"                -> "Failed"
      [] obj.phase \in {"Exiting", "Zombie", "Reaped"} -> "Returning"
      [] OTHER                               -> "Spawning"

\* controller_pool::process_to_member_state
MemberState(obj) ==
    CASE obj.phase = Absent                  -> Absent
      [] obj.phase = "Attested"              ->
             IF obj.holder = NoAlloc THEN "Free" ELSE "Allocated"
      [] obj.phase \in {"Failed", "Reaped"}  -> "Failed"
      [] obj.phase \in {"Exiting", "Zombie"} -> "Returning"
      [] OTHER                               -> "Spawning"

In(list, state) == {s \in Slots : MemberState(list[s]) = state}
Members(list)   == {s \in Slots : list[s].phase # Absent}

AllocPhases == {"Unborn", "Pending", "Queued", "Bound", "Released",
                "NoMatchingPool", "Gone"}
AllocObject == [phase : AllocPhases, assigned : Slots \cup {NoSlot},
                deleting : BOOLEAN, expired : BOOLEAN]
\* What a reconcile reads of the object it is handed; that it has expired is
\* decided by the clock.
AllocCopy   == [phase : AllocPhases, assigned : Slots \cup {NoSlot},
                deleting : BOOLEAN]
CopyOf(obj) == [phase |-> obj.phase, assigned |-> obj.assigned,
                deleting |-> obj.deleting]

\* Mutants: routing that includes Bound, and that forgets Queued.
NeedsPoolRouting_Bound(phase)   ==
    phase \in {"Pending", "Queued", "NoMatchingPool", "Bound"}
NeedsPoolRouting_Forgets(phase) == phase \in {"Pending", "NoMatchingPool"}

\* AllocationPhase::is_terminal and needs_pool_routing
AllocTerminal(phase)    == phase = "Released"
NeedsPoolRouting(phase) == phase \in {"Pending", "Queued", "NoMatchingPool"}

-----------------------------------------------------------------------------
(* The pure decisions of the pool controller: how many members to create   *)
(* and which to delete, given the list.                                    *)

Plan(spawn, doomed) == [spawn |-> spawn, doomed |-> doomed]

\* The first count candidates of the list (all of them, if there are fewer).
FirstOf(candidates, count) ==
    {s \in candidates :
        Cardinality({t \in candidates : NameOrder[t] < NameOrder[s]}) < count}
Less(a, b) == IF a > b THEN a - b ELSE 0    \* u32::saturating_sub

\* Mutants of the three that follow.
Supply_FreeOnly(list)   == Cardinality(In(list, "Free"))
Excess_OffByOne(list)   ==
    Less(Cardinality(In(list, "Free")),
         Less(DesiredSize, Cardinality(In(list, "Spawning")) + 1))
DrainSet_FreeOnly(list) == In(list, "Free")

\* Members that are or will be Free; Free ones beyond what is wanted.
Supply(list) == Cardinality(In(list, "Free") \cup In(list, "Spawning"))
Excess(list) == Less(Cardinality(In(list, "Free")),
                     Less(DesiredSize, Cardinality(In(list, "Spawning"))))
Active(list) == Cardinality(Members(list) \ In(list, "Failed"))
Stale(list)  == {s \in In(list, "Free") : list[s].stale}
DrainSet(list) == Members(list)

\* pool_decide::decide_pool_reconcile: the first rule that applies.
DecidePoolReconcile(list) ==
    IF poolDeleting THEN Plan(0, DrainSet(list))
    ELSE IF In(list, "Failed") # {} THEN Plan(0, In(list, "Failed"))
    ELSE IF Stale(list) # {} THEN Plan(0, Stale(list))
    ELSE IF Active(list) < MinSize THEN Plan(MinSize - Active(list), {})
    ELSE IF MaxSize > 0 /\ Active(list) > MaxSize
    THEN Plan(0, FirstOf(In(list, "Free"), Active(list) - MaxSize))
    ELSE IF Supply(list) < DesiredSize
    THEN Plan(DesiredSize - Supply(list), {})
    ELSE Plan(0, FirstOf(In(list, "Free"), Excess(list)))

\* desired::PoolConvergence::decide, for each order of ages.
Healthy(list) == {s \in Slots : IsRunning(list[s].phase)}
Exited(list)  == {s \in Members(list) : ~IsAlive(list[s].phase)}

DecidePoolConvergence(list) ==
    LET healthy == Cardinality(Healthy(list))
        reaped  == IF ReplacementPolicy = "ReplaceImmediate"
                   THEN Exited(list) ELSE {}
    IN  IF ReplacementPolicy = "PausePool" /\ Exited(list) # {}
        THEN {Plan(0, {})}
        ELSE IF healthy <= desired
        THEN {Plan(desired - healthy, reaped)}
        ELSE {Plan(0, reaped \cup oldest) :
                 oldest \in {d \in SUBSET Healthy(list) :
                                Cardinality(d) = healthy - desired}}

Decisions(list) ==
    IF desired > 0 THEN DecidePoolConvergence(list) ELSE {DecidePoolReconcile(list)}

-----------------------------------------------------------------------------
PoolSteps == {"idle", "apply"}
IdlePool  == [step |-> "idle", spawn |-> 0, doomed |-> {},
              seen |-> [s \in Slots |-> Absent], next |-> {}]
IdleBinder == [step |-> "idle", slot |-> NoSlot]

Init ==
    /\ desired \in DesiredCounts
    /\ member = [s \in Slots |-> NoMember]
    /\ status = [s \in Slots |-> Absent]
    /\ poolDeleting = FALSE
    /\ pool = IdlePool
    /\ alloc = [a \in Allocs |-> [phase |-> "Unborn", assigned |-> NoSlot,
                                  deleting |-> FALSE, expired |-> FALSE]]
    /\ cache = [a \in Allocs |-> CopyOf(alloc[a])]
    /\ binder = [a \in Allocs |-> IdleBinder]
    /\ faults = 0
    /\ behind = [a \in Allocs |-> FALSE]
    /\ slips = [a \in Allocs |-> 0]

Fault == faults < MaxFaults /\ faults' = faults + 1

-----------------------------------------------------------------------------
(* The pool controller.                                                    *)

\* reconcile_inner: list the members and decide.
ListAndDecide ==
    /\ pool.step = "idle"
    /\ \E plan \in Decisions(member) :
          pool' = [step |-> "apply", spawn |-> plan.spawn,
                   doomed |-> plan.doomed,
                   seen |-> [s \in Slots |-> MemberState(member[s])],
                   next |-> IF plan.spawn = 0 THEN {}
                            ELSE Slots \ Members(member)]
    /\ UNCHANGED <<desired, member, status, poolDeleting, alloc, cache, binder, faults, history>>

\* Mutant: the count is not checked.
SpawnMember_Unbounded ==
    /\ pool.step = "apply"
    /\ pool.doomed = {}
    /\ \E s \in Slots \ Members(member) :
          /\ member' = [member EXCEPT ![s] = NewMember]
          /\ pool' = [pool EXCEPT !.spawn = @ - 1]
    /\ UNCHANGED <<desired, status, poolDeleting, alloc, cache, binder, faults, history>>

\* The create call for the next name that the list did not show; a name
\* that exists all the same (409) counts as created.
SpawnMember ==
    /\ pool.step = "apply"
    /\ pool.doomed = {}
    /\ pool.spawn > 0
    /\ \E s \in pool.next :
          /\ \A t \in pool.next : s <= t
          /\ member' = [member EXCEPT ![s] =
                          IF @.phase = Absent THEN NewMember ELSE @]
          /\ pool' = [pool EXCEPT !.spawn = @ - 1,
                                !.next = IF pool.spawn = 1 THEN {} ELSE @ \ {s}]
    /\ UNCHANGED <<desired, status, poolDeleting, alloc, cache, binder, faults, history>>

\* A delete of s: an object without its finalizer yet goes at once, another
\* is marked.
AfterDelete(s) ==
    {[member EXCEPT ![s].deleting = (@ \/ member[s].phase # Absent)]}
      \cup IF member[s].phase = "Pending" /\ ~member[s].deleting
           THEN {[member EXCEPT ![s] = NoMember]} ELSE {}

\* The delete calls; their errors are ignored.
DeleteFails ==
    /\ pool.step = "apply"
    /\ Fault
    /\ \E s \in pool.doomed : pool' = [pool EXCEPT !.doomed = @ \ {s}]
    /\ UNCHANGED <<desired, member, status, poolDeleting, alloc, cache, binder, history>>

DeleteMember ==
    /\ pool.step = "apply"
    /\ \E s \in pool.doomed :
          /\ member' \in AfterDelete(s)
          /\ pool' = [pool EXCEPT !.doomed = @ \ {s}]
    /\ UNCHANGED <<desired, status, poolDeleting, alloc, cache, binder, faults, history>>

\* A create fails: the rest of the plan is dropped.  (In the bounded model
\* also when no name is left.)
SpawnFails ==
    /\ pool.step = "apply"
    /\ pool.doomed = {}
    /\ pool.spawn > 0
    /\ \/ pool.next = {} /\ UNCHANGED faults
       \/ Fault
    /\ pool' = [pool EXCEPT !.spawn = 0, !.next = {}]
    /\ UNCHANGED <<desired, member, status, poolDeleting, alloc, cache, binder, history>>

\* The last call writes the members listed at the start to pool.status.
PatchPoolStatus ==
    /\ pool.step = "apply"
    /\ pool.doomed = {}
    /\ pool.spawn = 0
    /\ status' = pool.seen
    /\ pool' = IdlePool
    /\ UNCHANGED <<desired, member, poolDeleting, alloc, cache, binder, faults, history>>

-----------------------------------------------------------------------------
(* The allocation controller.                                              *)

\* The Allocation that a reconcile is handed comes from the watch cache, which
\* nothing brings up to date before the reconcile starts.
Seen(a) == cache[a]

Deliver(a) ==
    /\ cache[a] # CopyOf(alloc[a])
    /\ cache' = [cache EXCEPT ![a] = CopyOf(alloc[a])]
    /\ UNCHANGED <<desired, member, status, poolDeleting, pool, alloc, binder,
                   faults, history>>

\* A reconcile of a's Allocation may start.
CanStart(a) ==
    /\ binder[a].step = "idle"
    /\ Seen(a).phase \notin {"Unborn", "Gone"}
    /\ ~AllocTerminal(Seen(a).phase)

\* It starts, from a copy that is up to date or not.
Behind(a) == \/ Seen(a).phase # alloc[a].phase
             \/ Seen(a).assigned # alloc[a].assigned
Start(a) ==
    /\ CanStart(a)
    /\ behind' = [behind EXCEPT ![a] = Behind(a)]
    /\ IF Behind(a) THEN Fault ELSE UNCHANGED faults
Slip(a, slipped) == slips' = [slips EXCEPT ![a] = IF slipped THEN @ + 1 ELSE @]

\* AllocationConvergence::decide: Release of a deleted or expired holder.
MustRelease(a) ==
    /\ Seen(a).assigned # NoSlot
    /\ \/ Seen(a).deleting
       \/ Seen(a).phase = "Bound" /\ alloc[a].expired

DecideRelease(a) ==
    /\ Start(a)
    /\ MustRelease(a)
    /\ binder' = [binder EXCEPT ![a] = [step |-> "release",
                                        slot |-> Seen(a).assigned]]
    /\ UNCHANGED <<desired, member, status, poolDeleting, pool, alloc, cache, slips>>

\* Routing: no pool matches, no Free member in pool.status, or Bind.
Routes(a) ==
    /\ Start(a)
    /\ ~Seen(a).deleting
    /\ NeedsPoolRouting(Seen(a).phase)
    /\ Slip(a, Behind(a))
FreeInStatus == {s \in Slots : status[s] = "Free"}

PatchUnserved(a) ==
    /\ Routes(a)
    /\ a \notin Matched \/ FreeInStatus = {}
    /\ alloc' = IF alloc[a].phase = "Gone" THEN alloc
                ELSE [alloc EXCEPT ![a].phase =
                        IF a \in Matched THEN "Queued" ELSE "NoMatchingPool"]
    /\ UNCHANGED <<desired, member, status, poolDeleting, pool, cache, binder>>

DecideBind(a) ==
    /\ Routes(a)
    /\ a \in Matched
    /\ \E s \in FreeInStatus :
          binder' = [binder EXCEPT ![a] = [step |-> "bind", slot |-> s]]
    /\ UNCHANGED <<desired, member, status, poolDeleting, pool, alloc, cache>>

\* Bind, first call: lifetime and annotations of the member, whoever holds
\* it by now; on an error, such as NotFound, retry later.
BindMember(a) ==
    /\ binder[a].step = "bind"
    /\ IF member[binder[a].slot].phase = Absent
       THEN /\ binder' = [binder EXCEPT ![a] = IdleBinder]
            /\ UNCHANGED member
       ELSE /\ binder' = [binder EXCEPT ![a].step = "record"]
            /\ member' = [member EXCEPT ![binder[a].slot].holder = a]
    /\ UNCHANGED <<desired, status, poolDeleting, pool, alloc, cache, faults, history>>

\* Bind and Release, last call: the Allocation's status, unless it is gone.
\* (Release first stamps the member with the return-trigger annotation, which
\* nothing reads; the stamp is left out.)
PatchAllocStatus(a) ==
    /\ binder[a].step \in {"record", "release"}
    /\ alloc' = IF alloc[a].phase = "Gone" THEN alloc
                ELSE [alloc EXCEPT
                        ![a].phase = IF binder[a].step = "record"
                                     THEN "Bound" ELSE "Released",
                        ![a].assigned = binder[a].slot,
                        ![a].expired = @ /\ binder[a].step = "release"]
    /\ binder' = [binder EXCEPT ![a] = IdleBinder]
    /\ UNCHANGED <<desired, member, status, poolDeleting, pool, cache, faults, history>>

\* A call fails or the controller restarts: errors of status patches are
\* ignored, and the next reconcile decides afresh.
LoseBinder(a) ==
    /\ binder[a].step # "idle"
    /\ Fault
    /\ binder' = [binder EXCEPT ![a] = IdleBinder]
    /\ Slip(a, binder[a].step = "record")
    /\ UNCHANGED <<desired, member, status, poolDeleting, pool, alloc, cache, behind>>

LosePool ==
    /\ pool.step # "idle"
    /\ Fault
    /\ pool' = IdlePool
    /\ UNCHANGED <<desired, member, status, poolDeleting, alloc, cache, binder, history>>

-----------------------------------------------------------------------------
(* The Process controller on the pool's members, as ProcessReconciler has  *)
(* it: an alive member under deletion is Exiting from then on.             *)

MoveTo(s, phase) ==
    /\ member' = [member EXCEPT ![s].phase = phase]
    /\ UNCHANGED <<desired, status, poolDeleting, pool, alloc, cache, binder, faults, history>>

MemberConverges(s) ==
    /\ ~member[s].deleting
    /\ \/ member[s].phase \in {"Pending", "Reconverging"} /\ MoveTo(s, "Running")
       \/ member[s].phase = "Running" /\ MoveTo(s, "Attested")

MemberDrains(s) ==
    \/ /\ member[s].deleting
       /\ member[s].phase \in {"Pending", "Running", "Attested", "Reconverging"}
       /\ MoveTo(s, "Exiting")
    \/ ~member[s].deleting /\ member[s].phase = "Exiting" /\ MoveTo(s, "Zombie")
    \/ member[s].phase = "Failed" /\ MoveTo(s, "Zombie")
    \/ member[s].phase = "Zombie" /\ MoveTo(s, "Reaped")
    \/ /\ member[s].phase = "Reaped" /\ member[s].deleting
       /\ member' = [member EXCEPT ![s] = NoMember]
       /\ UNCHANGED <<desired, status, poolDeleting, pool, alloc, cache, binder, faults, history>>

\* A member fails before it is Attested, drifts from Attested, bound or not,
\* is sent SIGTERM by an operator, or has been Free for too long.
MemberFails(s) ==
    /\ Fault
    /\ \/ /\ member[s].phase \in {"Pending", "Running", "Reconverging"}
          /\ member' = [member EXCEPT ![s].phase = "Failed"]
       \/ /\ member[s].phase = "Attested" /\ ~member[s].deleting
          /\ member' = [member EXCEPT ![s].phase = "Reconverging"]
       \/ /\ member[s].phase \in {"Pending", "Running", "Attested", "Reconverging"}
          /\ member' = [member EXCEPT ![s].phase = "Exiting"]
       \/ /\ MemberState(member[s]) = "Free"
          /\ ~member[s].stale
          /\ member' = [member EXCEPT ![s].stale = TRUE]
    /\ UNCHANGED <<desired, status, poolDeleting, pool, alloc, cache, binder, history>>

-----------------------------------------------------------------------------
(* Requestors and operators.                                               *)

Request(a) ==
    /\ alloc[a].phase = "Unborn"
    /\ alloc' = [alloc EXCEPT ![a].phase = "Pending"]
    /\ UNCHANGED <<desired, member, status, poolDeleting, pool, cache, binder, faults, history>>

Expire(a) ==
    /\ alloc[a].phase = "Bound"
    /\ ~alloc[a].expired
    /\ alloc' = [alloc EXCEPT ![a].expired = TRUE]
    /\ UNCHANGED <<desired, member, status, poolDeleting, pool, cache, binder, faults, history>>

\* The Allocation carries no finalizer of the controller: it may be marked
\* (foreground deletion) and is gone any time after.
DeleteAlloc(a) ==
    /\ AllocDeletes
    /\ alloc[a].phase \notin {"Unborn", "Gone"}
    /\ alloc' = IF alloc[a].deleting
                THEN [alloc EXCEPT ![a].phase = "Gone", ![a].assigned = NoSlot,
                                   ![a].expired = FALSE]
                ELSE [alloc EXCEPT ![a].deleting = TRUE]
    /\ UNCHANGED <<desired, member, status, poolDeleting, pool, cache, binder, faults, history>>

DeletePool ==
    /\ PoolDeletes
    /\ ~poolDeleting
    /\ poolDeleting' = TRUE
    /\ UNCHANGED <<desired, member, status, pool, alloc, cache, binder, faults, history>>

-----------------------------------------------------------------------------
PoolNext == ListAndDecide \/ SpawnMember \/ DeleteMember \/ DeleteFails
              \/ SpawnFails \/ PatchPoolStatus \/ LosePool \/ DeletePool

AllocNext(a) == DecideRelease(a) \/ PatchUnserved(a) \/ DecideBind(a)
                  \/ BindMember(a) \/ PatchAllocStatus(a) \/ LoseBinder(a)
                  \/ Deliver(a) \/ Request(a) \/ Expire(a) \/ DeleteAlloc(a)

MemberNext(s) == MemberConverges(s) \/ MemberDrains(s) \/ MemberFails(s)

Next == \/ PoolNext
        \/ \E a \in Allocs : AllocNext(a)
        \/ \E s \in Slots : MemberNext(s)

Spec == Init /\ [][Next]_vars

\* Both controllers requeue on a heartbeat, and the Process controller
\* converges members that do not fail.
Fairness ==
    /\ WF_vars(ListAndDecide)
    /\ WF_vars(SpawnMember \/ SpawnFails)
    /\ WF_vars(DeleteMember)
    /\ WF_vars(PatchPoolStatus)
    /\ \A a \in Allocs :
          /\ WF_vars(Deliver(a))
          /\ WF_vars(DecideBind(a))
          /\ WF_vars(DecideRelease(a))
          /\ WF_vars(BindMember(a))
          /\ WF_vars(PatchAllocStatus(a))
    /\ \A s \in Slots :
          /\ WF_vars(MemberConverges(s))
          /\ WF_vars(MemberDrains(s))

FairSpec == Spec /\ Fairness

-----------------------------------------------------------------------------
(* What makes the pool correct.                                            *)

\* Type invariant of the two controllers and the objects they share.
TypeOK ==
    /\ desired \in DesiredCounts
    /\ member \in [Slots -> MemberObject]
    /\ status \in [Slots -> MemberStates]
    /\ poolDeleting \in BOOLEAN
    /\ pool \in [step : PoolSteps, spawn : Nat, doomed : SUBSET Slots,
                 seen : [Slots -> MemberStates], next : SUBSET Slots]
    /\ alloc \in [Allocs -> AllocObject]
    /\ cache \in [Allocs -> AllocCopy]
    /\ binder \in [Allocs -> [step : {"idle", "bind", "record", "release"},
                              slot : Slots \cup {NoSlot}]]
    /\ faults \in Nat
    /\ behind \in [Allocs -> BOOLEAN]
    /\ slips \in [Allocs -> Nat]

\* Allocation-driven sizing never over-provisions: however ticks, crashes,
\* lost calls, bindings, drifts and replacements interleave, the members that
\* nobody holds and that are or will become Free never exceed what the pool
\* asks for.  (A bound member that drifts is counted as Spawning too, which
\* makes the controller provide less, not more.)
Target == IF MinSize > DesiredSize THEN MinSize ELSE DesiredSize
Spare(list) == {s \in In(list, "Free") \cup In(list, "Spawning") :
                    list[s].holder = NoAlloc}
SupplyBounded == desired = 0 => Cardinality(Spare(member)) <= Target

\* A Bound allocation keeps the member it was given until it is Released or
\* gone, and a Released one is settled for good, whatever call is lost: the
\* only reconcile that takes a member away is one that started from a copy
\* without it.
BindingStable ==
    [][\A a \in Allocs :
          ~behind'[a] =>
          /\ alloc[a].phase = "Bound" /\ alloc'[a].phase # "Gone"
               => /\ alloc'[a].phase \in {"Bound", "Released"}
                  /\ alloc'[a].assigned = alloc[a].assigned
          /\ alloc[a].phase = "Released"
               => alloc'[a].phase \in {"Released", "Gone"}]_vars

\* Members do not leak beyond their causes: an allocation holds one member,
\* and one more for each time it was routed from a lagging copy or lost the
\* status patch of a binding.
OneMemberEach ==
    \A a \in Allocs :
        Cardinality({s \in Slots : member[s].holder = a}) <= 1 + slips[a]

\* Every request that the pool's selector matches is served where allocations
\* drive the size: it is Bound in the end, unless it or the pool is deleted.
AllocationsServed ==
    \A a \in Matched :
        (alloc[a].phase = "Pending" /\ desired = 0)
            ~> (alloc[a].phase \in {"Bound", "Released", "Gone"}
                  \/ alloc[a].deleting \/ poolDeleting)

\* The pool settles: with requests done and failures over, the free members
\* become exactly DesiredSize and stay so.
PoolSettles ==
    <>[](\/ poolDeleting \/ desired > 0
         \/ Cardinality(In(member, "Free")) = DesiredSize)

\* A pool under deletion drains where allocations drive its size: in the end
\* every member left is being deleted, whatever the reconcile in flight still
\* created.  With spec.desired > 0 it does not: reconcile_inner takes the
\* desired-count branch before anything looks at the deletionTimestamp, and
\* goes on creating members for as long as the object is there.
PoolDrains ==
    poolDeleting /\ desired = 0 ~> [](\A s \in Members(member) : member[s].deleting)

\* Members that exit are recycled: whatever makes a member Failed, Zombie or
\* Reaped, its object is removed in the end and its name is free again.
ExitedRecycled ==
    \A s \in Slots :
        member[s].phase \in {"Failed", "Zombie", "Reaped"}
            ~> member[s].phase = Absent

-----------------------------------------------------------------------------
(* What the documentation says and the code does not do.                   *)

\* A member is held by one allocation: no two are Bound to the same one
\* (while it is the member they were given).
ExclusiveBinding ==
    \A a, b \in Allocs :
        /\ a # b
        /\ alloc[a].phase = "Bound" /\ alloc[b].phase = "Bound"
        /\ alloc[a].assigned = alloc[b].assigned
        => member[alloc[a].assigned].phase # "Attested"

\* A member is returned once its allocation is Released: it has another
\* holder, or none, or is on its way out.
ReleasedReturned ==
    \A a \in Allocs, s \in Slots :
        (alloc[a].phase = "Released" /\ alloc[a].assigned = s)
            ~> (\/ member[s].holder # a \/ member[s].deleting
                \/ member[s].phase \in {"Exiting", "Zombie", "Reaped", Absent})
=============================================================================
