--------------------------- MODULE WarmPoolProofs ---------------------------
(***************************************************************************)
(* Theorems about WarmPool, for any finite set of slots, any allocations,  *)
(* any sizes and either sizing mode.                                       *)
(***************************************************************************)
EXTENDS WarmPool, FiniteSetTheorems, TLAPS

(***************************************************************************)
(* What the decisions return.                                              *)
(***************************************************************************)

Lists == [Slots -> MemberObject]

\* The sizes are numbers.
LEMMA Sizes == /\ DesiredSize \in Nat /\ MinSize \in Nat /\ MaxSize \in Nat
               /\ MaxFaults \in Nat
  BY WarmPoolAssumption DEF WarmPoolAssumption

\* Any set of slots has a size.
LEMMA SlotCount ==
    ASSUME NEW S \in SUBSET Slots
    PROVE  IsFiniteSet(S) /\ Cardinality(S) \in Nat
  <1>1. IsFiniteSet(Slots)
    BY WarmPoolAssumption DEF WarmPoolAssumption
  <1>2. QED
    BY <1>1, FS_Subset, FS_CardinalityType

\* The spare members of a list, spelled out.
Ready(list) == {s \in Slots :
    /\ list[s].phase \in {"Pending", "Running", "Attested", "Reconverging"}
    /\ list[s].holder = NoAlloc}

\* They are among what decide_pool_reconcile counts as supply, which is
\* exactly they and the bound members on their way back to Attested; and none
\* has exited.
LEMMA ReadySupply ==
    ASSUME NEW list \in Lists
    PROVE  /\ Spare(list) = Ready(list)
           /\ Ready(list) \subseteq In(list, "Free") \cup In(list, "Spawning")
           /\ In(list, "Free") \cup In(list, "Spawning")
                \subseteq Members(list) \ In(list, "Failed")
  <1>1. ASSUME NEW s \in Slots
        PROVE  /\ MemberState(list[s]) \in {"Free", "Spawning"} /\ list[s].holder = NoAlloc
                    <=> s \in Ready(list)
               /\ MemberState(list[s]) \in {"Free", "Spawning"} => list[s].phase # Absent
    <2>1. list[s].phase \in MemberPhases
      BY DEF Lists, MemberObject
    <2>2. CASE list[s].phase = Absent
      BY <2>2 DEF MemberState, Ready, Absent
    <2>3. CASE list[s].phase = "Attested"
      BY <2>3 DEF MemberState, Ready, Absent
    <2>4. CASE list[s].phase \in {"Failed", "Reaped"}
      BY <2>4 DEF MemberState, Ready, Absent
    <2>5. CASE list[s].phase \in {"Exiting", "Zombie"}
      BY <2>5 DEF MemberState, Ready, Absent
    <2>6. CASE list[s].phase \in {"Pending", "Running", "Reconverging"}
      BY <2>6 DEF MemberState, Ready, Absent
    <2>7. QED
      BY <2>1, <2>2, <2>3, <2>4, <2>5, <2>6 DEF MemberPhases
  <1>2. Spare(list) = Ready(list)
    BY <1>1 DEF In, Ready, Spare
  <1>3. Ready(list) \subseteq In(list, "Free") \cup In(list, "Spawning")
    BY <1>1 DEF In, Ready
  <1>4. QED
    BY <1>1, <1>2, <1>3 DEF In, Members

\* The state a list shows for a member is one of PoolMember's.
LEMMA MemberStateType ==
    ASSUME NEW o \in MemberObject
    PROVE  MemberState(o) \in MemberStates
  BY DEF MemberState, MemberStates

\* decide_pool_reconcile: whatever rule applies, it never plans more creates
\* than bring what is or will be Free to the target.
LEMMA ReconcilePlan ==
    ASSUME NEW list \in Lists
    PROVE  LET plan == DecidePoolReconcile(list)
           IN  /\ plan.spawn \in Nat /\ plan.doomed \in SUBSET Slots
               /\ plan.spawn = 0 \/ Cardinality(Ready(list)) + plan.spawn <= Target
  <1> DEFINE plan == DecidePoolReconcile(list)
  <1>1. /\ Members(list) \in SUBSET Slots /\ Ready(list) \in SUBSET Slots
        /\ (Members(list) \ In(list, "Failed")) \in SUBSET Slots
        /\ \A st : In(list, st) \in SUBSET Slots
        /\ \A st, n : FirstOf(In(list, st), n) \in SUBSET Slots
        /\ Stale(list) \in SUBSET Slots
    BY DEF Members, Ready, In, FirstOf, Stale
  <1>2. Active(list) \in Nat /\ Supply(list) \in Nat
    <2>1. (In(list, "Free") \cup In(list, "Spawning")) \in SUBSET Slots
      BY <1>1
    <2>2. QED
      BY <1>1, <2>1, SlotCount DEF Active, Supply
  <1>3. /\ Cardinality(Ready(list)) \in Nat
        /\ Cardinality(Ready(list)) <= Supply(list) /\ Supply(list) <= Active(list)
    <2> DEFINE S == In(list, "Free") \cup In(list, "Spawning")
    <2>1. S \in SUBSET Slots
      BY <1>1
    <2>2. Cardinality(Ready(list)) <= Cardinality(S)
      BY <2>1, SlotCount, ReadySupply, FS_Subset
    <2>3. Cardinality(S) <= Cardinality(Members(list) \ In(list, "Failed"))
      BY <1>1, SlotCount, ReadySupply, FS_Subset
    <2>4. Cardinality(Ready(list)) \in Nat
      BY <1>1, SlotCount
    <2>5. QED
      BY <2>2, <2>3, <2>4 DEF Active, Supply
  <1>4. /\ Target \in Nat /\ MinSize <= Target /\ DesiredSize <= Target
    BY Sizes DEF Target
  <1>5. CASE plan.spawn = 0 /\ plan.doomed \in SUBSET Slots
    BY <1>5
  <1>6. CASE plan = Plan(MinSize - Active(list), {}) /\ Active(list) < MinSize
    <2>1. plan.spawn = MinSize - Active(list) /\ plan.doomed = {}
      BY <1>6 DEF Plan
    <2>2. QED
      BY <1>2, <1>3, <1>4, <1>6, <2>1, Sizes
  <1>7. CASE plan = Plan(DesiredSize - Supply(list), {}) /\ Supply(list) < DesiredSize
    <2>1. plan.spawn = DesiredSize - Supply(list) /\ plan.doomed = {}
      BY <1>7 DEF Plan
    <2>2. QED
      BY <1>2, <1>3, <1>4, <1>7, <2>1, Sizes
  <1>8. ASSUME NEW D \in SUBSET Slots, plan = Plan(0, D)
        PROVE  plan.spawn = 0 /\ plan.doomed \in SUBSET Slots
    BY <1>8 DEF Plan
  <1>9. \/ \E D \in SUBSET Slots : plan = Plan(0, D)
        \/ plan = Plan(MinSize - Active(list), {}) /\ Active(list) < MinSize
        \/ plan = Plan(DesiredSize - Supply(list), {}) /\ Supply(list) < DesiredSize
    BY <1>1 DEF DecidePoolReconcile, DrainSet
  <1>10. QED
    BY <1>5, <1>6, <1>7, <1>8, <1>9

\* PoolConvergence::decide: a number of creates and a set of deletes.
LEMMA ConvergencePlan ==
    ASSUME NEW list \in Lists, desired \in Nat, NEW plan \in DecidePoolConvergence(list)
    PROVE  plan.spawn \in Nat /\ plan.doomed \in SUBSET Slots
  <1>1. /\ Healthy(list) \in SUBSET Slots /\ Exited(list) \in SUBSET Slots
    BY DEF Healthy, Exited, Members
  <1>2. Cardinality(Healthy(list)) \in Nat
    BY <1>1, SlotCount
  <1>3. \A n, D : Plan(n, D).spawn = n /\ Plan(n, D).doomed = D
    BY DEF Plan
  <1>4. \/ plan = Plan(0, {})
        \/ /\ Cardinality(Healthy(list)) <= desired
           /\ \E D \in SUBSET Slots : plan = Plan(desired - Cardinality(Healthy(list)), D)
        \/ \E D \in SUBSET Slots : plan = Plan(0, D)
    BY <1>1 DEF DecidePoolConvergence
  <1>5. QED
    BY <1>2, <1>3, <1>4

-----------------------------------------------------------------------------
(***************************************************************************)
(* Type correctness.                                                       *)
(***************************************************************************)

PoolState   == [step : PoolSteps, spawn : Nat, doomed : SUBSET Slots,
                seen : [Slots -> MemberStates], next : SUBSET Slots]
BinderState == [step : {"idle", "bind", "record", "release"},
                slot : Slots \cup {NoSlot}]

\* The initial and idle values are well typed.
LEMMA Pieces == /\ NoMember \in MemberObject /\ NewMember \in MemberObject
                /\ IdlePool \in PoolState /\ IdleBinder \in BinderState
  <1>1. NoMember \in MemberObject /\ NewMember \in MemberObject
    BY DEF NoMember, NewMember, MemberObject, MemberPhases
  <1>2. IdlePool \in PoolState
    BY DEF IdlePool, PoolState, PoolSteps, MemberStates
  <1>3. IdleBinder \in BinderState
    BY DEF IdleBinder, BinderState
  <1>4. QED
    BY <1>1, <1>2, <1>3

\* What a create or a delete call may leave in the place of a member.
LEMMA MemberWrites ==
    ASSUME NEW o \in MemberObject
    PROVE  /\ \A ph \in MemberPhases : [o EXCEPT !.phase = ph] \in MemberObject
           /\ \A a \in Allocs : [o EXCEPT !.holder = a] \in MemberObject
           /\ \A b \in BOOLEAN : [o EXCEPT !.deleting = b] \in MemberObject
           /\ [o EXCEPT !.stale = TRUE] \in MemberObject
  BY DEF MemberObject

\* A copy of an Allocation is well typed.
LEMMA CopyType ==
    ASSUME NEW o \in AllocObject
    PROVE  CopyOf(o) \in AllocCopy
  BY DEF AllocObject, AllocCopy, CopyOf

\* Nothing exists at first.
LEMMA InitTypeOK == Init => TypeOK
  <1>1. ASSUME Init PROVE TypeOK
    <2>1. [phase |-> "Unborn", assigned |-> NoSlot, deleting |-> FALSE,
           expired |-> FALSE] \in AllocObject
      BY DEF AllocObject, AllocPhases
    <2>2. alloc \in [Allocs -> AllocObject]
      BY <1>1, <2>1 DEF Init
    <2>3. cache \in [Allocs -> AllocCopy]
      BY <1>1, <2>2, CopyType DEF Init
    <2>4. QED
      BY <1>1, <2>2, <2>3, Pieces DEF Init, TypeOK, PoolState, BinderState, MemberStates
  <1>2. QED
    BY <1>1

\* The pool controller's steps.
LEMMA PoolTypeOK ==
    ASSUME TypeOK, PoolNext
    PROVE  TypeOK'
  <1>0. /\ pool \in PoolState /\ member \in Lists /\ desired \in Nat
        /\ faults \in Nat
    BY WarmPoolAssumption DEF TypeOK, PoolState, Lists, WarmPoolAssumption
  <1>1. CASE ListAndDecide
    <2>1. PICK plan \in Decisions(member) :
             pool' = [step |-> "apply", spawn |-> plan.spawn,
                      doomed |-> plan.doomed,
                      seen |-> [s \in Slots |-> MemberState(member[s])],
                      next |-> IF plan.spawn = 0 THEN {}
                               ELSE Slots \ Members(member)]
      BY <1>1 DEF ListAndDecide
    <2>2. plan.spawn \in Nat /\ plan.doomed \in SUBSET Slots
      <3>1. CASE plan \in DecidePoolConvergence(member)
        BY <1>0, <3>1, ConvergencePlan
      <3>2. CASE plan = DecidePoolReconcile(member)
        BY <1>0, <3>2, ReconcilePlan
      <3>3. QED
        BY <3>1, <3>2 DEF Decisions
    <2>3. [s \in Slots |-> MemberState(member[s])] \in [Slots -> MemberStates]
      BY <1>0, MemberStateType DEF Lists
    <2>4. pool' \in PoolState
      BY <2>1, <2>2, <2>3 DEF PoolState, PoolSteps
    <2>5. QED
      BY <1>1, <2>4 DEF ListAndDecide, TypeOK, PoolState, history
  <1>2. CASE SpawnMember
    <2>1. PICK s \in pool.next :
             /\ member' = [member EXCEPT ![s] =
                             IF @.phase = Absent THEN NewMember ELSE @]
             /\ pool' = [pool EXCEPT !.spawn = @ - 1,
                                !.next = IF pool.spawn = 1 THEN {} ELSE @ \ {s}]
      BY <1>2 DEF SpawnMember
    <2>2. s \in Slots /\ pool.next \in SUBSET Slots /\ pool.spawn - 1 \in Nat
      BY <1>0, <1>2 DEF PoolState, SpawnMember
    <2>3. member' \in [Slots -> MemberObject]
      BY <1>0, <2>1, <2>2, Pieces DEF Lists
    <2>4. (IF pool.spawn = 1 THEN {} ELSE pool.next \ {s}) \in SUBSET Slots
      BY <2>2
    <2>5. pool' \in PoolState
      BY <1>0, <2>1, <2>2, <2>4 DEF PoolState
    <2>6. QED
      BY <1>2, <2>3, <2>5 DEF SpawnMember, TypeOK, PoolState, history
  <1>3. CASE DeleteMember
    <2>1. PICK s \in pool.doomed :
             /\ member' \in AfterDelete(s)
             /\ pool' = [pool EXCEPT !.doomed = @ \ {s}]
      BY <1>3 DEF DeleteMember
    <2>2. s \in Slots
      BY <1>0 DEF PoolState
    <2>3. member' \in [Slots -> MemberObject]
      <3>1. member[s] \in MemberObject /\ member[s].deleting \in BOOLEAN
        BY <1>0, <2>2 DEF Lists, MemberObject
      <3>2. (member[s].deleting \/ member[s].phase # Absent) \in BOOLEAN
        OBVIOUS
      <3>3. [member[s] EXCEPT !.deleting = (@ \/ member[s].phase # Absent)]
               \in MemberObject
        BY <3>1, <3>2, MemberWrites
      <3>4. [member EXCEPT ![s].deleting = (@ \/ member[s].phase # Absent)]
               \in [Slots -> MemberObject]
        BY <1>0, <2>2, <3>3 DEF Lists
      <3>5. [member EXCEPT ![s] = NoMember] \in [Slots -> MemberObject]
        BY <1>0, <2>2, Pieces DEF Lists
      <3>6. QED
        BY <2>1, <3>4, <3>5 DEF AfterDelete
    <2>4. pool' \in PoolState
      BY <1>0, <2>1 DEF PoolState
    <2>5. QED
      BY <1>3, <2>3, <2>4 DEF DeleteMember, TypeOK, PoolState, history
  <1>4. CASE DeleteFails
    <2>1. pool' \in PoolState
      BY <1>0, <1>4 DEF DeleteFails, PoolState
    <2>2. faults' \in Nat
      BY <1>0, <1>4 DEF DeleteFails, Fault
    <2>3. QED
      BY <1>4, <2>1, <2>2 DEF DeleteFails, TypeOK, PoolState, history
  <1>5. CASE SpawnFails
    <2>1. pool' \in PoolState
      BY <1>0, <1>5 DEF SpawnFails, PoolState
    <2>2. faults' \in Nat
      BY <1>0, <1>5 DEF SpawnFails, Fault
    <2>3. QED
      BY <1>5, <2>1, <2>2 DEF SpawnFails, TypeOK, PoolState, history
  <1>6. CASE PatchPoolStatus
    BY <1>0, <1>6, Pieces DEF PatchPoolStatus, TypeOK, PoolState, history
  <1>7. CASE LosePool
    BY <1>0, <1>7, Pieces DEF LosePool, Fault, TypeOK, PoolState, history
  <1>8. CASE DeletePool
    BY <1>8 DEF DeletePool, TypeOK, history
  <1>9. QED
    BY <1>1, <1>2, <1>3, <1>4, <1>5, <1>6, <1>7, <1>8 DEF PoolNext

\* Writing fields of an Allocation.
LEMMA AllocWrites ==
    ASSUME NEW o \in AllocObject
    PROVE  /\ \A ph \in AllocPhases : [o EXCEPT !.phase = ph] \in AllocObject
           /\ [o EXCEPT !.expired = TRUE] \in AllocObject
           /\ [o EXCEPT !.deleting = TRUE] \in AllocObject
           /\ [o EXCEPT !.phase = "Gone", !.assigned = NoSlot, !.expired = FALSE]
                \in AllocObject
           /\ \A ph \in AllocPhases, s \in Slots \cup {NoSlot}, b \in BOOLEAN :
                 [o EXCEPT !.phase = ph, !.assigned = s, !.expired = b] \in AllocObject
  BY DEF AllocObject, AllocPhases

\* A start of a reconcile keeps its own variables well typed.
LEMMA StartTypeOK ==
    ASSUME TypeOK, NEW a \in Allocs, Start(a)
    PROVE  faults' \in Nat /\ behind' \in [Allocs -> BOOLEAN]
  <1>1. faults \in Nat /\ behind \in [Allocs -> BOOLEAN]
    BY DEF TypeOK
  <1>2. faults' \in Nat
    BY <1>1 DEF Start, Fault
  <1>3. Behind(a) \in BOOLEAN
    BY DEF Behind
  <1>4. QED
    BY <1>1, <1>2, <1>3 DEF Start

\* So does the count of slips.
LEMMA SlipTypeOK ==
    ASSUME TypeOK, NEW a \in Allocs, NEW slipped, Slip(a, slipped)
    PROVE  /\ slips' \in [Allocs -> Nat]
           /\ slips'[a] = IF slipped THEN slips[a] + 1 ELSE slips[a]
           /\ \A b \in Allocs : b # a => slips'[b] = slips[b]
  BY DEF TypeOK, Slip

\* The allocation controller's steps, and the requestors'.
LEMMA AllocTypeOK ==
    ASSUME TypeOK, NEW a \in Allocs, AllocNext(a)
    PROVE  TypeOK'
  <1>0. /\ alloc[a] \in AllocObject /\ cache[a] \in AllocCopy
        /\ binder[a] \in BinderState /\ binder \in [Allocs -> BinderState]
        /\ Seen(a) \in AllocCopy /\ faults \in Nat
    BY DEF TypeOK, BinderState, Seen
  <1>1. CASE DecideRelease(a)
    <2>1. [step |-> "release", slot |-> Seen(a).assigned] \in BinderState
      BY <1>0 DEF BinderState, AllocCopy
    <2>2. binder' \in [Allocs -> BinderState]
      BY <1>0, <1>1, <2>1 DEF DecideRelease
    <2>3. faults' \in Nat /\ behind' \in [Allocs -> BOOLEAN]
      BY <1>1, StartTypeOK DEF DecideRelease
    <2>4. QED
      BY <1>1, <2>2, <2>3 DEF DecideRelease, TypeOK, BinderState
  <1>2. CASE PatchUnserved(a)
    <2>1. alloc' \in [Allocs -> AllocObject]
      <3>1. [alloc[a] EXCEPT !.phase = IF a \in Matched THEN "Queued"
                                       ELSE "NoMatchingPool"] \in AllocObject
        BY <1>0, AllocWrites DEF AllocPhases
      <3>2. QED
        BY <1>2, <3>1 DEF PatchUnserved, TypeOK
    <2>2. /\ faults' \in Nat /\ behind' \in [Allocs -> BOOLEAN]
          /\ slips' \in [Allocs -> Nat]
      BY <1>2, StartTypeOK, SlipTypeOK DEF PatchUnserved, Routes
    <2>3. QED
      BY <1>2, <2>1, <2>2 DEF PatchUnserved, TypeOK
  <1>3. CASE DecideBind(a)
    <2>1. \A s \in FreeInStatus : [step |-> "bind", slot |-> s] \in BinderState
      BY DEF FreeInStatus, BinderState
    <2>2. binder' \in [Allocs -> BinderState]
      BY <1>0, <1>3, <2>1 DEF DecideBind
    <2>3. /\ faults' \in Nat /\ behind' \in [Allocs -> BOOLEAN]
          /\ slips' \in [Allocs -> Nat]
      BY <1>3, StartTypeOK, SlipTypeOK DEF DecideBind, Routes
    <2>4. QED
      BY <1>3, <2>2, <2>3 DEF DecideBind, TypeOK, BinderState
  <1>4. CASE BindMember(a)
    <2>1. binder' \in [Allocs -> BinderState]
      <3>1. [binder[a] EXCEPT !.step = "record"] \in BinderState
        BY <1>0 DEF BinderState
      <3>2. QED
        BY <1>0, <1>4, <3>1, Pieces DEF BindMember
    <2>2. member' \in [Slots -> MemberObject]
      <3>1. ASSUME NEW s \in Slots PROVE [member[s] EXCEPT !.holder = a] \in MemberObject
        BY MemberWrites DEF TypeOK
      <3>2. CASE member' = [member EXCEPT ![binder[a].slot].holder = a]
        <4>1. \A s \in Slots : member'[s] \in MemberObject
          BY <3>1, <3>2 DEF TypeOK
        <4>2. QED
          BY <3>2, <4>1 DEF TypeOK
      <3>3. QED
        BY <1>4, <3>2 DEF BindMember, TypeOK
    <2>3. QED
      BY <1>4, <2>1, <2>2 DEF BindMember, TypeOK, BinderState, history
  <1>5. CASE PatchAllocStatus(a)
    <2>1. alloc' \in [Allocs -> AllocObject]
      <3>1. /\ (IF binder[a].step = "record" THEN "Bound" ELSE "Released") \in AllocPhases
            /\ binder[a].slot \in Slots \cup {NoSlot}
            /\ (alloc[a].expired /\ binder[a].step = "release") \in BOOLEAN
        BY <1>0 DEF AllocPhases, BinderState
      <3>2. [alloc[a] EXCEPT
               !.phase = IF binder[a].step = "record" THEN "Bound" ELSE "Released",
               !.assigned = binder[a].slot,
               !.expired = alloc[a].expired /\ binder[a].step = "release"] \in AllocObject
        BY <1>0, <3>1, AllocWrites
      <3>3. alloc' = alloc \/ alloc' = [alloc EXCEPT ![a] =
               [alloc[a] EXCEPT
                  !.phase = IF binder[a].step = "record" THEN "Bound" ELSE "Released",
                  !.assigned = binder[a].slot,
                  !.expired = alloc[a].expired /\ binder[a].step = "release"]]
        BY <1>0, <1>5 DEF PatchAllocStatus, TypeOK
      <3>4. QED
        BY <3>2, <3>3 DEF TypeOK
    <2>2. binder' \in [Allocs -> BinderState]
      BY <1>0, <1>5, Pieces DEF PatchAllocStatus
    <2>3. QED
      BY <1>5, <2>1, <2>2 DEF PatchAllocStatus, TypeOK, BinderState, history
  <1>6. CASE LoseBinder(a)
    <2>1. binder' \in [Allocs -> BinderState]
      BY <1>0, <1>6, Pieces DEF LoseBinder
    <2>2. faults' \in Nat /\ slips' \in [Allocs -> Nat]
      BY <1>0, <1>6, SlipTypeOK DEF LoseBinder, Fault
    <2>3. QED
      BY <1>6, <2>1, <2>2 DEF LoseBinder, TypeOK, BinderState
  <1>7. CASE Deliver(a)
    <2>1. CopyOf(alloc[a]) \in AllocCopy
      BY <1>0, CopyType
    <2>2. QED
      BY <1>7, <2>1 DEF Deliver, TypeOK, history
  <1>8. CASE Request(a) \/ Expire(a) \/ DeleteAlloc(a)
    <2>1. /\ [alloc[a] EXCEPT !.phase = "Pending"] \in AllocObject
          /\ [alloc[a] EXCEPT !.expired = TRUE] \in AllocObject
          /\ [alloc[a] EXCEPT !.deleting = TRUE] \in AllocObject
          /\ [alloc[a] EXCEPT !.phase = "Gone", !.assigned = NoSlot, !.expired = FALSE]
               \in AllocObject
      BY <1>0, AllocWrites DEF AllocPhases
    <2>2. alloc' \in [Allocs -> AllocObject]
      BY <1>8, <2>1 DEF Request, Expire, DeleteAlloc, TypeOK
    <2>3. QED
      BY <1>8, <2>2 DEF Request, Expire, DeleteAlloc, TypeOK, history
  <1>9. QED
    BY <1>1, <1>2, <1>3, <1>4, <1>5, <1>6, <1>7, <1>8 DEF AllocNext

\* The Process controller's steps on members, and failures.
LEMMA MemberTypeOK ==
    ASSUME TypeOK, NEW s \in Slots, MemberNext(s)
    PROVE  TypeOK'
  <1>0. member[s] \in MemberObject /\ faults \in Nat
    BY DEF TypeOK
  <1>1. ASSUME NEW ph \in MemberPhases, MoveTo(s, ph) PROVE TypeOK'
    <2>1. [member[s] EXCEPT !.phase = ph] \in MemberObject
      BY <1>0, MemberWrites
    <2>2. QED
      BY <1>1, <2>1 DEF MoveTo, TypeOK, history
  <1>2. {"Running", "Attested", "Reconverging", "Exiting", "Zombie", "Reaped", "Failed"} \subseteq MemberPhases
    BY DEF MemberPhases
  <1>3. CASE MemberConverges(s)
    BY <1>1, <1>2, <1>3 DEF MemberConverges
  <1>4. CASE MemberDrains(s)
    <2>1. CASE member' = [member EXCEPT ![s] = NoMember]
      BY <1>4, <2>1, Pieces DEF MemberDrains, TypeOK, MoveTo, history
    <2>2. QED
      BY <1>1, <1>2, <1>4, <2>1 DEF MemberDrains
  <1>5. CASE MemberFails(s)
    <2>1. /\ \A ph \in {"Failed", "Reconverging", "Exiting"} :
                [member[s] EXCEPT !.phase = ph] \in MemberObject
          /\ [member[s] EXCEPT !.stale = TRUE] \in MemberObject
      BY <1>0, <1>2, MemberWrites
    <2>2. member' \in [Slots -> MemberObject]
      BY <1>5, <2>1 DEF MemberFails, TypeOK
    <2>3. QED
      BY <1>0, <1>5, <2>2 DEF MemberFails, Fault, TypeOK, history
  <1>6. QED
    BY <1>3, <1>4, <1>5 DEF MemberNext

\* Every step keeps the types.
LEMMA NextTypeOK ==
    ASSUME TypeOK, [Next]_vars
    PROVE  TypeOK'
  <1>1. CASE UNCHANGED vars
    BY <1>1 DEF vars, history, TypeOK
  <1>2. QED
    BY <1>1, PoolTypeOK, AllocTypeOK, MemberTypeOK DEF Next

\* Both controllers and the objects they share are well typed in every
\* reachable state: counts never go negative and every plan is about slots.
THEOREM TypeCorrect == Spec => []TypeOK
  BY InitTypeOK, NextTypeOK, PTL DEF Spec

-----------------------------------------------------------------------------
(***************************************************************************)
(* SupplyBounded.  The bound alone is not inductive: creates that are      *)
(* planned and not yet made have to be counted with the members.           *)
(***************************************************************************)

SupplyInv == desired = 0 => Cardinality(Ready(member)) + pool.spawn <= Target

\* Every step but a create leaves no more members Ready, and no more creates
\* planned unless it is the step that plans.
Shrinks == /\ desired' = desired
           /\ \A s \in Slots : s \in Ready(member') => s \in Ready(member)
           /\ pool'.spawn <= pool.spawn

\* Such a step keeps the bound.
LEMMA ShrinkKeepsSupply ==
    ASSUME TypeOK, TypeOK', SupplyInv, Shrinks
    PROVE  SupplyInv'
  <1>1. Ready(member) \in SUBSET Slots /\ Ready(member') \in SUBSET Slots
    BY DEF Ready
  <1>2. Ready(member') \subseteq Ready(member)
    BY <1>1 DEF Shrinks
  <1>3. Cardinality(Ready(member')) <= Cardinality(Ready(member))
    BY <1>1, <1>2, SlotCount, FS_Subset
  <1>4. Cardinality(Ready(member)) \in Nat /\ Cardinality(Ready(member')) \in Nat
    BY <1>1, SlotCount
  <1>5. pool.spawn \in Nat /\ pool'.spawn \in Nat /\ Target \in Nat
    BY Sizes DEF TypeOK, Target
  <1>6. QED
    BY <1>3, <1>4, <1>5 DEF SupplyInv, Shrinks

\* A pool reconcile plans at most what is missing, and a create trades one
\* planned for one that exists.
LEMMA PoolSupply ==
    ASSUME TypeOK, TypeOK', SupplyInv, PoolNext
    PROVE  SupplyInv'
  <1>0. /\ pool \in PoolState /\ member \in Lists /\ pool.spawn \in Nat
    BY DEF TypeOK, PoolState, Lists
  <1>1. CASE ListAndDecide
    <2>1. PICK plan \in Decisions(member) : pool'.spawn = plan.spawn
      BY <1>1 DEF ListAndDecide
    <2>2. UNCHANGED <<desired, member>>
      BY <1>1 DEF ListAndDecide
    <2>3. SUFFICES ASSUME desired = 0
                   PROVE  Cardinality(Ready(member)) + plan.spawn <= Target
      BY <2>1, <2>2 DEF SupplyInv
    <2>4. plan = DecidePoolReconcile(member)
      BY <2>3 DEF Decisions
    <2>5. plan.spawn = 0 \/ Cardinality(Ready(member)) + plan.spawn <= Target
      BY <1>0, <2>4, ReconcilePlan
    <2>6. Cardinality(Ready(member)) \in Nat /\ Target \in Nat
      BY SlotCount, Sizes DEF Ready, Target
    <2>7. Cardinality(Ready(member)) + pool.spawn <= Target
      BY <2>3 DEF SupplyInv
    <2>8. QED
      BY <1>0, <2>5, <2>6, <2>7
  <1>2. CASE SpawnMember
    <2>1. PICK s \in pool.next :
             /\ member' = [member EXCEPT ![s] =
                             IF @.phase = Absent THEN NewMember ELSE @]
             /\ pool' = [pool EXCEPT !.spawn = @ - 1,
                                !.next = IF pool.spawn = 1 THEN {} ELSE @ \ {s}]
      BY <1>2 DEF SpawnMember
    <2>2. s \in Slots /\ desired' = desired /\ pool.spawn > 0
      BY <1>0, <1>2 DEF PoolState, SpawnMember
    <2>3. pool'.spawn = pool.spawn - 1
      BY <1>0, <2>1 DEF PoolState
    <2>4. \A t \in Slots : t # s => member'[t] = member[t]
      BY <1>0, <2>1, <2>2 DEF Lists
    <2>5. Ready(member') \subseteq Ready(member) \cup {s}
      BY <2>4 DEF Ready
    <2>6. Ready(member) \in SUBSET Slots /\ Ready(member') \in SUBSET Slots
      BY DEF Ready
    <2>7. Cardinality(Ready(member')) <= Cardinality(Ready(member)) + 1
      <3>1. /\ IsFiniteSet(Ready(member) \cup {s})
            /\ Cardinality(Ready(member) \cup {s}) =
                 IF s \in Ready(member) THEN Cardinality(Ready(member))
                 ELSE Cardinality(Ready(member)) + 1
        BY <2>6, SlotCount, FS_AddElement
      <3>2. Cardinality(Ready(member')) <= Cardinality(Ready(member) \cup {s})
        BY <2>5, <3>1, FS_Subset
      <3>3. QED
        BY <2>6, <3>1, <3>2, SlotCount
    <2>8. Cardinality(Ready(member)) \in Nat /\ Cardinality(Ready(member')) \in Nat
          /\ Target \in Nat
      BY <2>6, SlotCount, Sizes DEF Target
    <2>9. QED
      BY <1>0, <2>2, <2>3, <2>7, <2>8 DEF SupplyInv
  <1>3. CASE DeleteMember
    <2>1. PICK s \in pool.doomed :
             /\ member' \in AfterDelete(s)
             /\ pool' = [pool EXCEPT !.doomed = @ \ {s}]
      BY <1>3 DEF DeleteMember
    <2>2. s \in Slots
      BY <1>0 DEF PoolState
    <2>3. pool'.spawn = pool.spawn /\ desired' = desired
      BY <1>0, <1>3, <2>1 DEF PoolState, DeleteMember
    <2>4. CASE member' = [member EXCEPT ![s] = NoMember]
      <3>1. s \notin Ready(member') /\ \A t \in Slots : t # s => member'[t] = member[t]
        BY <1>0, <2>2, <2>4 DEF Lists, Ready, NoMember, Absent
      <3>2. Shrinks
        BY <1>0, <2>3, <3>1 DEF Shrinks, Ready
      <3>3. QED
        BY <3>2, ShrinkKeepsSupply
    <2>5. CASE member' = [member EXCEPT ![s].deleting = (@ \/ member[s].phase # Absent)]
      <3>1. \A t \in Slots : /\ member'[t].phase = member[t].phase
                             /\ member'[t].holder = member[t].holder
        BY <1>0, <2>5 DEF Lists, MemberObject
      <3>2. Shrinks
        BY <1>0, <2>3, <3>1 DEF Shrinks, Ready
      <3>3. QED
        BY <3>2, ShrinkKeepsSupply
    <2>6. QED
      BY <2>1, <2>4, <2>5 DEF AfterDelete
  <1>4. CASE DeleteFails \/ SpawnFails
    <2>1. ASSUME DeleteFails
          PROVE  pool'.spawn <= pool.spawn /\ UNCHANGED <<desired, member>>
      <3>1. PICK s \in pool.doomed : pool' = [pool EXCEPT !.doomed = @ \ {s}]
        BY <2>1 DEF DeleteFails
      <3>2. pool'.spawn = pool.spawn
        BY <1>0, <3>1 DEF PoolState
      <3>3. QED
        BY <1>0, <2>1, <3>2 DEF DeleteFails
    <2>2. ASSUME SpawnFails
          PROVE  pool'.spawn <= pool.spawn /\ UNCHANGED <<desired, member>>
      <3>1. pool'.spawn = 0
        BY <1>0, <2>2 DEF SpawnFails, PoolState
      <3>2. QED
        BY <1>0, <2>2, <3>1 DEF SpawnFails
    <2>3. pool'.spawn <= pool.spawn /\ UNCHANGED <<desired, member>>
      BY <1>0, <1>4, <2>1, <2>2
    <2>4. QED
      BY <2>3, ShrinkKeepsSupply DEF Shrinks
  <1>5. CASE PatchPoolStatus \/ LosePool
    <2>1. pool'.spawn = 0 /\ UNCHANGED <<desired, member>>
      BY <1>5 DEF PatchPoolStatus, LosePool, IdlePool
    <2>2. QED
      BY <1>0, <2>1, ShrinkKeepsSupply DEF Shrinks
  <1>6. CASE DeletePool
    <2>1. UNCHANGED <<desired, member, pool>>
      BY <1>6 DEF DeletePool
    <2>2. QED
      BY <1>0, <2>1, ShrinkKeepsSupply DEF Shrinks
  <1>7. QED
    BY <1>1, <1>2, <1>3, <1>4, <1>5, <1>6 DEF PoolNext

\* Binding a member takes it out of the supply.
LEMMA AllocSupply ==
    ASSUME TypeOK, TypeOK', SupplyInv, NEW a \in Allocs, AllocNext(a)
    PROVE  SupplyInv'
  <1>0. member \in Lists /\ pool.spawn \in Nat
    BY DEF TypeOK, Lists
  <1>1. UNCHANGED <<desired, pool>>
    BY DEF AllocNext, DecideRelease, PatchUnserved, DecideBind, BindMember,
           PatchAllocStatus, LoseBinder, Deliver, Request, Expire, DeleteAlloc
  <1>2. CASE BindMember(a)
    <2>1. \A s \in Slots : s \in Ready(member') => s \in Ready(member)
      <3>1. CASE UNCHANGED member
        BY <3>1
      <3>2. CASE member' = [member EXCEPT ![binder[a].slot].holder = a]
        <4>1. a # NoAlloc
          BY WarmPoolAssumption DEF WarmPoolAssumption
        <4>2. \A s \in Slots :
                 /\ member'[s].phase = member[s].phase
                 /\ member'[s].holder = member[s].holder \/ member'[s].holder = a
          BY <1>0, <3>2 DEF Lists, MemberObject
        <4>3. QED
          BY <4>1, <4>2 DEF Ready
      <3>3. QED
        BY <1>2, <3>1, <3>2 DEF BindMember
    <2>2. QED
      BY <1>0, <1>1, <2>1, ShrinkKeepsSupply DEF Shrinks
  <1>3. CASE ~BindMember(a)
    <2>1. UNCHANGED member
      BY <1>3 DEF AllocNext, DecideRelease, PatchUnserved, DecideBind,
                  PatchAllocStatus, LoseBinder, Deliver, Request, Expire, DeleteAlloc
    <2>2. QED
      BY <1>0, <1>1, <2>1, ShrinkKeepsSupply DEF Shrinks
  <1>4. QED
    BY <1>2, <1>3

\* No move of a member's Process makes it Ready that was not.
LEMMA MemberSupply ==
    ASSUME TypeOK, TypeOK', SupplyInv, NEW s \in Slots, MemberNext(s)
    PROVE  SupplyInv'
  <1>0. member \in Lists /\ pool.spawn \in Nat /\ member[s] \in MemberObject
    BY DEF TypeOK, Lists
  <1>1. UNCHANGED <<desired, pool>>
    BY DEF MemberNext, MemberConverges, MemberDrains, MemberFails, MoveTo
  <1>2. \A t \in Slots : t # s => member'[t] = member[t]
    BY <1>0 DEF MemberNext, MemberConverges, MemberDrains, MemberFails, MoveTo, Lists
  <1>3. s \in Ready(member') => s \in Ready(member)
    <2>1. ASSUME NEW ph, member' = [member EXCEPT ![s].phase = ph]
          PROVE  member'[s].phase = ph /\ member'[s].holder = member[s].holder
      BY <1>0, <2>1 DEF Lists, MemberObject
    <2>2. CASE MemberConverges(s)
      BY <2>1, <2>2 DEF MemberConverges, MoveTo, Ready
    <2>4. CASE MemberDrains(s)
      <3>1. CASE member' = [member EXCEPT ![s] = NoMember]
        BY <1>0, <3>1 DEF Lists, Ready, NoMember, Absent
      <3>2. CASE \E ph \in {"Exiting", "Zombie", "Reaped"} : MoveTo(s, ph)
        BY <2>1, <3>2 DEF MoveTo, Ready
      <3>3. QED
        BY <2>4, <3>1, <3>2 DEF MemberDrains
    <2>5. CASE MemberFails(s)
      <3>1. CASE \/ member' = [member EXCEPT ![s].phase = "Failed"]
                 \/ member' = [member EXCEPT ![s].phase = "Exiting"]
        BY <2>1, <3>1 DEF Ready
      <3>4. CASE /\ member' = [member EXCEPT ![s].phase = "Reconverging"]
                 /\ member[s].phase = "Attested"
        BY <2>1, <3>4 DEF Ready
      <3>2. CASE member' = [member EXCEPT ![s].stale = TRUE]
        <4>1. member'[s].phase = member[s].phase /\ member'[s].holder = member[s].holder
          BY <1>0, <3>2 DEF Lists, MemberObject
        <4>2. QED
          BY <4>1 DEF Ready
      <3>3. QED
        BY <2>5, <3>1, <3>2, <3>4 DEF MemberFails
    <2>6. QED
      BY <2>2, <2>4, <2>5 DEF MemberNext
  <1>4. \A t \in Slots : t \in Ready(member') => t \in Ready(member)
    BY <1>2, <1>3 DEF Ready
  <1>5. QED
    BY <1>0, <1>1, <1>4, ShrinkKeepsSupply DEF Shrinks

\* Allocation-driven sizing never over-provisions, for any sizes, any number of
\* slots and any interleaving of ticks, lost calls, crashes, bindings, drifts
\* and failures: decide_pool_reconcile counts what is on its way.
THEOREM SupplyIsBounded == Spec => []SupplyBounded
  <1>1. Init => SupplyInv
    <2>1. ASSUME Init PROVE SupplyInv
      <3>1. Ready(member) = {} /\ pool.spawn = 0
        BY <2>1 DEF Init, Ready, NoMember, Absent, IdlePool
      <3>2. Target \in Nat
        BY Sizes DEF Target
      <3>3. QED
        BY <3>1, <3>2, FS_EmptySet DEF SupplyInv
    <2>2. QED
      BY <2>1
  <1>2. ASSUME TypeOK, TypeOK', SupplyInv, [Next]_vars PROVE SupplyInv'
    <2>1. CASE UNCHANGED vars
      BY <1>2, <2>1 DEF vars, SupplyInv, Ready
    <2>2. QED
      BY <1>2, <2>1, PoolSupply, AllocSupply, MemberSupply DEF Next
  <1>3. TypeOK /\ SupplyInv => SupplyBounded
    <2>1. SUFFICES ASSUME TypeOK, SupplyInv, desired = 0
                   PROVE  Cardinality(Spare(member)) <= Target
      BY DEF SupplyBounded
    <2>2. Spare(member) = Ready(member)
      BY <2>1, ReadySupply DEF TypeOK, Lists
    <2>3. Cardinality(Ready(member)) \in Nat /\ pool.spawn \in Nat /\ Target \in Nat
      BY <2>1, SlotCount, Sizes DEF TypeOK, Ready, Target
    <2>4. Cardinality(Ready(member)) + pool.spawn <= Target
      BY <2>1 DEF SupplyInv
    <2>5. Cardinality(Ready(member)) <= Target
      BY <2>3, <2>4
    <2>6. QED
      BY <2>2, <2>5
  <1>4. QED
    BY <1>1, <1>2, <1>3, TypeCorrect, PTL DEF Spec

-----------------------------------------------------------------------------
(***************************************************************************)
(* BindingStable.  What a reconcile in flight decided has to be tied to    *)
(* the Allocation it will write: unless it started from a copy that lacked *)
(* the phase or the member, nothing but that reconcile, or a deletion,     *)
(* moves the Allocation in between.                                        *)
(***************************************************************************)

Unserved == {"Unborn", "Pending", "Queued", "NoMatchingPool"}

BinderSound(a) ==
    ~behind[a] =>
    /\ binder[a].step \in {"bind", "record"}
         => alloc[a].phase \in Unserved \cup {"Gone"}
    /\ binder[a].step = "release"
         => \/ alloc[a].phase = "Gone"
            \/ alloc[a].assigned = binder[a].slot

BindersSound == \A a \in Allocs : BinderSound(a)

\* What a step may do to one Allocation.
Steady(a) ==
    ~behind'[a] =>
    /\ alloc[a].phase = "Bound" /\ alloc'[a].phase # "Gone"
         => /\ alloc'[a].phase \in {"Bound", "Released"}
            /\ alloc'[a].assigned = alloc[a].assigned
    /\ alloc[a].phase = "Released" => alloc'[a].phase \in {"Released", "Gone"}

\* A reconcile that does not start behind sees the phase and the member as
\* they are.
LEMMA StartsFresh ==
    ASSUME TypeOK, NEW a \in Allocs, Start(a)
    PROVE  /\ binder[a].step = "idle"
           /\ behind'[a] = Behind(a)
           /\ ~behind'[a] => /\ Seen(a).phase = alloc[a].phase
                             /\ Seen(a).assigned = alloc[a].assigned
  BY DEF TypeOK, Start, CanStart, Behind

\* A step of one allocation's reconcile or requestor keeps its reconcile tied
\* to its Allocation, and moves a Bound one forward only.
LEMMA AllocKeepsBinder ==
    ASSUME TypeOK, NEW a \in Allocs, BinderSound(a), AllocNext(a)
    PROVE  BinderSound(a)' /\ Steady(a)
  <1>0. /\ alloc \in [Allocs -> AllocObject] /\ alloc[a] \in AllocObject
        /\ binder \in [Allocs -> BinderState] /\ binder[a] \in BinderState
    BY DEF TypeOK, BinderState
  <1>1. CASE DecideRelease(a)
    <2>1. alloc' = alloc /\ binder'[a] = [step |-> "release", slot |-> Seen(a).assigned]
      BY <1>0, <1>1 DEF DecideRelease
    <2>2. ~behind'[a] => Seen(a).assigned = alloc[a].assigned
      BY <1>1, StartsFresh DEF DecideRelease
    <2>3. QED
      BY <2>1, <2>2 DEF BinderSound, Steady
  <1>2. CASE PatchUnserved(a)
    <2>1. /\ binder' = binder /\ binder[a].step = "idle"
          /\ Seen(a).phase \in {"Pending", "Queued", "NoMatchingPool"}
          /\ ~behind'[a] => Seen(a).phase = alloc[a].phase
      BY <1>2, StartsFresh DEF PatchUnserved, Routes, NeedsPoolRouting
    <2>2. QED
      BY <2>1 DEF BinderSound, Steady
  <1>3. CASE DecideBind(a)
    <2>1. /\ alloc' = alloc
          /\ Seen(a).phase \in {"Pending", "Queued", "NoMatchingPool"}
          /\ ~behind'[a] => Seen(a).phase = alloc[a].phase
      BY <1>3, StartsFresh DEF DecideBind, Routes, NeedsPoolRouting
    <2>2. binder'[a].step = "bind"
      BY <1>0, <1>3 DEF DecideBind
    <2>3. QED
      BY <2>1, <2>2 DEF BinderSound, Unserved, Steady
  <1>4. CASE BindMember(a)
    <2>1. alloc' = alloc /\ binder[a].step = "bind" /\ behind' = behind
      BY <1>4 DEF BindMember, history
    <2>2. binder'[a].step \in {"idle", "record"}
      BY <1>0, <1>4 DEF BindMember, IdleBinder, BinderState
    <2>3. QED
      BY <2>1, <2>2 DEF BinderSound, Steady
  <1>5. CASE PatchAllocStatus(a)
    <2>1. /\ binder'[a].step = "idle" /\ binder[a].step \in {"record", "release"}
          /\ behind' = behind
      BY <1>0, <1>5 DEF PatchAllocStatus, IdleBinder, history
    <2>2. CASE alloc[a].phase = "Gone"
      <3>1. alloc' = alloc
        BY <1>5, <2>2 DEF PatchAllocStatus
      <3>2. QED
        BY <2>1, <2>2, <3>1 DEF BinderSound, Unserved, Steady
    <2>3. CASE alloc[a].phase # "Gone"
      <3>1. /\ alloc'[a].phase = IF binder[a].step = "record" THEN "Bound" ELSE "Released"
            /\ alloc'[a].assigned = binder[a].slot
        BY <1>0, <1>5, <2>3 DEF PatchAllocStatus, AllocObject
      <3>2. QED
        BY <2>1, <2>3, <3>1 DEF BinderSound, Unserved, Steady
    <2>4. QED
      BY <2>2, <2>3
  <1>6. CASE LoseBinder(a)
    <2>1. alloc' = alloc /\ binder'[a].step = "idle"
      BY <1>0, <1>6 DEF LoseBinder, IdleBinder
    <2>2. QED
      BY <2>1 DEF BinderSound, Steady
  <1>7. CASE Deliver(a)
    <2>1. UNCHANGED <<alloc, binder, behind>>
      BY <1>7 DEF Deliver, history
    <2>2. QED
      BY <2>1 DEF BinderSound, Steady
  <1>8. CASE Request(a)
    <2>1. /\ binder' = binder /\ behind' = behind /\ alloc[a].phase = "Unborn"
          /\ alloc'[a].phase = "Pending" /\ alloc'[a].assigned = alloc[a].assigned
      BY <1>0, <1>8 DEF Request, AllocObject, history
    <2>2. QED
      BY <2>1 DEF BinderSound, Unserved, Steady
  <1>9. CASE Expire(a)
    <2>1. /\ binder' = binder /\ behind' = behind
          /\ alloc'[a].phase = alloc[a].phase /\ alloc'[a].assigned = alloc[a].assigned
      BY <1>0, <1>9 DEF Expire, AllocObject, history
    <2>2. QED
      BY <2>1 DEF BinderSound, Steady
  <1>10. CASE DeleteAlloc(a)
    <2>1. /\ binder' = binder /\ behind' = behind
          /\ \/ alloc'[a].phase = "Gone"
             \/ /\ alloc'[a].phase = alloc[a].phase
                /\ alloc'[a].assigned = alloc[a].assigned
      BY <1>0, <1>10 DEF DeleteAlloc, AllocObject, history
    <2>2. QED
      BY <2>1 DEF BinderSound, Unserved, Steady
  <1>11. QED
    BY <1>1, <1>2, <1>3, <1>4, <1>5, <1>6, <1>7, <1>8, <1>9, <1>10 DEF AllocNext

\* The steps of one allocation leave the others and their reconciles alone.
LEMMA OthersUntouched ==
    ASSUME TypeOK, NEW a \in Allocs, NEW b \in Allocs, a # b, AllocNext(a)
    PROVE  /\ alloc'[b] = alloc[b] /\ binder'[b] = binder[b]
           /\ behind'[b] = behind[b] /\ slips'[b] = slips[b]
  BY DEF TypeOK, AllocNext, DecideRelease, PatchUnserved, DecideBind, BindMember,
         PatchAllocStatus, LoseBinder, Deliver, Request, Expire, DeleteAlloc, Routes,
         Start, Slip, history

\* The pool controller and the members' Processes touch no Allocation.
LEMMA PoolLeavesAllocs ==
    ASSUME PoolNext \/ \E s \in Slots : MemberNext(s)
    PROVE  UNCHANGED <<alloc, binder, behind, slips>>
  BY DEF PoolNext, ListAndDecide, SpawnMember, DeleteMember, DeleteFails, SpawnFails,
         PatchPoolStatus, LosePool, DeletePool, MemberNext, MemberConverges,
         MemberDrains, MemberFails, MoveTo, history

\* Every step keeps every reconcile tied to its Allocation.
LEMMA NextKeepsBinders ==
    ASSUME TypeOK, BindersSound, [Next]_vars
    PROVE  BindersSound' /\ \A a \in Allocs : Steady(a)
  <1>1. CASE UNCHANGED <<alloc, binder, behind>>
    BY <1>1 DEF BindersSound, BinderSound, Steady
  <1>2. ASSUME NEW a \in Allocs, AllocNext(a)
        PROVE  BindersSound' /\ \A b \in Allocs : Steady(b)
    <2>1. ASSUME NEW b \in Allocs PROVE BinderSound(b)' /\ Steady(b)
      <3>1. CASE b = a
        BY <1>2, <3>1, AllocKeepsBinder DEF BindersSound
      <3>2. CASE b # a
        <4>1. alloc'[b] = alloc[b] /\ binder'[b] = binder[b] /\ behind'[b] = behind[b]
          BY <1>2, <3>2, OthersUntouched
        <4>2. QED
          BY <4>1 DEF BindersSound, BinderSound, Steady
      <3>3. QED
        BY <3>1, <3>2
    <2>2. QED
      BY <2>1 DEF BindersSound
  <1>3. CASE UNCHANGED vars
    BY <1>1, <1>3 DEF vars, history
  <1>4. QED
    BY <1>1, <1>2, <1>3, PoolLeavesAllocs DEF Next

\* No reconcile is under way at first.
LEMMA InitBinders == Init => BindersSound
  BY DEF Init, BindersSound, BinderSound, IdleBinder

\* A Bound allocation keeps its member until it is Released or gone, and
\* Released is final, for any pool and any number of requestors, lost calls,
\* crashes and lagging copies: only a reconcile that started from a copy
\* without the member takes it away.
THEOREM BindingIsStable == Spec => BindingStable
  <1>1. TypeOK /\ BindersSound /\ [Next]_vars => BindersSound'
    BY NextKeepsBinders
  <1>2. Spec => []BindersSound
    BY <1>1, InitBinders, TypeCorrect, PTL DEF Spec
  <1>3. TypeOK /\ BindersSound /\ [Next]_vars =>
          [\A a \in Allocs :
             ~behind'[a] =>
             /\ alloc[a].phase = "Bound" /\ alloc'[a].phase # "Gone"
                  => /\ alloc'[a].phase \in {"Bound", "Released"}
                     /\ alloc'[a].assigned = alloc[a].assigned
             /\ alloc[a].phase = "Released"
                  => alloc'[a].phase \in {"Released", "Gone"}]_vars
    BY NextKeepsBinders DEF Steady
  <1>4. QED
    BY <1>2, <1>3, TypeCorrect, PTL DEF Spec, BindingStable

-----------------------------------------------------------------------------
(***************************************************************************)
(* OneMemberEach.  The bound has to know which of the held members the     *)
(* Allocation accounts for: none while a reconcile is about to bind or the *)
(* Allocation is unserved, one once a binding is made.                     *)
(***************************************************************************)

Held(a) == {s \in Slots : member[s].holder = a}

Accounted(a) ==
    CASE binder[a].step = "bind"   -> 0
      [] binder[a].step = "record" -> 1
      [] OTHER -> IF alloc[a].phase \in Unserved THEN 0 ELSE 1

HoldSound(a) == Cardinality(Held(a)) <= slips[a] + Accounted(a)

HoldersSound == \A a \in Allocs : HoldSound(a)

\* A set of members has a size, and an allocation accounts for one at most.
LEMMA HeldCount ==
    ASSUME NEW a \in Allocs
    PROVE  Cardinality(Held(a)) \in Nat /\ Accounted(a) \in {0, 1}
  <1>1. Held(a) \in SUBSET Slots
    BY DEF Held
  <1>2. QED
    BY <1>1, SlotCount DEF Accounted

\* Steps that give an allocation no member.
LEMMA FewerHeld ==
    ASSUME NEW a \in Allocs,
           \A s \in Slots : member'[s].holder = a => member[s].holder = a
    PROVE  /\ Cardinality(Held(a)') \in Nat
           /\ Cardinality(Held(a)') <= Cardinality(Held(a))
  <1>1. Held(a) \in SUBSET Slots /\ Held(a)' \in SUBSET Slots /\ Held(a)' \subseteq Held(a)
    BY DEF Held
  <1>2. QED
    BY <1>1, SlotCount, FS_Subset

\* The pool controller and the members' Processes hand no member to anyone: a
\* new object has no holder.
LEMMA PoolHandsNone ==
    ASSUME TypeOK, PoolNext \/ \E s \in Slots : MemberNext(s), NEW a \in Allocs,
           NEW s \in Slots, member'[s].holder = a
    PROVE  member[s].holder = a
  <1>0. member \in Lists /\ a # NoAlloc
    BY WarmPoolAssumption DEF TypeOK, Lists, WarmPoolAssumption
  <1>1. ASSUME NEW t \in Slots, NEW v,
               \/ member' = [member EXCEPT ![t].phase = v]
               \/ member' = [member EXCEPT ![t].deleting = v]
               \/ member' = [member EXCEPT ![t].stale = v]
        PROVE  member'[s].holder = member[s].holder
    BY <1>0, <1>1 DEF Lists, MemberObject
  <1>2. ASSUME NEW t \in Slots, NEW o \in {NoMember, NewMember, member[t]},
               member' = [member EXCEPT ![t] = o]
        PROVE  member'[s].holder \in {member[s].holder, NoAlloc}
    <2>1. NoMember.holder = NoAlloc /\ NewMember.holder = NoAlloc
      BY DEF NoMember, NewMember
    <2>2. QED
      BY <1>0, <1>2, <2>1 DEF Lists
  <1>3. CASE UNCHANGED member
    BY <1>3
  <1>4. CASE PoolNext
    <2>1. CASE SpawnMember
      <3>1. PICK t \in pool.next :
               member' = [member EXCEPT ![t] = IF @.phase = Absent THEN NewMember ELSE @]
        BY <2>1 DEF SpawnMember
      <3>2. t \in Slots
        BY DEF TypeOK
      <3>3. QED
        BY <1>0, <1>2, <3>1, <3>2
    <2>2. CASE DeleteMember
      <3>1. PICK t \in pool.doomed : member' \in AfterDelete(t)
        BY <2>2 DEF DeleteMember
      <3>2. t \in Slots
        BY DEF TypeOK
      <3>3. \/ member' = [member EXCEPT ![t].deleting = (member[t].deleting \/ member[t].phase # Absent)]
            \/ member' = [member EXCEPT ![t] = NoMember]
        BY <3>1 DEF AfterDelete
      <3>4. QED
        BY <1>0, <1>1, <1>2, <3>2, <3>3
    <2>3. QED
      BY <1>3, <1>4, <2>1, <2>2 DEF PoolNext, ListAndDecide, DeleteFails, SpawnFails,
           PatchPoolStatus, LosePool, DeletePool
  <1>5. ASSUME NEW t \in Slots, MemberNext(t)
        PROVE  member[s].holder = a
    <2>1. \/ \E v : \/ member' = [member EXCEPT ![t].phase = v]
                   \/ member' = [member EXCEPT ![t].stale = v]
          \/ member' = [member EXCEPT ![t] = NoMember]
      BY <1>5 DEF MemberNext, MemberConverges, MemberDrains, MemberFails, MoveTo
    <2>2. QED
      BY <1>0, <1>1, <1>2, <2>1
  <1>6. QED
    BY <1>4, <1>5

\* One allocation's own steps.
LEMMA AllocKeepsHold ==
    ASSUME TypeOK, TypeOK', NEW a \in Allocs, HoldSound(a), AllocNext(a)
    PROVE  HoldSound(a)'
  <1>0. /\ alloc \in [Allocs -> AllocObject] /\ alloc[a] \in AllocObject
        /\ binder \in [Allocs -> BinderState] /\ binder[a] \in BinderState
        /\ member \in Lists /\ slips[a] \in Nat /\ slips'[a] \in Nat
    BY DEF TypeOK, BinderState, Lists
  <1>a. /\ Cardinality(Held(a)) \in Nat /\ Accounted(a) \in {0, 1}
        /\ Accounted(a)' \in {0, 1}
    BY HeldCount DEF Accounted
  <1>b. ASSUME member' = member,
               slips'[a] >= slips[a],
               slips'[a] = slips[a] => Accounted(a) <= Accounted(a)'
        PROVE  HoldSound(a)'
    <2>1. Held(a)' = Held(a)
      BY <1>b DEF Held
    <2>2. Cardinality(Held(a)) <= slips[a] + Accounted(a)
      BY DEF HoldSound
    <2>3. slips[a] + Accounted(a) <= slips'[a] + Accounted(a)'
      BY <1>0, <1>a, <1>b
    <2>4. Cardinality(Held(a)) <= slips'[a] + Accounted(a)'
      BY <1>0, <1>a, <2>2, <2>3
    <2>5. QED
      BY <2>1, <2>4 DEF HoldSound
  <1>1. CASE DecideRelease(a)
    <2>1. /\ member' = member /\ alloc' = alloc /\ slips' = slips
          /\ binder[a].step = "idle" /\ binder'[a].step = "release"
      BY <1>0, <1>1 DEF DecideRelease, Start, CanStart
    <2>2. Accounted(a)' = Accounted(a)
      BY <2>1 DEF Accounted
    <2>3. QED
      BY <1>0, <1>a, <1>b, <2>1, <2>2
  <1>2. CASE PatchUnserved(a)
    <2>1. /\ member' = member /\ binder' = binder /\ binder[a].step = "idle"
          /\ Seen(a).phase \in {"Pending", "Queued", "NoMatchingPool"}
          /\ Slip(a, Behind(a))
      BY <1>2, StartsFresh DEF PatchUnserved, Routes, NeedsPoolRouting
    <2>2. slips'[a] = IF Behind(a) THEN slips[a] + 1 ELSE slips[a]
      BY <2>1, SlipTypeOK
    <2>3. ~Behind(a) => Accounted(a) = 0
      BY <2>1 DEF Behind, Accounted, Unserved
    <2>4. QED
      BY <1>0, <1>a, <1>b, <2>1, <2>2, <2>3
  <1>3. CASE DecideBind(a)
    <2>1. /\ member' = member /\ alloc' = alloc /\ binder[a].step = "idle"
          /\ Seen(a).phase \in {"Pending", "Queued", "NoMatchingPool"}
          /\ Slip(a, Behind(a))
      BY <1>3, StartsFresh DEF DecideBind, Routes, NeedsPoolRouting
    <2>2. slips'[a] = IF Behind(a) THEN slips[a] + 1 ELSE slips[a]
      BY <2>1, SlipTypeOK
    <2>3. ~Behind(a) => Accounted(a) = 0
      BY <2>1 DEF Behind, Accounted, Unserved
    <2>4. QED
      BY <1>0, <1>a, <1>b, <2>1, <2>2, <2>3
  <1>4. CASE BindMember(a)
    <2>1. binder[a].step = "bind" /\ slips' = slips
      BY <1>4 DEF BindMember, history
    <2>2. Accounted(a) = 0
      BY <2>1 DEF Accounted
    <2>3. CASE member' = member
      BY <1>0, <1>a, <1>b, <2>1, <2>2, <2>3
    <2>4. CASE /\ member' = [member EXCEPT ![binder[a].slot].holder = a]
               /\ binder' = [binder EXCEPT ![a].step = "record"]
      <3>1. binder'[a].step = "record"
        BY <1>0, <2>4 DEF BinderState
      <3>2. Accounted(a)' = 1
        BY <3>1 DEF Accounted
      <3>3. Held(a)' \subseteq Held(a) \cup {binder[a].slot}
        BY <1>0, <2>4 DEF Lists, Held
      <3>4. Held(a) \in SUBSET Slots /\ Held(a)' \in SUBSET Slots
        BY DEF Held
      <3>5. /\ IsFiniteSet(Held(a) \cup {binder[a].slot})
            /\ Cardinality(Held(a) \cup {binder[a].slot}) =
                 IF binder[a].slot \in Held(a) THEN Cardinality(Held(a))
                 ELSE Cardinality(Held(a)) + 1
        BY <3>4, SlotCount, FS_AddElement
      <3>6. Cardinality(Held(a)') <= Cardinality(Held(a) \cup {binder[a].slot})
        BY <3>3, <3>5, FS_Subset
      <3>7. Cardinality(Held(a)') \in Nat
        BY <3>4, SlotCount
      <3>8. Cardinality(Held(a)') <= Cardinality(Held(a)) + 1
        BY <1>a, <3>5, <3>6, <3>7
      <3>9. Cardinality(Held(a)) <= slips[a]
        BY <1>0, <1>a, <2>2 DEF HoldSound
      <3>10. Cardinality(Held(a)') <= slips[a] + 1
        BY <1>0, <1>a, <3>7, <3>8, <3>9
      <3>11. QED
        BY <2>1, <3>2, <3>10 DEF HoldSound
    <2>5. QED
      BY <1>4, <2>3, <2>4 DEF BindMember
  <1>5. CASE PatchAllocStatus(a)
    <2>1. /\ member' = member /\ binder'[a].step = "idle" /\ slips' = slips
      BY <1>0, <1>5 DEF PatchAllocStatus, IdleBinder, history
    <2>2. alloc'[a].phase \in {"Gone", "Bound", "Released"}
      BY <1>0, <1>5 DEF PatchAllocStatus, AllocObject
    <2>3. Accounted(a)' = 1
      BY <2>1, <2>2 DEF Accounted, Unserved
    <2>4. QED
      BY <1>0, <1>a, <1>b, <2>1, <2>3
  <1>6. CASE LoseBinder(a)
    <2>1. /\ member' = member /\ alloc' = alloc /\ binder'[a].step = "idle"
          /\ binder[a].step # "idle" /\ Slip(a, binder[a].step = "record")
      BY <1>0, <1>6 DEF LoseBinder, IdleBinder
    <2>2. slips'[a] = IF binder[a].step = "record" THEN slips[a] + 1 ELSE slips[a]
      BY <2>1, SlipTypeOK
    <2>3. binder[a].step # "record" => Accounted(a) <= Accounted(a)'
      <3>1. CASE binder[a].step = "bind"
        <4>1. Accounted(a) = 0
          BY <3>1 DEF Accounted
        <4>2. QED
          BY <1>a, <4>1
      <3>2. CASE binder[a].step = "release"
        <4>1. Accounted(a) = Accounted(a)'
          BY <2>1, <3>2 DEF Accounted
        <4>2. QED
          BY <1>a, <4>1
      <3>3. QED
        BY <1>0, <2>1, <3>1, <3>2 DEF BinderState
    <2>4. QED
      BY <1>0, <1>a, <1>b, <2>1, <2>2, <2>3
  <1>7. CASE Deliver(a)
    <2>1. UNCHANGED <<member, alloc, binder, slips>>
      BY <1>7 DEF Deliver, history
    <2>2. Accounted(a)' = Accounted(a)
      BY <2>1 DEF Accounted
    <2>3. QED
      BY <1>0, <1>a, <1>b, <2>1, <2>2
  <1>8. CASE Request(a) \/ Expire(a) \/ DeleteAlloc(a)
    <2>1. /\ binder' = binder /\ member' = member /\ slips' = slips
          /\ alloc'[a].phase \in Unserved => alloc[a].phase \in Unserved
      BY <1>0, <1>8 DEF Request, Expire, DeleteAlloc, AllocObject, Unserved, history
    <2>2. Accounted(a) <= Accounted(a)'
      <3>1. CASE binder[a].step \in {"bind", "record"}
        <4>1. Accounted(a) = Accounted(a)'
          BY <2>1, <3>1 DEF Accounted
        <4>2. QED
          BY <1>a, <4>1
      <3>2. CASE binder[a].step \notin {"bind", "record"}
        BY <2>1, <3>2 DEF Accounted
      <3>3. QED
        BY <3>1, <3>2
    <2>3. QED
      BY <1>0, <1>a, <1>b, <2>1, <2>2
  <1>9. QED
    BY <1>1, <1>2, <1>3, <1>4, <1>5, <1>6, <1>7, <1>8 DEF AllocNext

\* Every step keeps what is held accounted for.
LEMMA NextKeepsHolders ==
    ASSUME TypeOK, TypeOK', HoldersSound, [Next]_vars
    PROVE  HoldersSound'
  <1>1. SUFFICES ASSUME NEW b \in Allocs
                 PROVE  HoldSound(b)'
    BY DEF HoldersSound
  <1>2. HoldSound(b) /\ slips[b] \in Nat
    BY DEF HoldersSound, TypeOK
  <1>3. ASSUME alloc'[b] = alloc[b], binder'[b] = binder[b], slips'[b] = slips[b],
               \A s \in Slots : member'[s].holder = b => member[s].holder = b
        PROVE  HoldSound(b)'
    <2>1. Accounted(b)' = Accounted(b)
      BY <1>3 DEF Accounted
    <2>2. /\ Cardinality(Held(b)') \in Nat
          /\ Cardinality(Held(b)') <= Cardinality(Held(b))
      BY <1>3, FewerHeld
    <2>3. Cardinality(Held(b)) \in Nat /\ Accounted(b) \in {0, 1}
      BY HeldCount
    <2>4. Cardinality(Held(b)) <= slips[b] + Accounted(b)
      BY <1>2 DEF HoldSound
    <2>5. Cardinality(Held(b)') <= slips[b] + Accounted(b)
      BY <1>2, <2>2, <2>3, <2>4
    <2>6. QED
      BY <1>3, <2>1, <2>5 DEF HoldSound
  <1>4. CASE UNCHANGED vars
    BY <1>3, <1>4 DEF vars, history
  <1>5. CASE PoolNext \/ \E s \in Slots : MemberNext(s)
    <2>1. UNCHANGED <<alloc, binder, slips>>
      BY <1>5, PoolLeavesAllocs
    <2>2. QED
      BY <1>3, <1>5, <2>1, PoolHandsNone
  <1>6. ASSUME NEW a \in Allocs, AllocNext(a) PROVE HoldSound(b)'
    <2>1. CASE b = a
      BY <1>2, <1>6, <2>1, AllocKeepsHold
    <2>2. CASE b # a
      <3>1. alloc'[b] = alloc[b] /\ binder'[b] = binder[b] /\ slips'[b] = slips[b]
        BY <1>6, <2>2, OthersUntouched
      <3>2. member' = member \/ member' = [member EXCEPT ![binder[a].slot].holder = a]
        BY <1>6 DEF AllocNext, DecideRelease, PatchUnserved, DecideBind, BindMember,
             PatchAllocStatus, LoseBinder, Deliver, Request, Expire, DeleteAlloc
      <3>3. \A s \in Slots : member'[s].holder = b => member[s].holder = b
        <4>1. CASE member' = member
          BY <4>1
        <4>2. CASE member' = [member EXCEPT ![binder[a].slot].holder = a]
          <5>1. ASSUME NEW s \in Slots
                PROVE  member'[s] = member[s] \/ member'[s] = [member[s] EXCEPT !.holder = a]
            BY <4>2 DEF TypeOK
          <5>2. \A s \in Slots : [member[s] EXCEPT !.holder = a].holder = a
            BY DEF TypeOK, MemberObject
          <5>3. QED
            BY <2>2, <5>1, <5>2
        <4>3. QED
          BY <3>2, <4>1, <4>2
      <3>4. QED
        BY <1>3, <3>1, <3>3
    <2>3. QED
      BY <2>1, <2>2
  <1>7. QED
    BY <1>4, <1>5, <1>6 DEF Next

\* An allocation never holds more than one member and one for each slip, for
\* any pool, any number of requestors and any interleaving of lost calls,
\* crashes, lagging copies and deletions.
THEOREM OneMemberForEach == Spec => []OneMemberEach
  <1>1. Init => HoldersSound
    <2>1. SUFFICES ASSUME Init, NEW a \in Allocs PROVE HoldSound(a)
      BY DEF HoldersSound
    <2>2. NoMember.holder = NoAlloc /\ a # NoAlloc
      BY WarmPoolAssumption DEF NoMember, WarmPoolAssumption
    <2>3. Held(a) = {}
      BY <2>1, <2>2 DEF Init, Held
    <2>4. slips[a] = 0 /\ Accounted(a) \in {0, 1}
      BY <2>1, HeldCount DEF Init
    <2>5. QED
      BY <2>3, <2>4, FS_EmptySet DEF HoldSound
  <1>2. TypeOK /\ HoldersSound => OneMemberEach
    <2>1. SUFFICES ASSUME TypeOK, HoldersSound, NEW a \in Allocs
                   PROVE  Cardinality(Held(a)) <= 1 + slips[a]
      BY DEF OneMemberEach, Held
    <2>2. /\ Cardinality(Held(a)) \in Nat /\ Accounted(a) \in {0, 1}
          /\ slips[a] \in Nat
      BY <2>1, HeldCount DEF TypeOK
    <2>3. Cardinality(Held(a)) <= slips[a] + Accounted(a)
      BY <2>1 DEF HoldersSound, HoldSound
    <2>4. QED
      BY <2>2, <2>3
  <1>3. TypeOK /\ TypeOK' /\ HoldersSound /\ [Next]_vars => HoldersSound'
    BY NextKeepsHolders
  <1>4. QED
    BY <1>1, <1>2, <1>3, TypeCorrect, PTL DEF Spec
=============================================================================
