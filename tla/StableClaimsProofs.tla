------------------------- MODULE StableClaimsProofs -------------------------
(***************************************************************************)
(* Theorems about StableClaims, for any finite set of Processes, any apps  *)
(* and priorities and any interleaving of the arbiter with them.           *)
(***************************************************************************)
EXTENDS StableClaims, FiniteSetTheorems, WellFoundedInduction, TLAPS

(***************************************************************************)
(* best_candidate: the order is strict and total, so there is a winner.    *)
(***************************************************************************)

Lists == [Procs -> ProcessObject]

\* The fields that the order looks at are numbers.
LEMMA OrderFields ==
    ASSUME NEW list \in Lists, NEW p \in Procs
    PROVE  list[p].priority \in Int /\ list[p].created \in Int /\ RefOrder[p] \in Int
  <1>1. list[p] \in ProcessObject
    BY DEF Lists
  <1>2. list[p].priority \in Priorities /\ list[p].created \in Nat
    BY <1>1 DEF ProcessObject
  <1>3. Priorities \subseteq Int /\ RefOrder \in [Procs -> Nat]
    BY StableClaimsAssumption DEF StableClaimsAssumption
  <1>4. list[p].priority \in Int
    BY <1>2, <1>3, Zenon
  <1>5. list[p].created \in Int
    BY <1>2
  <1>6. RefOrder[p] \in Int
    BY <1>3
  <1>7. QED
    BY <1>4, <1>5, <1>6

\* A strict total order on the Processes of a list.
LEMMA OutranksIsOrder ==
    ASSUME NEW list \in Lists
    PROVE  /\ \A p \in Procs : ~Outranks(list, p, p)
           /\ \A p, q \in Procs : p = q \/ Outranks(list, p, q) \/ Outranks(list, q, p)
           /\ \A p, q \in Procs : Outranks(list, p, q) => ~Outranks(list, q, p)
           /\ \A p, q, r \in Procs :
                 Outranks(list, p, q) /\ Outranks(list, q, r) => Outranks(list, p, r)
  <1>1. ASSUME NEW p \in Procs, NEW q \in Procs
        PROVE  /\ p = q \/ Outranks(list, p, q) \/ Outranks(list, q, p)
               /\ Outranks(list, p, q) => ~Outranks(list, q, p)
    <2>1. RefOrder[p] = RefOrder[q] => p = q
      BY StableClaimsAssumption DEF StableClaimsAssumption
    <2>2. QED
      BY <2>1, OrderFields DEF Outranks
  <1>2. ASSUME NEW p \in Procs, NEW q \in Procs, NEW r \in Procs,
               Outranks(list, p, q), Outranks(list, q, r)
        PROVE  Outranks(list, p, r)
    BY <1>2, OrderFields DEF Outranks
  <1>3. QED
    BY <1>1, <1>2

\* Some Process of a non-empty set outranks all others: the one for which the
\* set of those that outrank it is smallest.
LEMMA BestExists ==
    ASSUME NEW list \in Lists, NEW live \in SUBSET Procs, live # {}
    PROVE  \E p \in live : \A q \in live : q = p \/ Outranks(list, p, q)
  <1> DEFINE Above(p) == {q \in live : Outranks(list, q, p)}
             T == {Above(p) : p \in live}
  <1>1. IsFiniteSet(live)
    BY FS_Subset, StableClaimsAssumption DEF StableClaimsAssumption
  <1>2. T \subseteq FiniteSubsetsOf(live)
    <2>1. ASSUME NEW p \in live PROVE Above(p) \in FiniteSubsetsOf(live)
      <3>1. Above(p) \in SUBSET live
        OBVIOUS
      <3>2. IsFiniteSet(Above(p))
        BY <1>1, <3>1, FS_Subset
      <3>3. QED
        BY <3>1, <3>2 DEF FiniteSubsetsOf
    <2>2. QED
      BY <2>1
  <1>3. T # {}
    OBVIOUS
  <1>4. \E x \in T : \A y \in T : ~(<<y, x>> \in StrictSubsetOrdering(live))
    <2>1. IsWellFoundedOn(StrictSubsetOrdering(live), FiniteSubsetsOf(live))
      BY FS_StrictSubsetOrderingWellFounded
    <2> HIDE DEF T
    <2>2. QED
      BY <1>2, <1>3, <2>1, WFMin
  <1>5. PICK p \in live :
            \A q \in live : ~(<<Above(q), Above(p)>> \in StrictSubsetOrdering(live))
    BY <1>4
  <1>6. ASSUME NEW q \in live, q # p PROVE Outranks(list, p, q)
    <2>1. p \in Procs /\ q \in Procs
      OBVIOUS
    <2>2. SUFFICES ASSUME Outranks(list, q, p) PROVE FALSE
      BY <1>6, <2>1, OutranksIsOrder
    <2>3. Above(q) \subseteq Above(p)
      BY <2>1, <2>2, OutranksIsOrder
    <2>4. q \in Above(p) /\ q \notin Above(q)
      BY <2>1, <2>2, OutranksIsOrder
    <2>5. <<Above(q), Above(p)>> \in StrictSubsetOrdering(live)
      BY <2>3, <2>4 DEF StrictSubsetOrdering
    <2>6. QED
      BY <1>5, <2>5
  <1>7. QED
    BY <1>6

\* best_candidate returns one of the candidates, and nobody outranks it.
LEMMA BestWins ==
    ASSUME NEW list \in Lists, NEW live \in SUBSET Procs, live # {}
    PROVE  /\ BestCandidate(list, live) \in live
           /\ \A q \in live : ~Outranks(list, q, BestCandidate(list, live))
  <1>1. /\ BestCandidate(list, live) \in live
        /\ \A q \in live : q = BestCandidate(list, live)
                             \/ Outranks(list, BestCandidate(list, live), q)
    BY BestExists DEF BestCandidate
  <1>2. QED
    BY <1>1, OutranksIsOrder

\* decide_claim_for, case by case: the name is vacated when nobody is live,
\* and otherwise goes to or stays with the best live candidate.
LEMMA Decision ==
    ASSUME NEW list \in Lists, NEW k \in Keys,
           NEW current \in ClaimRecord \cup {NoClaim}
    PROVE  LET live == LiveCandidates(list, k)
               best == BestCandidate(list, live)
               c    == DecideClaimFor(list, k, current)
           IN  /\ c \in ClaimRecord \cup {NoClaim}
               /\ live = {} => c = NoClaim
               /\ live # {} => /\ c # NoClaim
                               /\ best \in live
                               /\ c.holder = best
                               /\ c.pid = list[best].pid
  <1> DEFINE live == LiveCandidates(list, k)
             best == BestCandidate(list, live)
             c    == DecideClaimFor(list, k, current)
  <1>1. CASE live = {}
    BY <1>1 DEF DecideClaimFor
  <1>2. CASE live # {}
    <2>1. live \in SUBSET Procs
      BY DEF LiveCandidates
    <2>2. best \in live /\ best \in Procs
      BY <1>2, <2>1, BestWins
    <2>3. Transfer(list, best) \in ClaimRecord
      BY <2>2 DEF Transfer, ClaimRecord, Lists, ProcessObject
    <2>4. Transfer(list, best) # NoClaim
      <3>1. Transfer(list, best).holder = best
        BY DEF Transfer
      <3>2. "holder" \in DOMAIN Transfer(list, best) /\ "holder" \notin DOMAIN NoClaim
        BY DEF Transfer, NoClaim
      <3>3. QED
        BY <3>2
    <2>5. CASE MatchesHolder(list, best, current)
      <3>1. c = current
        BY <1>2, <2>5 DEF DecideClaimFor
      <3>2. QED
        BY <1>2, <2>2, <2>5, <3>1 DEF MatchesHolder
    <2>6. CASE ~MatchesHolder(list, best, current)
      <3>1. c = Transfer(list, best)
        BY <1>2, <2>6 DEF DecideClaimFor
      <3>2. c.holder = best /\ c.pid = list[best].pid
        BY <3>1 DEF Transfer
      <3>3. QED
        BY <1>2, <2>2, <2>3, <2>4, <3>1, <3>2
    <2>7. QED
      BY <2>5, <2>6
  <1>3. QED
    BY <1>1, <1>2

-----------------------------------------------------------------------------
(***************************************************************************)
(* Type correctness.                                                       *)
(***************************************************************************)

\* The pieces of the initial state.
LEMMA InitialTypes ==
    /\ NoProcess \in ProcessObject
    /\ NoClaims \in Registry
    /\ IdleArbiter \in [step : {"idle", "listed", "decided"}, list : Lists,
                        new : Registry]
  <1>1. NoProcess \in ProcessObject
    BY StableClaimsAssumption DEF NoProcess, ProcessObject, Phases, Absent,
       StableClaimsAssumption
  <1>2. NoClaims \in Registry
    BY DEF NoClaims, Registry
  <1>3. [p \in Procs |-> NoProcess] \in Lists
    BY <1>1 DEF Lists
  <1>4. QED
    BY <1>1, <1>2, <1>3 DEF IdleArbiter

\* The arbiter's next state after it has decided against a registry.
LEMMA DecideAgainstType ==
    ASSUME TypeOK, NEW current \in Registry, DecideAgainst(current)
    PROVE  arbiter' \in [step : {"idle", "listed", "decided"}, list : Lists,
                         new : Registry]
  <1> DEFINE new == [k \in Keys |-> DecideClaimFor(arbiter.list, k, current[k])]
  <1>1. arbiter.list \in Lists
    BY DEF TypeOK, Lists
  <1>2. \A k \in Keys : DecideClaimFor(arbiter.list, k, current[k])
                           \in ClaimRecord \cup {NoClaim}
    BY <1>1, Decision DEF Registry
  <1>3. new \in Registry
    BY <1>2 DEF Registry
  <1>4. IdleArbiter \in [step : {"idle", "listed", "decided"}, list : Lists,
                         new : Registry]
    BY InitialTypes
  <1>5. arbiter' = IF new = current THEN IdleArbiter
                   ELSE [arbiter EXCEPT !.step = "decided", !.new = new]
    BY DEF DecideAgainst
  <1>6. [arbiter EXCEPT !.step = "decided", !.new = new]
            \in [step : {"idle", "listed", "decided"}, list : Lists, new : Registry]
    BY <1>1, <1>3 DEF TypeOK, Lists
  <1>7. QED
    BY <1>4, <1>5, <1>6

\* The type invariant holds initially.
LEMMA InitTypeOK == Init => TypeOK
  BY InitialTypes DEF Init, TypeOK, ExecStates, Lists

\* Every step of the arbiter and of a Process keeps it.
LEMMA NextTypeOK ==
    ASSUME TypeOK, [Next]_vars
    PROVE  TypeOK'
  <1>1. CASE ListProcesses
    <2>1. arbiter' \in [step : {"idle", "listed", "decided"}, list : Lists,
                        new : Registry]
      BY <1>1 DEF ListProcesses, TypeOK, Lists
    <2>2. QED
      BY <1>1, <2>1 DEF ListProcesses, TypeOK, Lists
  <1>2. CASE ReadTable
    <2>1. arbiter' \in [step : {"idle", "listed", "decided"}, list : Lists,
                        new : Registry]
      BY <1>2, DecideAgainstType DEF ReadTable, TypeOK
    <2>2. QED
      BY <1>2, <2>1 DEF ReadTable, TypeOK, Lists
  <1>3. CASE ReadTableFails
    <2>1. arbiter' \in [step : {"idle", "listed", "decided"}, list : Lists,
                        new : Registry]
      BY <1>3, DecideAgainstType, InitialTypes DEF ReadTableFails
    <2>2. faults' \in Nat
      BY <1>3 DEF ReadTableFails, TypeOK
    <2>3. QED
      BY <1>3, <2>1, <2>2 DEF ReadTableFails, TypeOK, Lists
  <1>4. CASE PatchClaims
    <2>1. claims' \in Registry
      BY <1>4 DEF PatchClaims, TypeOK
    <2>2. QED
      BY <1>4, <2>1, InitialTypes DEF PatchClaims, TypeOK, Lists
  <1>5. CASE LoseArbiter
    BY <1>5, InitialTypes DEF LoseArbiter, TypeOK, Lists
  <1>6. ASSUME NEW p \in Procs, ProcessNext(p) PROVE TypeOK'
    <2>0. obj[p] \in ProcessObject
      BY DEF TypeOK
    <2>1. CASE ReadClaim(p) \/ ReadClaimFails(p) \/ LoseExec(p)
      BY <2>1 DEF ReadClaim, ReadClaimFails, LoseExec, TypeOK, ExecStates
    <2>2. CASE ApplyRoutes(p)
      <3>1. Apps[p] \in SUBSET Keys
        BY StableClaimsAssumption DEF StableClaimsAssumption
      <3>2. edges' \in [Procs -> SUBSET Keys]
        BY <2>2, <3>1 DEF ApplyRoutes, TypeOK
      <3>3. QED
        BY <2>2, <3>2 DEF ApplyRoutes, TypeOK, ExecStates
    <2>3. CASE PatchRunning(p)
      <3>1. [obj[p] EXCEPT !.phase = "Running", !.served = TRUE] \in ProcessObject
        BY <2>0 DEF ProcessObject, Phases
      <3>2. obj' \in [Procs -> ProcessObject]
        BY <2>3, <3>1 DEF PatchRunning, TypeOK
      <3>3. QED
        BY <2>3, <3>2 DEF PatchRunning, TypeOK, ExecStates
    <2>4. CASE Create(p)
      <3>1. PICK now \in {clock, clock + 1} :
               /\ clock' = now
               /\ obj' = [obj EXCEPT ![p] = [NoProcess EXCEPT !.phase = "Execing",
                                                 !.pid = nextPid, !.created = now]]
        BY <2>4 DEF Create
      <3>2. now \in Nat /\ nextPid \in Nat
        BY DEF TypeOK
      <3>3. [NoProcess EXCEPT !.phase = "Execing", !.pid = nextPid, !.created = now]
               \in ProcessObject
        BY <3>2, StableClaimsAssumption
        DEF NoProcess, ProcessObject, Phases, StableClaimsAssumption
      <3>4. obj' \in [Procs -> ProcessObject]
        BY <3>1, <3>3 DEF TypeOK
      <3>5. QED
        BY <2>4, <3>1, <3>2, <3>4 DEF Create, Operation, TypeOK
    <2>5. CASE Reprioritise(p)
      <3>1. \A n \in Priorities : [obj[p] EXCEPT !.priority = n] \in ProcessObject
        BY <2>0 DEF ProcessObject
      <3>2. obj' \in [Procs -> ProcessObject]
        BY <2>5, <3>1 DEF Reprioritise, TypeOK
      <3>3. QED
        BY <2>5, <3>2 DEF Reprioritise, Operation, TypeOK
    <2>6. CASE Attest(p) \/ Reconverge(p) \/ Leave(p)
      <3>1. \A ph \in Phases : [obj[p] EXCEPT !.phase = ph] \in ProcessObject
        BY <2>0 DEF ProcessObject
      <3>2. obj' \in [Procs -> ProcessObject]
        BY <2>6, <3>1 DEF Attest, Reconverge, Leave, TypeOK, Phases
      <3>3. QED
        BY <2>6, <3>2 DEF Attest, Reconverge, Leave, Operation, TypeOK
    <2>7. CASE Remove(p)
      BY <2>7, InitialTypes DEF Remove, Operation, TypeOK
    <2>8. QED
      BY <1>6, <2>1, <2>2, <2>3, <2>4, <2>5, <2>6, <2>7 DEF ProcessNext
  <1>7. CASE UNCHANGED vars
    BY <1>7 DEF vars, TypeOK
  <1>8. QED
    BY <1>1, <1>2, <1>3, <1>4, <1>5, <1>6, <1>7 DEF Next, ArbiterNext

-----------------------------------------------------------------------------
(***************************************************************************)
(* Groundedness.  A decision rests on a list made earlier, so what the     *)
(* invariant says of the registry it must say of the list and of the       *)
(* decision that is not yet written, and it must be stable while the       *)
(* Processes move on: a PID below nextPid is never given out again, and    *)
(* the incarnation that has it either is gone or has served.               *)
(***************************************************************************)

Grounded(p, n) == /\ n \in 1..(nextPid - 1)
                  /\ obj[p].pid = n => obj[p].served

GroundedClaim(k, c) ==
    c # NoClaim => k \in Apps[c.holder] /\ Grounded(c.holder, c.pid)

\* PIDs are handed out in order, and only what has served is live.
ObjectsSound ==
    /\ nextPid >= 1
    /\ \A p \in Procs :
          /\ obj[p].phase # Absent => obj[p].pid \in 1..(nextPid - 1)
          /\ obj[p].phase = Absent => obj[p].pid = 0
          /\ IsLive(obj[p]) => obj[p].served

\* handle_execing runs only while the Process is on the way to Running.
ExecSound == \A p \in Procs : exec[p] # "idle" => obj[p].phase = "Execing"

ListSound == \A p \in Procs :
    IsLive(arbiter.list[p]) => Grounded(p, arbiter.list[p].pid)

NewSound == \A k \in Keys : GroundedClaim(k, arbiter.new[k])

ClaimsSound == \A k \in Keys : GroundedClaim(k, claims[k])

\* What is about to be written is the verdict on the list.
DecidedBest ==
    arbiter.step = "decided" =>
        \A k \in Keys :
            LET live == LiveCandidates(arbiter.list, k)
            IN  IF live = {} THEN arbiter.new[k] = NoClaim
                ELSE /\ arbiter.new[k] # NoClaim
                     /\ arbiter.new[k].holder \in live
                     /\ arbiter.new[k].pid = arbiter.list[arbiter.new[k].holder].pid
                     /\ \A q \in live :
                          ~Outranks(arbiter.list, q, arbiter.new[k].holder)

IInv == /\ TypeOK /\ ObjectsSound /\ ExecSound /\ ListSound /\ NewSound
        /\ ClaimsSound /\ DecidedBest

\* An idle arbiter has decided nothing.
LEMMA IdleSound ==
    /\ \A p \in Procs : ~IsLive(IdleArbiter.list[p])
    /\ \A k \in Keys : IdleArbiter.new[k] = NoClaim /\ NoClaims[k] = NoClaim
    /\ IdleArbiter.step = "idle"
  BY DEF IdleArbiter, IsLive, NoProcess, Absent, NoClaims

\* The inductive invariant holds initially.
LEMMA InitIInv == Init => IInv
  <1>1. ASSUME Init PROVE IInv
    <2>1. TypeOK
      BY <1>1, InitTypeOK
    <2>2. ObjectsSound
      BY <1>1 DEF Init, ObjectsSound, NoProcess, IsLive, Absent
    <2>3. QED
      BY <1>1, <2>1, <2>2, IdleSound
      DEF Init, IInv, ExecSound, ListSound, NewSound, ClaimsSound, DecidedBest,
          GroundedClaim
  <1>2. QED
    BY <1>1

\* A step of one Process, as far as the registry is concerned: it keeps its
\* PID and what it has served, takes a fresh PID, or goes.
Moves(p) ==
    /\ UNCHANGED <<claims, arbiter>>
    /\ \A q \in Procs \ {p} : obj'[q] = obj[q] /\ exec'[q] = exec[q]
    /\ \/ /\ obj'[p].pid = obj[p].pid /\ nextPid' = nextPid
          /\ obj[p].phase # Absent
          /\ obj'[p].phase # Absent
          /\ obj[p].served => obj'[p].served
          /\ IsLive(obj'[p]) => IsLive(obj[p]) \/ obj'[p].served
       \/ /\ obj'[p].pid = nextPid /\ nextPid' = nextPid + 1
          /\ obj'[p].phase = "Execing"
       \/ obj'[p].pid = 0 /\ obj'[p].phase = Absent /\ nextPid' = nextPid
    /\ exec'[p] # "idle" => obj'[p].phase = "Execing"

\* Every step of a Process is of one of these kinds.
LEMMA ProcessMoves ==
    ASSUME IInv, NEW p \in Procs, ProcessNext(p)
    PROVE  Moves(p)
  <1>0. /\ obj \in [Procs -> ProcessObject] /\ exec \in [Procs -> ExecStates]
        /\ obj[p] \in ProcessObject
        /\ exec[p] # "idle" => obj[p].phase = "Execing"
    BY DEF IInv, TypeOK, ExecSound
  <1>1. CASE ReadClaim(p) \/ ReadClaimFails(p) \/ LoseExec(p) \/ ApplyRoutes(p)
    <2>1. obj[p].phase = "Execing"
      BY <1>0, <1>1 DEF ReadClaim, ReadClaimFails, LoseExec, ApplyRoutes
    <2>2. /\ UNCHANGED <<obj, nextPid, claims, arbiter>>
          /\ \A q \in Procs \ {p} : exec'[q] = exec[q]
      BY <1>0, <1>1 DEF ReadClaim, ReadClaimFails, LoseExec, ApplyRoutes
    <2>3. QED
      BY <2>1, <2>2 DEF Moves, Absent
  <1>2. CASE PatchRunning(p)
    <2>1. /\ obj'[p] = [obj[p] EXCEPT !.phase = "Running", !.served = TRUE]
          /\ \A q \in Procs \ {p} : obj'[q] = obj[q] /\ exec'[q] = exec[q]
          /\ exec'[p] = "idle" /\ exec[p] = "applied"
          /\ UNCHANGED <<nextPid, claims, arbiter>>
      BY <1>0, <1>2 DEF PatchRunning
    <2>2. obj'[p].pid = obj[p].pid /\ obj'[p].phase = "Running" /\ obj'[p].served = TRUE
      BY <1>0, <2>1 DEF ProcessObject
    <2>3. QED
      BY <1>0, <2>1, <2>2 DEF Moves, Absent
  <1>3. CASE Create(p)
    <2>1. PICK now \in {clock, clock + 1} :
             obj' = [obj EXCEPT ![p] = [NoProcess EXCEPT !.phase = "Execing",
                                               !.pid = nextPid, !.created = now]]
      BY <1>3 DEF Create
    <2>2. /\ obj'[p].pid = nextPid /\ obj'[p].phase = "Execing"
          /\ \A q \in Procs \ {p} : obj'[q] = obj[q]
      BY <1>0, <2>1 DEF NoProcess
    <2>3. UNCHANGED <<claims, arbiter, exec>> /\ nextPid' = nextPid + 1
      BY <1>3 DEF Create
    <2>4. QED
      BY <2>2, <2>3 DEF Moves
  <1>4. CASE Reprioritise(p)
    <2>1. PICK n \in Priorities : obj' = [obj EXCEPT ![p].priority = n]
      BY <1>4 DEF Reprioritise
    <2>2. /\ obj'[p].pid = obj[p].pid /\ obj'[p].phase = obj[p].phase
          /\ obj'[p].served = obj[p].served
          /\ \A q \in Procs \ {p} : obj'[q] = obj[q]
      BY <1>0, <2>1 DEF ProcessObject
    <2>3. UNCHANGED <<claims, arbiter, exec, nextPid>> /\ obj[p].phase # Absent
      BY <1>4 DEF Reprioritise
    <2>4. QED
      BY <1>0, <2>2, <2>3 DEF Moves, IsLive
  <1>5. CASE Attest(p) \/ Reconverge(p) \/ Leave(p)
    <2>1. PICK ph \in {"Attested", "Execing", "Exiting"} :
             /\ obj' = [obj EXCEPT ![p].phase = ph]
             /\ ph = "Attested" => obj[p].phase = "Running"
      BY <1>5 DEF Attest, Reconverge, Leave
    <2>2. /\ obj'[p].pid = obj[p].pid /\ obj'[p].phase = ph
          /\ obj'[p].served = obj[p].served
          /\ \A q \in Procs \ {p} : obj'[q] = obj[q]
      BY <1>0, <2>1 DEF ProcessObject
    <2>3. /\ UNCHANGED <<claims, arbiter, exec, nextPid>> /\ obj[p].phase # Absent
          /\ exec[p] = "idle"
      BY <1>0, <1>5 DEF Attest, Reconverge, Leave, Absent, IsLive
    <2>4. QED
      BY <2>1, <2>2, <2>3 DEF Moves, IsLive, Absent
  <1>6. CASE Remove(p)
    <2>1. obj'[p] = NoProcess /\ \A q \in Procs \ {p} : obj'[q] = obj[q]
      BY <1>0, <1>6 DEF Remove
    <2>2. UNCHANGED <<claims, arbiter, exec, nextPid>> /\ exec[p] = "idle"
      BY <1>0, <1>6 DEF Remove
    <2>3. obj'[p].pid = 0 /\ obj'[p].phase = Absent
      BY <2>1 DEF NoProcess
    <2>4. QED
      BY <2>1, <2>2, <2>3 DEF Moves
  <1>7. QED
    BY <1>1, <1>2, <1>3, <1>4, <1>5, <1>6 DEF ProcessNext

\* What is grounded stays grounded, whatever a Process does.
LEMMA MovesKeepGround ==
    ASSUME IInv, NEW p \in Procs, Moves(p), NEW q \in Procs, NEW n, Grounded(q, n)
    PROVE  Grounded(q, n)'
  <1>1. nextPid \in Nat
    BY DEF IInv, TypeOK
  <1>2. CASE q # p
    BY <1>1, <1>2 DEF Moves, Grounded
  <1>3. CASE q = p
    BY <1>1, <1>3 DEF Moves, Grounded
  <1>4. QED
    BY <1>2, <1>3

\* Every step preserves the inductive invariant.
LEMMA NextIInv ==
    ASSUME IInv, [Next]_vars
    PROVE  IInv'
  <1>t. TypeOK'
    BY NextTypeOK DEF IInv
  <1>l. arbiter.list \in Lists /\ claims \in Registry /\ arbiter.new \in Registry
    BY DEF IInv, TypeOK, Lists
  <1>1. ASSUME UNCHANGED <<obj, nextPid, exec>>, ListSound', NewSound', ClaimsSound',
               DecidedBest'
        PROVE  IInv'
    BY <1>t, <1>1 DEF IInv, ObjectsSound, ExecSound
  <1>2. ASSUME UNCHANGED <<obj, nextPid, exec, claims>>, arbiter' = IdleArbiter
        PROVE  IInv'
    <2>1. ClaimsSound'
      BY <1>2 DEF IInv, ClaimsSound, GroundedClaim, Grounded
    <2>2. ListSound' /\ NewSound' /\ DecidedBest'
      BY <1>2, IdleSound DEF ListSound, NewSound, DecidedBest, GroundedClaim
    <2>3. QED
      BY <1>1, <1>2, <2>1, <2>2
  <1>3. CASE ListProcesses
    <2>1. UNCHANGED <<obj, nextPid, exec, claims>>
      BY <1>3 DEF ListProcesses
    <2>2. arbiter'.step = "listed" /\ arbiter'.list = obj /\ arbiter'.new = arbiter.new
      BY <1>3 DEF ListProcesses, IInv, TypeOK
    <2>3. ListSound'
      BY <2>1, <2>2 DEF IInv, ObjectsSound, ListSound, Grounded, IsLive, Absent
    <2>4. ClaimsSound' /\ NewSound' /\ DecidedBest'
      BY <2>1, <2>2
      DEF IInv, ClaimsSound, NewSound, GroundedClaim, Grounded, DecidedBest
    <2>5. QED
      BY <1>1, <2>1, <2>3, <2>4
  <1>4. ASSUME UNCHANGED <<obj, nextPid, exec, claims>>, NEW current \in Registry,
               DecideAgainst(current)
        PROVE  IInv'
    <2> DEFINE new == [k \in Keys |-> DecideClaimFor(arbiter.list, k, current[k])]
    <2>1. CASE arbiter' = IdleArbiter
      BY <1>2, <1>4, <2>1
    <2>2. CASE arbiter' = [arbiter EXCEPT !.step = "decided", !.new = new]
      <3>1. arbiter'.list = arbiter.list /\ arbiter'.new = new
        BY <2>2 DEF IInv, TypeOK
      <3>2. ListSound' /\ ClaimsSound'
        BY <1>4, <3>1 DEF IInv, ListSound, ClaimsSound, GroundedClaim, Grounded
      <3>3. ASSUME NEW k \in Keys
            PROVE  LET live == LiveCandidates(arbiter.list, k)
                       best == BestCandidate(arbiter.list, live)
                   IN  /\ live = {} => new[k] = NoClaim
                       /\ live # {} => /\ new[k] # NoClaim
                                       /\ best \in live
                                       /\ new[k].holder = best
                                       /\ new[k].pid = arbiter.list[best].pid
        <4>1. current[k] \in ClaimRecord \cup {NoClaim}
          BY DEF Registry
        <4>2. new[k] = DecideClaimFor(arbiter.list, k, current[k])
          OBVIOUS
        <4>3. QED
          BY <1>l, <4>1, <4>2, Decision
      <3> HIDE DEF new
      <3>4. NewSound'
        <4>1. SUFFICES ASSUME NEW k \in Keys, new[k] # NoClaim
                       PROVE  /\ k \in Apps[new[k].holder]
                              /\ Grounded(new[k].holder, new[k].pid)
          BY <1>4, <3>1 DEF NewSound, GroundedClaim, Grounded
        <4> DEFINE best == BestCandidate(arbiter.list, LiveCandidates(arbiter.list, k))
        <4>2. /\ best \in LiveCandidates(arbiter.list, k) /\ new[k].holder = best
              /\ new[k].pid = arbiter.list[best].pid
          BY <3>3, <4>1
        <4> HIDE DEF best
        <4>3. best \in Procs /\ k \in Apps[best] /\ IsLive(arbiter.list[best])
          BY <4>2 DEF LiveCandidates
        <4>4. Grounded(best, arbiter.list[best].pid)
          BY <4>3 DEF IInv, ListSound
        <4>5. QED
          BY <4>2, <4>3, <4>4
      <3>5. DecidedBest'
        <4>1. SUFFICES ASSUME NEW k \in Keys
                       PROVE  LET live == LiveCandidates(arbiter.list, k)
                              IN  IF live = {} THEN new[k] = NoClaim
                                  ELSE /\ new[k] # NoClaim
                                       /\ new[k].holder \in live
                                       /\ new[k].pid = arbiter.list[new[k].holder].pid
                                       /\ \A q \in live :
                                            ~Outranks(arbiter.list, q, new[k].holder)
          BY <3>1 DEF DecidedBest, LiveCandidates, Outranks
        <4> DEFINE live == LiveCandidates(arbiter.list, k)
        <4>2. live \in SUBSET Procs
          BY DEF LiveCandidates
        <4>3. live # {} => \A q \in live :
                              ~Outranks(arbiter.list, q, BestCandidate(arbiter.list, live))
          BY <1>l, <4>2, BestWins
        <4>4. QED
          BY <3>3, <4>3
      <3>6. QED
        BY <1>1, <1>4, <3>2, <3>4, <3>5
    <2>3. QED
      BY <1>4, <2>1, <2>2 DEF DecideAgainst
  <1>5. CASE ReadTable
    BY <1>4, <1>5, <1>l DEF ReadTable
  <1>6. CASE ReadTableFails
    BY <1>4, <1>6, InitialTypes DEF ReadTableFails
  <1>7. CASE PatchClaims
    <2>1. UNCHANGED <<obj, nextPid, exec>> /\ claims' = arbiter.new /\ arbiter' = IdleArbiter
      BY <1>7 DEF PatchClaims
    <2>2. ClaimsSound'
      BY <2>1 DEF IInv, NewSound, ClaimsSound, GroundedClaim, Grounded
    <2>3. ListSound' /\ NewSound' /\ DecidedBest'
      BY <2>1, IdleSound DEF ListSound, NewSound, DecidedBest, GroundedClaim
    <2>4. QED
      BY <1>1, <2>1, <2>2, <2>3
  <1>8. CASE LoseArbiter
    BY <1>2, <1>8 DEF LoseArbiter
  <1>9. ASSUME NEW p \in Procs, ProcessNext(p) PROVE IInv'
    <2>1. Moves(p)
      BY <1>9, ProcessMoves
    <2>2. \A q \in Procs, n \in Nat : Grounded(q, n) => Grounded(q, n)'
      BY <2>1, MovesKeepGround
    <2>3. claims' = claims /\ arbiter' = arbiter
      BY <2>1 DEF Moves
    <2>4. ListSound'
      <3>1. SUFFICES ASSUME NEW q \in Procs, IsLive(arbiter.list[q])
                     PROVE  Grounded(q, arbiter.list[q].pid)'
        BY <2>3 DEF ListSound
      <3>2. PICK n \in Nat : n = arbiter.list[q].pid
        BY <1>l DEF Lists, ProcessObject
      <3>3. Grounded(q, n)
        BY <3>1, <3>2 DEF IInv, ListSound
      <3>4. Grounded(q, n)'
        BY <2>2, <3>3
      <3>5. QED
        BY <2>3, <3>2, <3>4 DEF Grounded
    <2>5. ASSUME NEW k \in Keys, NEW c \in ClaimRecord \cup {NoClaim}, GroundedClaim(k, c)
          PROVE  GroundedClaim(k, c)'
      <3>1. SUFFICES ASSUME c # NoClaim
                     PROVE  k \in Apps[c.holder] /\ Grounded(c.holder, c.pid)'
        BY DEF GroundedClaim
      <3>2. c.holder \in Procs /\ c.pid \in Nat
        BY <3>1 DEF ClaimRecord
      <3>3. QED
        BY <2>2, <2>5, <3>1, <3>2 DEF GroundedClaim
    <2>6. NewSound' /\ ClaimsSound'
      BY <1>l, <2>3, <2>5 DEF IInv, NewSound, ClaimsSound, Registry
    <2>7. DecidedBest'
      BY <2>3 DEF IInv, DecidedBest
    <2>8. ObjectsSound' /\ ExecSound'
      <3>1. nextPid \in Nat /\ nextPid >= 1
        BY DEF IInv, TypeOK, ObjectsSound
      <3>2. nextPid' >= nextPid /\ nextPid' \in Nat
        BY <2>1, <3>1 DEF Moves
      <3>3. ASSUME NEW q \in Procs
            PROVE  /\ obj'[q].phase # Absent => obj'[q].pid \in 1..(nextPid' - 1)
                   /\ obj'[q].phase = Absent => obj'[q].pid = 0
                   /\ IsLive(obj'[q]) => obj'[q].served
        <4>1. /\ obj[q].phase # Absent => obj[q].pid \in 1..(nextPid - 1)
              /\ obj[q].phase = Absent => obj[q].pid = 0
              /\ IsLive(obj[q]) => obj[q].served
          BY DEF IInv, ObjectsSound
        <4>2. CASE q # p
          BY <2>1, <3>1, <3>2, <4>1, <4>2 DEF Moves
        <4>3. CASE q = p
          BY <2>1, <3>1, <3>2, <4>1, <4>3 DEF Moves, IsLive, Absent
        <4>4. QED
          BY <4>2, <4>3
      <3>4. ExecSound'
        BY <2>1 DEF IInv, ExecSound, Moves
      <3>5. QED
        BY <3>1, <3>2, <3>3, <3>4 DEF ObjectsSound
    <2>9. QED
      BY <1>t, <2>4, <2>6, <2>7, <2>8 DEF IInv
  <1>10. CASE UNCHANGED vars
    BY <1>10, <1>t
    DEF vars, IInv, ObjectsSound, ExecSound, ListSound, NewSound, ClaimsSound,
        DecidedBest, GroundedClaim, Grounded
  <1>11. QED
    BY <1>3, <1>5, <1>6, <1>7, <1>8, <1>9, <1>10 DEF Next, ArbiterNext

-----------------------------------------------------------------------------
\* The inductive invariant holds in every reachable state.
LEMMA Inductive == Spec => []IInv
  BY InitIInv, NextIInv, PTL DEF Spec

\* The registry, the Processes and both controllers are well typed in every
\* reachable state; in particular best_candidate always finds a candidate.
THEOREM TypeCorrect == Spec => []TypeOK
  <1>1. IInv => TypeOK
    BY DEF IInv
  <1>2. QED
    BY <1>1, Inductive, PTL

\* A name is only ever held by a Process that declares the app and, as long as
\* it is the same incarnation, has been Running: decisions made from an old
\* list or from a table that could not be read included.
THEOREM ClaimsAreGrounded == Spec => []ClaimsGrounded
  <1>1. IInv => ClaimsGrounded
    BY DEF IInv, ClaimsSound, GroundedClaim, Grounded, ClaimsGrounded
  <1>2. QED
    BY <1>1, Inductive, PTL

\* Only the arbiter writes the registry, and it writes what it has decided.
LEMMA OnlyDecisionsWritten ==
    ASSUME IInv, [Next]_vars, claims' # claims
    PROVE  arbiter.step = "decided" /\ claims' = arbiter.new
  <1>1. ASSUME NEW q \in Procs, ProcessNext(q) PROVE claims' = claims
    BY <1>1, ProcessMoves DEF Moves
  <1>2. PatchClaims
    BY <1>1
    DEF Next, ArbiterNext, vars, ListProcesses, ReadTable, ReadTableFails, LoseArbiter
  <1>3. QED
    BY <1>2 DEF PatchClaims

\* No write of the registry takes a name from a live holder of the list it was
\* decided on, but for a candidate that the holder does not outrank.
THEOREM OustingHasCause == Spec => OustedForCause
  <1>1. ASSUME IInv, [Next]_vars, NEW k \in Keys, NEW p \in Procs,
               Ousted(k, p), p \in LiveCandidates(arbiter.list, k)
        PROVE  /\ claims'[k] # NoClaim
               /\ claims'[k].holder \in LiveCandidates(arbiter.list, k)
               /\ ~Outranks(arbiter.list, p, claims'[k].holder)
    <2>1. claims' # claims
      BY <1>1 DEF Ousted
    <2>2. QED
      BY <1>1, <2>1, OnlyDecisionsWritten DEF IInv, DecidedBest
  <1>2. ASSUME IInv, [Next]_vars
        PROVE  [\A k \in Keys : \A p \in Procs :
                  Ousted(k, p) /\ p \in LiveCandidates(arbiter.list, k) =>
                      /\ claims'[k] # NoClaim
                      /\ claims'[k].holder \in LiveCandidates(arbiter.list, k)
                      /\ ~Outranks(arbiter.list, p, claims'[k].holder)]_vars
    BY <1>1, <1>2
  <1>3. QED
    BY <1>2, Inductive, PTL DEF Spec, OustedForCause

\* Every name that a write of the registry leaves held is held by a Process,
\* and by the incarnation of it, that was live when the round listed them:
\* whatever the registry held before and whether or not it could be read.
THEOREM DeadHoldersLeave == Spec => DeadNamesLeave
  <1>1. ASSUME IInv, [Next]_vars, claims' # claims, NEW k \in Keys,
               claims'[k] # NoClaim
        PROVE  \E p \in LiveCandidates(arbiter.list, k) :
                   MatchesHolder(arbiter.list, p, claims'[k])
    <2>1. arbiter.step = "decided" /\ claims' = arbiter.new
      BY <1>1, OnlyDecisionsWritten
    <2>2. /\ claims'[k].holder \in LiveCandidates(arbiter.list, k)
          /\ claims'[k].pid = arbiter.list[claims'[k].holder].pid
      BY <1>1, <2>1 DEF IInv, DecidedBest
    <2>3. MatchesHolder(arbiter.list, claims'[k].holder, claims'[k])
      BY <1>1, <2>2 DEF MatchesHolder
    <2>4. QED
      BY <2>2, <2>3
  <1>2. ASSUME IInv, [Next]_vars
        PROVE  [claims' # claims =>
                  \A k \in Keys : claims'[k] # NoClaim =>
                      \E p \in LiveCandidates(arbiter.list, k) :
                          MatchesHolder(arbiter.list, p, claims'[k])]_vars
    BY <1>1, <1>2
  <1>3. QED
    BY <1>2, Inductive, PTL DEF Spec, DeadNamesLeave
=============================================================================
