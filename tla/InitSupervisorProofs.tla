------------------------ MODULE InitSupervisorProofs ------------------------
(***************************************************************************)
(* Theorems about InitSupervisor, for any list of services, any policies   *)
(* and any set of PIDs: the map of PIDs is true, no service runs twice and *)
(* a service that ended for good stays down.                               *)
(***************************************************************************)
EXTENDS InitSupervisor, TLAPS

(***************************************************************************)
(* The inductive invariant.  TrackingTrue says nothing of boot, where the  *)
(* map is still by_name, nor of the moment between a reap and the fork     *)
(* that follows it; both have to be described for it to be preserved.      *)
(***************************************************************************)

\* A PID that is free is nobody's.
FreeIsClean == \A p \in Pids : proc[p].state = "free" => proc[p].svc = Nobody

\* A service has at most one PID.
OnePid == \A p, q \in Pids :
    proc[p].svc = proc[q].svc /\ proc[p].svc # Nobody => p = q

\* While boot runs, by_name is exact and no later service has been spawned.
BootExact == pc = "boot" =>
    /\ svc \in 1..(NServices + 1)
    /\ \A p \in Pids, s \in Services : byName[s] = p <=> proc[p].svc = s
    /\ \A p \in Pids : proc[p].svc < svc

\* Once booted, the map gives for each PID the service it was forked for.
MapExact == Booted => \A p \in Pids : tracking[p] = proc[p].svc

\* Between a reap and its fork the service has no process at all.
SpawnDue == pc = "spawn" =>
    svc \in Services /\ \A p \in Pids : proc[p].svc # svc

IInv == TypeOK /\ FreeIsClean /\ OnePid /\ BootExact /\ MapExact /\ SpawnDue

-----------------------------------------------------------------------------
\* What a process 1 fork and a service's fork put into the table.
LEMMA ForkedType ==
    ASSUME NEW s \in Services \cup {Nobody}, NEW p \in Pids \cup {InitPid}
    PROVE  /\ NoProcess \in Process
           /\ [NoProcess EXCEPT !.state = "running", !.svc = s] \in Process
           /\ [NoProcess EXCEPT !.state = "running", !.parent = p] \in Process
  BY DEF NoProcess, Process

\* The type invariant holds initially.
LEMMA InitTypeOK == Init => TypeOK
  <1>1. ASSUME Init PROVE TypeOK
    <2>1. NoProcess \in Process
      BY DEF NoProcess, Process
    <2>2. svc \in 0..(NServices + 1)
      BY <1>1, InitSupervisorAssumption DEF Init, InitSupervisorAssumption
    <2>3. QED
      BY <1>1, <2>1, <2>2 DEF Init, TypeOK
  <1>2. QED
    BY <1>1

\* Every step preserves the type invariant.  Boot and restarts need to know
\* that the service they spawn is one of the configuration.
LEMMA NextTypeOK ==
    ASSUME TypeOK, SpawnDue, [Next]_vars
    PROVE  TypeOK'
  <1>0. /\ NServices \in Nat
        /\ Enabled \subseteq Services
        /\ \A s \in Services : s \in Nat /\ s + 1 \in 0..(NServices + 1)
        /\ Nobody \in 0..(NServices + 1)
    BY InitSupervisorAssumption DEF InitSupervisorAssumption, Services, Nobody
  <1>1. ASSUME NEW p \in FreePids, BootSpawn(p) PROVE TypeOK'
    <2>1. p \in Pids /\ svc \in Services
      BY <1>0, <1>1 DEF FreePids, BootSpawn
    <2>2. proc' \in [Pids -> Process]
      BY <1>1, <2>1, ForkedType DEF BootSpawn, Fork, TypeOK
    <2>3. svc' \in 0..(NServices + 1)
      BY <1>0, <1>1, <2>1 DEF BootSpawn
    <2>4. QED
      BY <1>1, <2>1, <2>2, <2>3 DEF BootSpawn, TypeOK
  <1>2. ASSUME NEW p \in FreePids, Respawn(p) PROVE TypeOK'
    <2>1. p \in Pids /\ svc \in Services
      BY <1>2 DEF FreePids, Respawn, SpawnDue
    <2>2. proc' \in [Pids -> Process]
      BY <1>2, <2>1, ForkedType DEF Respawn, Fork, TypeOK
    <2>3. QED
      BY <1>0, <1>2, <2>1, <2>2 DEF Respawn, Track, TypeOK
  <1>3. ASSUME NEW p \in Reapable, ReapOne(p) PROVE TypeOK'
    <2>1. p \in Pids
      BY DEF Reapable
    <2>2. proc' \in [Pids -> Process]
      BY <1>3, <2>1, ForkedType DEF ReapOne, TypeOK
    <2>3. svc' \in 0..(NServices + 1) /\ pc' \in {"reap", "spawn"}
      <3>1. tracking[p] \in Services \cup {Nobody}
        BY <2>1 DEF TypeOK
      <3>2. tracking[p] \in 0..(NServices + 1)
        BY <3>1, <1>0 DEF Services
      <3>3. QED
        BY <1>3, <3>2 DEF ReapOne, ServiceOf, TypeOK
    <2>4. QED
      BY <1>3, <2>1, <2>2, <2>3 DEF ReapOne, Untrack, TypeOK
  <1>4. CASE BootSkip
    BY <1>0, <1>4 DEF BootSkip, TypeOK
  <1>5. CASE BootDone
    <2>1. \A p \in Pids : tracking'[p] \in Services \cup {Nobody}
      BY <1>5 DEF BootDone
    <2>2. tracking' \in [Pids -> Services \cup {Nobody}]
      BY <1>5, <2>1 DEF BootDone
    <2>3. QED
      BY <1>0, <1>5, <2>2 DEF BootDone, TypeOK
  <1>6. CASE Drained \/ Wake
    BY <1>6 DEF Drained, Wake, TypeOK
  <1>7. CASE SpawnFails
    BY <1>0, <1>7 DEF SpawnFails, TypeOK
  <1>8. ASSUME NEW p \in Pids, NEW status \in {0, 1}, Exit(p, status) PROVE TypeOK'
    <2>1. \A q \in Pids : proc'[q] \in Process
      <3>1. TAKE q \in Pids
      <3>2. proc[p] \in Process /\ proc[q] \in Process
        BY DEF TypeOK
      <3>3. [proc[p] EXCEPT !.state = "zombie", !.status = status] \in Process
        BY <3>2 DEF Process
      <3>4. [proc[q] EXCEPT !.parent = InitPid] \in Process
        BY <3>2 DEF Process
      <3>5. QED
        BY <1>8, <3>2, <3>3, <3>4 DEF Exit
    <2>2. proc' \in [Pids -> Process]
      BY <1>8, <2>1 DEF Exit
    <2>3. QED
      BY <1>8, <2>2 DEF Exit, TypeOK
  <1>9. ASSUME NEW p \in Pids, NEW q \in FreePids, ServiceForks(p, q) PROVE TypeOK'
    <2>1. q \in Pids
      BY DEF FreePids
    <2>2. proc' \in [Pids -> Process]
      BY <1>9, <2>1, ForkedType DEF ServiceForks, TypeOK
    <2>3. QED
      BY <1>9, <2>2 DEF ServiceForks, TypeOK
  <1>10. CASE UNCHANGED vars
    BY <1>10 DEF vars, TypeOK
  <1>11. QED
    BY <1>1, <1>2, <1>3, <1>4, <1>5, <1>6, <1>7, <1>8, <1>9, <1>10
    DEF Next, InitNext

\* How the fields that the invariant reads change with the actions that
\* write the process table.
LEMMA Forked ==
    ASSUME TypeOK, NEW p \in Pids, NEW s \in Services \cup {Nobody},
           NEW par \in Pids \cup {InitPid},
           \/ proc' = [proc EXCEPT ![p] =
                          [NoProcess EXCEPT !.state = "running", !.svc = s]]
           \/ /\ s = Nobody
              /\ proc' = [proc EXCEPT ![p] =
                          [NoProcess EXCEPT !.state = "running", !.parent = par]]
    PROVE  /\ proc'[p].svc = s /\ proc'[p].state = "running"
           /\ \A q \in Pids : q # p => proc'[q] = proc[q]
  BY DEF TypeOK, NoProcess

\* A process that is reaped leaves a free PID and touches no other.
LEMMA Freed ==
    ASSUME TypeOK, NEW p \in Pids, proc' = [proc EXCEPT ![p] = NoProcess]
    PROVE  /\ proc'[p].svc = Nobody
           /\ \A q \in Pids : q # p => proc'[q] = proc[q]
  BY DEF TypeOK, NoProcess

\* An exit changes no owner and frees no PID.
LEMMA Exited ==
    ASSUME TypeOK, NEW p \in Pids, NEW status, Exit(p, status)
    PROVE  \A q \in Pids : /\ proc'[q].svc = proc[q].svc
                           /\ proc'[q].state = "free" => proc[q].state = "free"
  <1>1. TAKE q \in Pids
  <1>2. proc[p] \in Process /\ proc[q] \in Process
    BY DEF TypeOK
  <1>3. CASE q = p
    <2>1. proc'[q] = [proc[p] EXCEPT !.state = "zombie", !.status = status]
      BY <1>3 DEF Exit
    <2>2. QED
      BY <1>2, <1>3, <2>1 DEF Process
  <1>4. CASE q # p /\ proc[q].parent = p
    <2>1. proc'[q] = [proc[q] EXCEPT !.parent = InitPid]
      BY <1>4 DEF Exit
    <2>2. QED
      BY <1>2, <1>4, <2>1 DEF Process
  <1>5. CASE q # p /\ proc[q].parent # p
    BY <1>5 DEF Exit
  <1>6. QED
    BY <1>3, <1>4, <1>5

-----------------------------------------------------------------------------
\* The inductive invariant holds initially.
LEMMA InitIInv == Init => IInv
  <1>1. ASSUME Init PROVE IInv
    <2>1. TypeOK
      BY <1>1, InitTypeOK
    <2>2. /\ NServices \in Nat
          /\ \A p \in Pids : p # 0
      BY InitSupervisorAssumption DEF InitSupervisorAssumption
    <2>3. \A p \in Pids : proc[p].svc = Nobody
      BY <1>1 DEF Init, NoProcess
    <2>4. BootExact
      BY <1>1, <2>2, <2>3 DEF Init, BootExact, Services, Nobody
    <2>5. QED
      BY <1>1, <2>1, <2>3, <2>4
      DEF Init, IInv, FreeIsClean, OnePid, MapExact, SpawnDue, Booted
  <1>2. QED
    BY <1>1

\* Every step preserves the inductive invariant.
LEMMA NextIInv ==
    ASSUME IInv, [Next]_vars
    PROVE  IInv'
  <1>0. /\ NServices \in Nat
        /\ Enabled \subseteq Services
        /\ \A p \in Pids : p # 0
        /\ \A s \in Services : s \in Nat \ {Nobody}
    BY InitSupervisorAssumption DEF InitSupervisorAssumption, Services, Nobody
  <1>t. TypeOK'
    BY NextTypeOK DEF IInv
  <1>s. \A p \in Pids : proc[p].svc \in Services \cup {Nobody}
    BY DEF IInv, TypeOK, Process
  <1>1. ASSUME NEW p \in FreePids, BootSpawn(p) PROVE IInv'
    <2>1. p \in Pids /\ svc \in Services /\ proc[p].svc = Nobody
      BY <1>0, <1>1 DEF FreePids, BootSpawn, IInv, FreeIsClean
    <2>2. /\ proc'[p].svc = svc /\ proc'[p].state = "running"
          /\ \A q \in Pids : q # p => proc'[q] = proc[q]
      BY <1>1, <2>1, Forked DEF BootSpawn, Fork, IInv
    <2>3. \A q \in Pids : proc[q].svc < svc /\ proc[q].svc # svc
      BY <1>1, <1>0, <1>s, <2>1 DEF BootSpawn, IInv, BootExact, Nobody
    <2>4. FreeIsClean' /\ OnePid'
      BY <2>1, <2>2, <2>3 DEF IInv, FreeIsClean, OnePid
    <2>5. BootExact'
      <3>1. svc' \in 1..(NServices + 1)
        BY <1>0, <1>1, <2>1 DEF BootSpawn, Services
      <3>2. \A q \in Pids : proc'[q].svc < svc'
        BY <1>0, <1>1, <1>s, <2>1, <2>2, <2>3 DEF BootSpawn, Services, Nobody
      <3>3. ASSUME NEW q \in Pids, NEW s \in Services
            PROVE  byName'[s] = q <=> proc'[q].svc = s
        <4>1. byName[s] = q <=> proc[q].svc = s
          BY <1>1 DEF BootSpawn, IInv, BootExact
        <4>2. byName'[s] = IF s = svc THEN p ELSE byName[s]
          BY <1>1, <2>1 DEF BootSpawn, IInv, TypeOK
        <4>3. CASE s = svc
          BY <4>2, <4>3, <2>2, <2>3
        <4>4. CASE s # svc
          <5>1. byName'[s] = q <=> proc[q].svc = s
            BY <4>1, <4>2, <4>4
          <5>2. q = p => proc[q].svc # s /\ proc'[q].svc # s
            BY <1>0, <2>1, <2>2, <4>4
          <5>3. QED
            BY <5>1, <5>2, <2>2
        <4>5. QED
          BY <4>3, <4>4
      <3>4. QED
        BY <3>1, <3>2, <3>3 DEF BootExact
    <2>6. MapExact' /\ SpawnDue'
      BY <1>1 DEF BootSpawn, MapExact, SpawnDue, Booted
    <2>7. QED
      BY <1>t, <2>4, <2>5, <2>6 DEF IInv
  <1>2. ASSUME NEW p \in FreePids, Respawn(p) PROVE IInv'
    <2>1. p \in Pids /\ svc \in Services /\ proc[p].svc = Nobody
      BY <1>2 DEF FreePids, Respawn, IInv, FreeIsClean, SpawnDue
    <2>2. /\ proc'[p].svc = svc /\ proc'[p].state = "running"
          /\ \A q \in Pids : q # p => proc'[q] = proc[q]
      BY <1>2, <2>1, Forked DEF Respawn, Fork, IInv
    <2>3. \A q \in Pids : proc[q].svc # svc
      BY <1>2 DEF Respawn, IInv, SpawnDue
    <2>4. FreeIsClean' /\ OnePid'
      BY <2>1, <2>2, <2>3 DEF IInv, FreeIsClean, OnePid
    <2>5. \A q \in Pids : tracking'[q] = proc'[q].svc
      <3>1. \A q \in Pids : tracking[q] = proc[q].svc
        BY <1>2 DEF Respawn, IInv, MapExact, Booted
      <3>2. tracking'[p] = svc /\ \A q \in Pids : q # p => tracking'[q] = tracking[q]
        BY <1>2, <2>1 DEF Respawn, Track, IInv, TypeOK
      <3>3. QED
        BY <2>2, <3>1, <3>2
    <2>6. BootExact' /\ MapExact' /\ SpawnDue'
      BY <1>2, <2>5 DEF Respawn, BootExact, MapExact, SpawnDue
    <2>7. QED
      BY <1>t, <2>4, <2>6 DEF IInv
  <1>3. ASSUME NEW p \in Reapable, ReapOne(p) PROVE IInv'
    <2>1. p \in Pids
      BY DEF Reapable
    <2>2. /\ proc'[p].svc = Nobody
          /\ \A q \in Pids : q # p => proc'[q] = proc[q]
      BY <1>3, <2>1, Freed DEF ReapOne, IInv
    <2>3. FreeIsClean' /\ OnePid'
      BY <2>1, <2>2 DEF IInv, FreeIsClean, OnePid
    <2>4. \A q \in Pids : tracking[q] = proc[q].svc
      BY <1>3 DEF ReapOne, IInv, MapExact, Booted
    <2>5. \A q \in Pids : tracking'[q] = proc'[q].svc
      <3>1. tracking'[p] = Nobody /\ \A q \in Pids : q # p => tracking'[q] = tracking[q]
        BY <1>3, <2>1 DEF ReapOne, Untrack, IInv, TypeOK
      <3>2. QED
        BY <2>2, <2>4, <3>1
    <2>6. pc' = "reap" \/ (pc' = "spawn" /\ svc' = proc[p].svc /\ svc' # Nobody)
      BY <1>3, <2>1, <2>4 DEF ReapOne, ServiceOf, ShouldRestart
    <2>7. SpawnDue'
      <3>1. SUFFICES ASSUME pc' = "spawn"
                     PROVE  svc' \in Services /\ \A q \in Pids : proc'[q].svc # svc'
        BY DEF SpawnDue
      <3>2. svc' = proc[p].svc /\ svc' # Nobody
        BY <2>6, <3>1
      <3>3. svc' \in Services
        BY <1>s, <2>1, <3>2
      <3>4. \A q \in Pids : q # p => proc[q].svc # proc[p].svc
        BY <2>1, <3>2 DEF IInv, OnePid
      <3>5. QED
        BY <2>2, <3>2, <3>3, <3>4
    <2>8. BootExact' /\ MapExact'
      BY <2>5, <2>6 DEF BootExact, MapExact
    <2>9. QED
      BY <1>t, <2>3, <2>7, <2>8 DEF IInv
  <1>4. CASE BootSkip
    <2>1. FreeIsClean' /\ OnePid' /\ MapExact' /\ SpawnDue'
      BY <1>4 DEF BootSkip, IInv, FreeIsClean, OnePid, MapExact, SpawnDue, Booted
    <2>2. BootExact'
      <3>1. svc \in Services /\ svc' = svc + 1
        BY <1>4 DEF BootSkip
      <3>2. svc' \in 1..(NServices + 1)
        BY <1>0, <3>1 DEF Services
      <3>3. \A q \in Pids : proc[q].svc < svc'
        BY <1>4, <1>0, <1>s, <3>1 DEF BootSkip, IInv, BootExact, Services, Nobody
      <3>4. QED
        BY <1>4, <3>2, <3>3 DEF BootSkip, IInv, BootExact
    <2>3. QED
      BY <1>t, <2>1, <2>2 DEF IInv
  <1>5. CASE BootDone
    <2>1. \A p \in Pids : tracking'[p] = proc[p].svc
      <3>1. TAKE p \in Pids
      <3>2. \A s \in Services : byName[s] = p <=> proc[p].svc = s
        BY <1>5 DEF BootDone, IInv, BootExact
      <3>3. tracking'[p] = IF \E s \in Services : byName[s] = p
                           THEN CHOOSE s \in Services : byName[s] = p ELSE Nobody
        BY <1>5 DEF BootDone
      <3>4. QED
        BY <1>s, <3>2, <3>3
    <2>2. QED
      BY <1>t, <1>5, <2>1
      DEF BootDone, IInv, FreeIsClean, OnePid, BootExact, MapExact, SpawnDue
  <1>6. CASE Drained \/ Wake
    <2>1. Booted /\ pc' \in {"sleep", "reap"} /\ UNCHANGED <<proc, tracking>>
      BY <1>6 DEF Drained, Wake, Booted
    <2>2. QED
      BY <1>t, <2>1 DEF IInv, FreeIsClean, OnePid, BootExact, MapExact, SpawnDue
  <1>7. CASE SpawnFails
    BY <1>t, <1>7
    DEF SpawnFails, IInv, FreeIsClean, OnePid, BootExact, MapExact, SpawnDue, Booted
  <1>8. ASSUME NEW p \in Pids, NEW status \in {0, 1}, Exit(p, status) PROVE IInv'
    <2>1. \A q \in Pids : /\ proc'[q].svc = proc[q].svc
                          /\ proc'[q].state = "free" => proc[q].state = "free"
      BY <1>8, Exited DEF IInv
    <2>2. UNCHANGED <<byName, tracking, pc, svc>>
      BY <1>8 DEF Exit
    <2>3. FreeIsClean' /\ OnePid'
      BY <2>1 DEF IInv, FreeIsClean, OnePid
    <2>4. BootExact' /\ MapExact' /\ SpawnDue'
      BY <2>1, <2>2 DEF IInv, BootExact, MapExact, SpawnDue, Booted
    <2>5. QED
      BY <1>t, <2>3, <2>4 DEF IInv
  <1>9. ASSUME NEW p \in Pids, NEW r \in FreePids, ServiceForks(p, r) PROVE IInv'
    <2>1. r \in Pids /\ proc[r].svc = Nobody
      BY DEF FreePids, IInv, FreeIsClean
    <2>2. /\ proc'[r].svc = Nobody
          /\ \A q \in Pids : q # r => proc'[q] = proc[q]
      BY <1>9, <2>1, Forked DEF ServiceForks, IInv
    <2>3. UNCHANGED <<byName, tracking, pc, svc>>
      BY <1>9 DEF ServiceForks
    <2>4. \A q \in Pids : proc'[q].svc = proc[q].svc
      BY <2>1, <2>2
    <2>5. FreeIsClean' /\ OnePid'
      BY <2>1, <2>2, <2>4 DEF IInv, FreeIsClean, OnePid
    <2>6. BootExact' /\ MapExact' /\ SpawnDue'
      BY <2>3, <2>4 DEF IInv, BootExact, MapExact, SpawnDue, Booted
    <2>7. QED
      BY <1>t, <2>5, <2>6 DEF IInv
  <1>10. CASE UNCHANGED vars
    BY <1>10, <1>t
    DEF vars, IInv, FreeIsClean, OnePid, BootExact, MapExact, SpawnDue, Booted
  <1>11. QED
    BY <1>1, <1>2, <1>3, <1>4, <1>5, <1>6, <1>7, <1>8, <1>9, <1>10
    DEF Next, InitNext

-----------------------------------------------------------------------------
\* The inductive invariant holds in every reachable state.
LEMMA Inductive == Spec => []IInv
  BY InitIInv, NextIInv, PTL DEF Spec

\* Process 1's state and the kernel's table are well typed in every reachable
\* state: boot never runs past the list of services (boot, run_once).
THEOREM TypeCorrect == Spec => []TypeOK
  <1>1. IInv => TypeOK
    BY DEF IInv
  <1>2. QED
    BY <1>1, Inductive, PTL

\* The map from PIDs to services that run_once consults is true in every
\* reachable state after boot, for any number of services, PIDs and exits.
THEOREM TrackingIsTrue == Spec => []TrackingTrue
  <1>1. IInv => TrackingTrue
    <2>1. SUFFICES ASSUME IInv, Booted, NEW p \in Pids, NEW s \in Services
                   PROVE  tracking[p] = s <=> (proc[p].state # "free" /\ proc[p].svc = s)
      BY DEF TrackingTrue
    <2>2. tracking[p] = proc[p].svc /\ (proc[p].state = "free" => proc[p].svc = Nobody)
      BY <2>1 DEF IInv, MapExact, FreeIsClean
    <2>3. s # Nobody
      BY InitSupervisorAssumption DEF InitSupervisorAssumption, Services, Nobody
    <2>4. QED
      BY <2>2, <2>3
  <1>2. QED
    BY <1>1, Inductive, PTL

\* No service ever has two processes, in boot or after any sequence of exits,
\* restarts and reuses of PIDs.
THEOREM OneInstanceEach == Spec => []OneInstance
  <1>1. IInv => OneInstance
    BY DEF IInv, OnePid, OneInstance
  <1>2. QED
    BY <1>1, Inductive, PTL

\* A service that run_once did not restart is never started again: whatever
\* its PID is used for afterwards, no exit is taken for an exit of it.
THEOREM StaysDownForGood == Spec => StaysDown
  <1>1. ASSUME IInv, [Next]_vars, NEW s \in Services, AtRest(s)
        PROVE  AtRest(s)' \/ pc' = "halted"
    <2>0. s # Nobody
      BY InitSupervisorAssumption DEF InitSupervisorAssumption, Services, Nobody
    <2>1. Booted /\ ~(pc = "spawn" /\ svc = s) /\ \A p \in Pids : proc[p].svc # s
      BY <1>1, <2>0 DEF AtRest, IInv, FreeIsClean
    <2>2. SUFFICES ASSUME pc' # "halted"
                   PROVE  /\ Booted'
                          /\ ~(pc' = "spawn" /\ svc' = s)
                          /\ \A p \in Pids : proc'[p].svc # s
      BY DEF AtRest
    <2>3. ASSUME NEW p \in FreePids, Respawn(p)
          PROVE  Booted' /\ pc' # "spawn" /\ \A q \in Pids : proc'[q].svc # s
      <3>1. p \in Pids /\ svc \in Services /\ svc # s
        BY <1>1, <2>1, <2>3 DEF FreePids, Respawn, IInv, SpawnDue
      <3>2. /\ proc'[p].svc = svc
            /\ \A q \in Pids : q # p => proc'[q] = proc[q]
        BY <1>1, <2>3, <3>1, Forked DEF Respawn, Fork, IInv
      <3>3. QED
        BY <2>1, <2>3, <3>1, <3>2 DEF Respawn, Booted
    <2>4. ASSUME NEW p \in Reapable, ReapOne(p)
          PROVE  /\ Booted' /\ ~(pc' = "spawn" /\ svc' = s)
                 /\ \A q \in Pids : proc'[q].svc # s
      <3>1. p \in Pids /\ pc = "reap"
        BY <2>4 DEF Reapable, ReapOne
      <3>2. /\ proc'[p].svc = Nobody
            /\ \A q \in Pids : q # p => proc'[q] = proc[q]
        BY <1>1, <2>4, <3>1, Freed DEF ReapOne, IInv
      <3>3. tracking[p] = proc[p].svc
        BY <1>1, <2>1, <3>1 DEF IInv, MapExact
      <3>4. pc' = "reap" \/ (pc' = "spawn" /\ svc' = proc[p].svc)
        BY <2>4, <3>1, <3>3 DEF ReapOne, ServiceOf
      <3>5. QED
        BY <2>0, <2>1, <3>1, <3>2, <3>4 DEF Booted
    <2>5. CASE \/ BootSkip \/ BootDone \/ SpawnFails
               \/ \E p \in FreePids : BootSpawn(p)
      BY <2>1, <2>2, <2>5 DEF BootSkip, BootDone, SpawnFails, BootSpawn, Booted
    <2>6. CASE Drained \/ Wake
      BY <2>1, <2>6 DEF Drained, Wake, Booted
    <2>7. ASSUME NEW p \in Pids, NEW status \in {0, 1}, Exit(p, status)
          PROVE  /\ Booted' /\ ~(pc' = "spawn" /\ svc' = s)
                 /\ \A q \in Pids : proc'[q].svc # s
      <3>1. \A q \in Pids : proc'[q].svc = proc[q].svc
        BY <1>1, <2>7, Exited DEF IInv
      <3>2. QED
        BY <2>1, <2>7, <3>1 DEF Exit, Booted
    <2>8. ASSUME NEW p \in Pids, NEW r \in FreePids, ServiceForks(p, r)
          PROVE  /\ Booted' /\ ~(pc' = "spawn" /\ svc' = s)
                 /\ \A q \in Pids : proc'[q].svc # s
      <3>1. r \in Pids
        BY DEF FreePids
      <3>2. /\ proc'[r].svc = Nobody
            /\ \A q \in Pids : q # r => proc'[q] = proc[q]
        BY <1>1, <2>8, <3>1, Forked DEF ServiceForks, IInv
      <3>3. QED
        BY <2>0, <2>1, <2>8, <3>2 DEF ServiceForks, Booted
    <2>9. CASE UNCHANGED vars
      BY <2>1, <2>9 DEF vars, Booted
    <2>10. QED
      BY <1>1, <2>3, <2>4, <2>5, <2>6, <2>7, <2>8, <2>9 DEF Next, InitNext
  <1>2. ASSUME IInv, [Next]_vars
        PROVE  [\A s \in Services : AtRest(s) => AtRest(s)' \/ pc' = "halted"]_vars
    BY <1>1, <1>2
  <1>3. QED
    BY <1>2, Inductive, PTL DEF Spec, StaysDown
=============================================================================
