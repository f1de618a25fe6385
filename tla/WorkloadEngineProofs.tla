------------------------ MODULE WorkloadEngineProofs ------------------------
(***************************************************************************)
(* Theorems about WorkloadEngine, for any number of tasks, any restart     *)
(* policy and any number of allocations, exits, edits and faults.          *)
(***************************************************************************)
EXTENDS WorkloadEngine, FiniteSetTheorems, TLAPS

-----------------------------------------------------------------------------
(* Types.                                                                  *)

\* The facts about the constants, one by one.
LEMMA Constants ==
    /\ NTasks \in Nat /\ NTasks > 0 /\ Attempts \in Nat /\ MaxAllocs \in Nat
    /\ MaxExits \in Nat /\ MaxEdits \in Nat /\ MaxDrains \in Nat /\ MaxFaults \in Nat
    /\ Counts \subseteq Nat /\ Ids \subseteq Nat /\ Tasks \subseteq Nat
    /\ 0 \notin Ids /\ 0 \notin Tasks
  BY WorkloadEngineAssumption DEF WorkloadEngineAssumption, Ids, Tasks

\* An instance is its allocation, its task and its number.
LEMMA InstanceParts ==
    /\ \A i \in Instances : /\ i = <<i[1], i[2], i[3]>>
                            /\ i[1] \in Ids /\ i[2] \in Tasks /\ i[3] \in Nat
    /\ \A a \in Ids : \A t \in Tasks : \A n \in Nat :
          /\ <<a, t, n>> \in Instances
          /\ <<a, t, n>>[1] = a /\ <<a, t, n>>[2] = t /\ <<a, t, n>>[3] = n
  BY DEF Instances

\* Sets of allocations are counted by numbers.
LEMMA IdSets ==
    ASSUME NEW S \in SUBSET Ids
    PROVE  IsFiniteSet(S) /\ Cardinality(S) \in Nat
  <1>1. IsFiniteSet(Ids)
    <2>1. 1 \in Int /\ MaxAllocs \in Int
      BY Constants
    <2>2. QED
      BY <2>1, FS_Interval DEF Ids
  <1>2. QED
    BY <1>1, FS_Subset, FS_CardinalityType

Pcs == {"idle", "health", "tasks", "restart", "record", "create", "start", "mark",
        "drift"}
Budgets == [{"exits", "edits", "drains", "faults"} -> Nat]

\* Between the calls for one allocation or one task, the tick knows which.
Position ==
    /\ rec.pc \in {"tasks", "restart", "record", "start", "mark"} => rec.cur \in Ids
    /\ rec.pc \in {"restart", "record"} => rec.task \in Tasks
    /\ IsFiniteSet(rec.held)
Shape == TypeOK /\ Position

\* The types of the fields of the tick.
LEMMA Fields ==
    ASSUME NEW r
    PROVE  r \in TickState => 
             /\ r.pc \in Pcs /\ r.nodes \in BOOLEAN
             /\ r.pass \in {"count", "drift", "nodeless"} /\ r.todo \in SUBSET Ids
             /\ r.dead \in [Ids -> SUBSET Tasks] /\ r.up \in SUBSET Ids
             /\ r.cur \in Ids \cup {0} /\ r.left \in SUBSET Tasks
             /\ r.allDead \in BOOLEAN /\ r.task \in Tasks \cup {0}
             /\ r.held \in SUBSET Instances /\ r.creates \in Nat
             /\ r.victims \in SUBSET Ids
  BY DEF TickState, Pcs

\* A tick at rest is well typed.
LEMMA IdleType ==
    /\ IdleTick \in TickState /\ IdleTick.pc = "idle" /\ IdleTick.held = {}
    /\ IdleTick.cur = 0 /\ IdleTick.task = 0 /\ IdleTick.creates = 0
    /\ IdleTick.todo = {} /\ IdleTick.left = {} /\ IdleTick.allDead = FALSE
    /\ IdleTick.victims = {}
  BY DEF IdleTick, TickState

\* Faults and bounded events stay within their types.
LEMMA EventType ==
    ASSUME hurt \subseteq Damage, budget \in Budgets
    PROVE  /\ NoFault => hurt' \subseteq Damage /\ budget' \in Budgets
           /\ \A kinds \in SUBSET Damage :
                 Fault(kinds) => hurt' \subseteq Damage /\ budget' \in Budgets
           /\ \A kind \in {"exits", "edits", "drains", "faults"} : \A max \in Nat :
                 Spend(kind, max) => budget' \in Budgets
  BY DEF NoFault, Fault, Spend, Budgets

\* A launch adds a process to the ones started, alive and held.
LEMMA LaunchType ==
    ASSUME NEW a \in Ids, NEW t \in Tasks, Launch(a, t),
           started \in [Ids -> [Tasks -> Nat]], alive \subseteq Instances,
           rec \in TickState, IsFiniteSet(rec.held)
    PROVE  /\ started' \in [Ids -> [Tasks -> Nat]] /\ alive' \subseteq Instances
           /\ rec' \in TickState /\ IsFiniteSet(rec'.held)
           /\ rec'.pc = (IF rec.pc = "restart" THEN "record" ELSE rec.pc)
           /\ rec'.cur = rec.cur /\ rec'.task = rec.task
  <1>1. PICK n \in Nat : n = started[a][t] + 1
    OBVIOUS
  <1>2. PICK i \in Instances : i = <<a, t, n>>
    BY InstanceParts
  <1>3. started' = [started EXCEPT ![a][t] = n] /\ alive' = alive \cup {i}
    BY <1>1, <1>2 DEF Launch
  <1>4. PICK h \in SUBSET Instances : h = rec.held \cup {i}
    BY Fields
  <1>5. PICK pc \in Pcs : pc = IF rec.pc = "restart" THEN "record" ELSE rec.pc
    BY Fields DEF Pcs
  <1>6. rec' = [rec EXCEPT !.held = h, !.pc = pc]
    BY <1>1, <1>2, <1>4, <1>5 DEF Launch
  <1>7. /\ rec' \in TickState /\ rec'.held = h /\ rec'.pc = pc
        /\ rec'.cur = rec.cur /\ rec'.task = rec.task
    BY <1>6 DEF TickState, Pcs
  <1>8. IsFiniteSet(h)
    BY <1>4, FS_AddElement
  <1>9. QED
    BY <1>3, <1>5, <1>7, <1>8

\* The type invariant holds initially.
LEMMA InitShape == Init => Shape
  <1>1. SUFFICES ASSUME Init PROVE Shape
    OBVIOUS
  <1>2. NoAllocation \in AllocationRecord
    BY DEF NoAllocation, AllocationRecord, States
  <1>3. job \in [count : Nat, version : Nat]
    BY <1>1, Constants DEF Init
  <1>4. budget \in Budgets
    BY <1>1 DEF Init, Budgets
  <1>5. IsFiniteSet(rec.held)
    BY <1>1, IdleType, FS_EmptySet DEF Init
  <1>6. QED
    BY <1>1, <1>2, <1>3, <1>4, <1>5, IdleType DEF Init, Shape, TypeOK, Position, Budgets

\* What the steps of the tick do to the allocations.
LEMMA AllocTypes ==
    ASSUME alloc \in [Ids -> AllocationRecord], NEW a \in Ids, NEW v \in States,
           NEW t \in Tasks
    PROVE  /\ [alloc EXCEPT ![a].state = v] \in [Ids -> AllocationRecord]
           /\ [alloc EXCEPT ![a].restarts[t] = @ + 1] \in [Ids -> AllocationRecord]
  <1>1. [alloc EXCEPT ![a].state = v] \in [Ids -> AllocationRecord]
    BY DEF AllocationRecord
  <1>2. [alloc EXCEPT ![a].restarts[t] = @ + 1] \in [Ids -> AllocationRecord]
    BY DEF AllocationRecord
  <1>3. QED
    BY <1>1, <1>2

\* A new allocation takes an id of its own.
LEMMA PutType ==
    ASSUME alloc \in [Ids -> AllocationRecord], job \in [count : Nat, version : Nat],
           NextId \in Ids, Put
    PROVE  alloc' \in [Ids -> AllocationRecord]
  <1>1. [NoAllocation EXCEPT !.state = "Pending", !.version = job.version]
            \in AllocationRecord
    BY DEF NoAllocation, AllocationRecord, States
  <1>2. QED
    BY <1>1 DEF Put

\* The check of one tick.
LEMMA CheckType ==
    ASSUME NEW blind, Check(blind), running \in [Ids -> SUBSET Instances],
           entries \subseteq Ids, ready \in BOOLEAN
    PROVE  rec' \in TickState /\ rec'.pc = "health" /\ rec'.held = {}
  <1> DEFINE checked == {a \in entries : alloc[a].state = "Running"}
             dead(a) == {i \in running[a] : SeenDead(i) \/ i \in blind}
             lost == [a \in Ids |-> IF a \in checked THEN TaskNames(dead(a)) ELSE {}]
             up == {a \in checked : running[a] # dead(a)}
  <1>1. checked \in SUBSET Ids /\ up \in SUBSET Ids
    OBVIOUS
  <1>2. lost \in [Ids -> SUBSET Tasks]
    <2>1. ASSUME NEW a \in Ids PROVE TaskNames(dead(a)) \subseteq Tasks
      BY InstanceParts DEF TaskNames
    <2>2. QED
      BY <2>1
  <1>3. rec' = [IdleTick EXCEPT !.pc = "health", !.nodes = ready, !.todo = checked,
                              !.dead = lost, !.up = up]
    BY DEF Check
  <1> HIDE DEF checked, dead, lost, up
  <1>4. QED
    BY <1>1, <1>2, <1>3 DEF IdleTick, TickState

\* A node is ready or not.
LEMMA NextReady == ready \in BOOLEAN /\ [Next]_vars => ready' \in BOOLEAN
  <1>1. SUFFICES ASSUME ready \in BOOLEAN, [Next]_vars PROVE ready' \in BOOLEAN
    OBVIOUS
  <1>2. ready' = ready \/ ready' = TRUE \/ ready' = FALSE
    BY <1>1 DEF Next, ReconcilerNext, FaultNext, Environment, vars, BeginTick,
           BeginAllocation, StopTasks, RestartTask, RestartStarts, RecordRestart,
           EndAllocation, ReconcileCount, NoReadyNode, PutAllocation, StartTask,
           FinishStart, MarkComplete, EndPass, NoDrift, RollingUpdate,
           UpdateWithoutNode, BeginTickBlind, RestartFails, RecordRestartFails,
           PutAllocationFails, StartTaskFails, StartAborts, EvalFails,
           RollingUpdateFails, TaskExits, EditFlake, NodeReady, NodeDrains, Crash
  <1>3. QED
    BY <1>1, <1>2

\* Every step keeps the types.
LEMMA NextShape == Shape /\ [Next]_vars => Shape'
  <1>1. SUFFICES ASSUME Shape, [Next]_vars PROVE Shape'
    OBVIOUS
  <1>0. /\ flake \in Counts /\ job \in [count : Nat, version : Nat]
        /\ alloc \in [Ids -> AllocationRecord] /\ entries \subseteq Ids
        /\ running \in [Ids -> SUBSET Instances] /\ started \in [Ids -> [Tasks -> Nat]]
        /\ alive \subseteq Instances /\ rec \in TickState /\ hurt \subseteq Damage
        /\ budget \in Budgets /\ Position /\ ready \in BOOLEAN
    BY <1>1 DEF Shape, TypeOK, Budgets
  <1>f. /\ rec.pc \in Pcs /\ rec.todo \in SUBSET Ids /\ rec.dead \in [Ids -> SUBSET Tasks]
        /\ rec.up \in SUBSET Ids /\ rec.left \in SUBSET Tasks
        /\ rec.held \in SUBSET Instances /\ rec.creates \in Nat
        /\ rec.victims \in SUBSET Ids /\ rec.cur \in Ids \cup {0}
        /\ rec.task \in Tasks \cup {0} /\ IsFiniteSet({}) /\ IsFiniteSet(rec.held)
    BY <1>0, Fields, FS_EmptySet DEF Position
  <1>n. NoFault => hurt' \subseteq Damage /\ budget' \in Budgets
    BY <1>0, EventType
  <1>k. ASSUME NEW kinds \in SUBSET Damage, Fault(kinds)
        PROVE  hurt' \subseteq Damage /\ budget' \in Budgets
    BY <1>0, <1>k, EventType
  <1>q. ASSUME flake' \in Counts, job' \in [count : Nat, version : Nat],
               alloc' \in [Ids -> AllocationRecord], entries' \subseteq Ids,
               running' \in [Ids -> SUBSET Instances],
               started' \in [Ids -> [Tasks -> Nat]],
               alive' \subseteq Instances, rec' \in TickState, Position',
               hurt' \subseteq Damage /\ budget' \in Budgets
        PROVE  Shape'
    <2>1. ready' \in BOOLEAN
      BY <1>0, <1>1, NextReady
    <2>2. QED
      BY <1>q, <2>1 DEF Shape, TypeOK, Budgets
  \* Most steps leave all but the tick alone.
  <1>r. ASSUME UNCHANGED <<flake, job, alloc, entries, running, started, alive>>,
               rec' \in TickState, Position',
               hurt' \subseteq Damage /\ budget' \in Budgets
        PROVE  Shape'
    BY <1>0, <1>q, <1>r
  <1>i. rec' = IdleTick => rec' \in TickState /\ Position'
    BY <1>f, IdleType DEF Position
  <1>2. ASSUME BeginTick PROVE Shape'
    <2>1. Check({}) /\ NoFault
          /\ UNCHANGED <<flake, job, alloc, entries, running, started, alive>>
      BY <1>2 DEF BeginTick
    <2>2. rec' \in TickState /\ Position'
      BY <1>0, <1>f, <2>1, CheckType DEF Position
    <2>3. QED
      BY <1>n, <1>r, <2>1, <2>2
  <1>3. ASSUME BeginTickBlind PROVE Shape'
    <2>1. PICK i : Check({i})
      BY <1>3 DEF BeginTickBlind
    <2>2. /\ Spend("exits", MaxExits) /\ hurt' = hurt \cup {"blind"}
          /\ UNCHANGED <<flake, job, alloc, entries, running, started, alive>>
      BY <1>3 DEF BeginTickBlind
    <2>3. rec' \in TickState /\ Position'
      BY <1>0, <1>f, <2>1, CheckType DEF Position
    <2>4. hurt' \subseteq Damage /\ budget' \in Budgets
      BY <1>0, <2>2, EventType, Constants DEF Damage
    <2>5. QED
      BY <1>r, <2>2, <2>3, <2>4
  <1>4. ASSUME NEW a \in Ids, BeginAllocation(a) PROVE Shape'
    <2> DEFINE left == {t \in rec.dead[a] : ShouldRestart(alloc[a].restarts[t])}
    <2>1. left \in SUBSET Tasks /\ AllDead(a) \in BOOLEAN
      BY <1>f DEF AllDead
    <2>2. PICK l \in SUBSET Tasks : l = left
      BY <2>1
    <2>3. rec' = [rec EXCEPT !.pc = "tasks", !.cur = a, !.todo = @ \ {a},
                             !.dead[a] = {}, !.up = @ \ {a}, !.left = l,
                             !.allDead = AllDead(a)]
      BY <1>4, <2>2 DEF BeginAllocation
    <2>4. rec' \in TickState
      BY <1>0, <2>1, <2>3 DEF TickState
    <2>5. Position'
      BY <1>0, <1>f, <2>3 DEF Position, TickState
    <2>6. QED
      BY <1>4, <1>n, <1>r, <2>4, <2>5 DEF BeginAllocation
  <1>5. ASSUME NEW t \in Tasks, RestartTask(t) PROVE Shape'
    <2>1. rec.cur \in Ids
      BY <1>0, <1>5 DEF RestartTask, Position
    <2>2. alive' \subseteq Instances /\ hurt' \subseteq Damage /\ budget' \in Budgets
      BY <1>0, <1>5, <1>n, <1>k DEF RestartTask, StopOld, Damage
    <2>3. running' \in [Ids -> SUBSET Instances]
      BY <1>0, <1>5, <2>1 DEF RestartTask
    <2>4. rec' \in TickState
      BY <1>0, <1>5, <1>f DEF RestartTask, TickState
    <2>5. Position'
      BY <1>0, <1>f, <1>5, <2>1 DEF RestartTask, Position, TickState
    <2>6. QED
      BY <1>0, <1>5, <1>q, <2>2, <2>3, <2>4, <2>5 DEF RestartTask
  <1>6. ASSUME RestartStarts PROVE Shape'
    <2>1. /\ rec.cur \in Ids /\ rec.task \in Tasks /\ Launch(rec.cur, rec.task) /\ NoFault
          /\ UNCHANGED <<flake, job, alloc, entries, running>>
      BY <1>0, <1>6 DEF RestartStarts, Position
    <2>2. /\ started' \in [Ids -> [Tasks -> Nat]] /\ alive' \subseteq Instances
          /\ rec' \in TickState /\ IsFiniteSet(rec'.held)
          /\ rec'.cur = rec.cur /\ rec'.task = rec.task
      BY <1>0, <1>f, <2>1, LaunchType
    <2>3. Position'
      BY <2>1, <2>2 DEF Position
    <2>4. QED
      BY <1>0, <1>n, <1>q, <2>1, <2>2, <2>3
  <1>7. ASSUME RestartFails PROVE Shape'
    <2>1. rec.cur \in Ids /\ {} \in SUBSET Damage
      BY <1>0, <1>7 DEF RestartFails, Position
    <2>2. rec' \in TickState /\ Position'
      BY <1>0, <1>7, <1>f, <2>1 DEF RestartFails, TickState, Position
    <2>3. QED
      BY <1>7, <1>k, <1>r, <2>1, <2>2 DEF RestartFails
  <1>8. ASSUME RecordRestart \/ RecordRestartFails PROVE Shape'
    <2>1. /\ rec.cur \in Ids /\ rec.task \in Tasks /\ CountRestart
          /\ UNCHANGED <<flake, job, started, alive>>
      BY <1>0, <1>8 DEF RecordRestart, RecordRestartFails, Position
    <2>2. alloc' \in [Ids -> AllocationRecord]
      BY <1>0, <2>1, AllocTypes DEF CountRestart, States
    <2>3. hurt' \subseteq Damage /\ budget' \in Budgets
      BY <1>8, <1>n, <1>k DEF RecordRestart, RecordRestartFails, Damage
    <2>4. entries' \subseteq Ids /\ running' \in [Ids -> SUBSET Instances]
      BY <1>0, <1>f, <1>8, <2>1 DEF RecordRestart, RecordRestartFails
    <2>5. rec' \in TickState /\ Position'
      BY <1>0, <1>f, <1>8, <2>1 DEF RecordRestart, RecordRestartFails, TickState, Position
    <2>6. QED
      BY <1>0, <1>q, <2>1, <2>2, <2>3, <2>4, <2>5
  <1>9. ASSUME EndAllocation PROVE Shape'
    <2>1. rec.cur \in Ids /\ "Failed" \in States
      BY <1>0, <1>9 DEF EndAllocation, Position, States
    <2>2. alloc' \in [Ids -> AllocationRecord]
      BY <1>0, <1>9, <2>1 DEF EndAllocation, AllocationRecord
    <2>3. rec' \in TickState /\ Position'
      BY <1>0, <1>9, <1>f DEF EndAllocation, TickState, Position
    <2>4. QED
      BY <1>0, <1>9, <1>n, <1>q, <2>2, <2>3 DEF EndAllocation
  <1>10. ASSUME ReconcileCount PROVE Shape'
    <2>1. /\ Active \in SUBSET Ids /\ Cardinality(Active) \in Nat
      BY IdSets DEF Active
    <2>2. PICK n \in Nat : n = Deficit(Cardinality(Active))
      BY <1>0, <2>1 DEF Deficit
    <2>3. PICK v \in SUBSET Ids : v = Newest(Active, Cardinality(Active) - job.count)
      BY <2>1 DEF Newest
    <2>4. rec' = [IdleTick EXCEPT !.pc = "create", !.pass = "count", !.creates = n,
                                  !.victims = v]
      BY <1>10, <2>2, <2>3 DEF ReconcileCount
    <2>5. rec' \in TickState /\ Position'
      BY <1>f, <2>4 DEF TickState, IdleTick, Position
    <2>6. QED
      BY <1>10, <1>n, <1>r, <2>5 DEF ReconcileCount
  <1>n10. ASSUME NoReadyNode PROVE Shape'
    <2>1. rec' \in TickState /\ Position'
      BY <1>n10, <1>f DEF NoReadyNode, TickState, IdleTick, Position
    <2>2. QED
      BY <1>n10, <1>n, <1>r, <2>1 DEF NoReadyNode
  <1>11. ASSUME PutAllocation PROVE Shape'
    <2>1. NextId \in Ids /\ Put /\ rec.creates > 0
      BY <1>11 DEF PutAllocation
    <2>2. PICK c \in Ids : c = NextId
      BY <2>1
    <2>3. PICK n \in Nat : n = rec.creates - 1
      BY <1>f, <2>1
    <2>4. rec' = [rec EXCEPT !.pc = "start", !.cur = c, !.creates = n]
      BY <1>11, <2>2, <2>3 DEF PutAllocation
    <2>5. rec' \in TickState /\ Position'
      BY <1>0, <1>f, <2>4 DEF TickState, Position
    <2>6. QED
      BY <1>0, <1>11, <1>n, <1>q, <2>1, <2>5, PutType DEF PutAllocation
  <1>12. ASSUME PutAllocationFails PROVE Shape'
    <2>1. NextId \in Ids /\ Put /\ Fault({"stuck"}) /\ rec' = IdleTick
      BY <1>12 DEF PutAllocationFails
    <2>2. hurt' \subseteq Damage /\ budget' \in Budgets
      BY <1>k, <2>1 DEF Damage
    <2>3. QED
      BY <1>0, <1>12, <1>i, <1>q, <2>1, <2>2, PutType DEF PutAllocationFails
  <1>13. ASSUME StartTask PROVE Shape'
    <2>1. /\ rec.cur \in Ids /\ Cardinality(rec.held) < NTasks /\ NoFault
          /\ Launch(rec.cur, Cardinality(rec.held) + 1) /\ rec.pc = "start"
          /\ UNCHANGED <<flake, job, alloc, entries, running>>
      BY <1>0, <1>13 DEF StartTask, Position
    <2>2. Cardinality(rec.held) \in Nat
      BY <1>f, FS_CardinalityType
    <2>3. PICK t \in Tasks : t = Cardinality(rec.held) + 1
      BY <2>1, <2>2, Constants DEF Tasks
    <2>4. Launch(rec.cur, t)
      BY <2>1, <2>3
    <2>5. /\ started' \in [Ids -> [Tasks -> Nat]] /\ alive' \subseteq Instances
          /\ rec' \in TickState /\ IsFiniteSet(rec'.held)
          /\ rec'.cur = rec.cur /\ rec'.pc = "start"
      BY <1>0, <1>f, <2>1, <2>4, LaunchType
    <2>6. Position'
      BY <2>1, <2>5 DEF Position
    <2>7. QED
      BY <1>0, <1>n, <1>q, <2>1, <2>5, <2>6
  <1>14. ASSUME EndStart PROVE rec' \in TickState /\ Position'
    BY <1>0, <1>f, <1>14 DEF EndStart, TickState, Position
  <1>15. ASSUME StartTaskFails PROVE Shape'
    <2>1. rec.cur \in Ids /\ "Failed" \in States
      BY <1>0, <1>15 DEF StartTaskFails, Position, States
    <2>2. alloc' \in [Ids -> AllocationRecord]
      BY <1>0, <1>15, <2>1 DEF StartTaskFails, AllocationRecord
    <2>3. hurt' \subseteq Damage /\ budget' \in Budgets
      BY <1>15, <1>k DEF StartTaskFails, Damage
    <2>4. QED
      BY <1>0, <1>14, <1>15, <1>q, <2>2, <2>3 DEF StartTaskFails
  <1>16. ASSUME StartAborts PROVE Shape'
    <2>1. hurt' \subseteq Damage /\ budget' \in Budgets
      BY <1>16, <1>k DEF StartAborts, Damage
    <2>2. QED
      BY <1>14, <1>16, <1>r, <2>1 DEF StartAborts
  <1>17. ASSUME FinishStart PROVE Shape'
    <2>1. rec.cur \in Ids /\ "Running" \in States
      BY <1>0, <1>17 DEF FinishStart, Position, States
    <2>2. alloc' \in [Ids -> AllocationRecord]
      BY <1>0, <1>17, <2>1 DEF FinishStart, AllocationRecord
    <2>3. entries' \subseteq Ids /\ running' \in [Ids -> SUBSET Instances]
      BY <1>0, <1>17, <1>f, <2>1 DEF FinishStart
    <2>4. QED
      BY <1>0, <1>14, <1>17, <1>n, <1>q, <2>2, <2>3 DEF FinishStart
  <1>18. ASSUME NEW a \in Ids, StopTasks(a) PROVE Shape'
    <2>1. hurt' \subseteq Damage /\ budget' \in Budgets
      BY <1>18, <1>n, <1>k DEF StopTasks, Damage
    <2>2. alive' \subseteq Instances
      BY <1>0, <1>18 DEF StopTasks
    <2>3. entries' \subseteq Ids /\ running' \in [Ids -> SUBSET Instances]
      BY <1>0, <1>18 DEF StopTasks
    <2>4. rec' \in TickState /\ Position'
      BY <1>0, <1>f, <1>18 DEF StopTasks, TickState, Position
    <2>5. QED
      BY <1>0, <1>18, <1>q, <2>1, <2>2, <2>3, <2>4 DEF StopTasks
  <1>19. ASSUME MarkComplete PROVE Shape'
    <2>1. rec.cur \in Ids /\ "Complete" \in States
      BY <1>0, <1>19 DEF MarkComplete, Position, States
    <2>2. alloc' \in [Ids -> AllocationRecord]
      BY <1>0, <1>19, <2>1 DEF MarkComplete, AllocationRecord
    <2>3. rec' \in TickState /\ Position'
      BY <1>0, <1>19, <1>f DEF MarkComplete, TickState, Position
    <2>4. QED
      BY <1>0, <1>19, <1>n, <1>q, <2>2, <2>3 DEF MarkComplete
  <1>20. ASSUME EndPass PROVE Shape'
    <2>1. rec' \in TickState /\ Position'
      BY <1>20, <1>f, <1>i DEF EndPass, TickState, IdleTick, Position
    <2>2. QED
      BY <1>20, <1>n, <1>r, <2>1 DEF EndPass
  <1>21. ASSUME NoDrift \/ EvalFails PROVE Shape'
    <2>1. {} \in SUBSET Damage
      OBVIOUS
    <2>2. QED
      BY <1>21, <1>i, <1>k, <1>n, <1>r, <2>1 DEF NoDrift, EvalFails
  <1>22. ASSUME RollingUpdate PROVE Shape'
    <2>1. job' \in [count : Nat, version : Nat]
      BY <1>0, <1>22, Constants DEF RollingUpdate, UpdateJob
    <2>2. PICK old \in SUBSET Ids : old = Old
      BY DEF Old, Active
    <2>3. Cardinality(old) \in Nat
      BY IdSets
    <2>4. rec' = [IdleTick EXCEPT !.pc = "create", !.pass = "drift",
                                  !.creates = Cardinality(old), !.victims = old]
      BY <1>22, <2>2 DEF RollingUpdate
    <2>5. rec' \in TickState /\ Position'
      BY <1>f, <2>3, <2>4 DEF TickState, IdleTick, Position
    <2>6. QED
      BY <1>0, <1>22, <1>n, <1>q, <2>1, <2>5 DEF RollingUpdate
  <1>n22. ASSUME UpdateWithoutNode PROVE Shape'
    <2>1. job' \in [count : Nat, version : Nat]
      BY <1>0, <1>n22, Constants DEF UpdateWithoutNode, UpdateJob
    <2>2. PICK old \in SUBSET Ids : old = Old
      BY DEF Old, Active
    <2>3. rec' = [IdleTick EXCEPT !.pc = "create", !.pass = "nodeless", !.victims = old]
      BY <1>n22, <2>2 DEF UpdateWithoutNode
    <2>4. rec' \in TickState /\ Position'
      BY <1>f, <2>3 DEF TickState, IdleTick, Position
    <2>5. QED
      BY <1>0, <1>n22, <1>n, <1>q, <2>1, <2>4 DEF UpdateWithoutNode
  <1>23. ASSUME RollingUpdateFails PROVE Shape'
    <2>1. job' \in [count : Nat, version : Nat]
      BY <1>0, <1>23, Constants DEF RollingUpdateFails, UpdateJob
    <2>2. hurt' \subseteq Damage /\ budget' \in Budgets
      BY <1>23, <1>k DEF RollingUpdateFails, Damage
    <2>3. QED
      BY <1>0, <1>23, <1>i, <1>q, <2>1, <2>2 DEF RollingUpdateFails
  <1>24. ASSUME NEW i \in alive, TaskExits(i) PROVE Shape'
    <2>1. hurt' \subseteq Damage /\ budget' \in Budgets
      BY <1>0, <1>24, EventType, Constants DEF TaskExits
    <2>2. QED
      BY <1>0, <1>24, <1>q, <2>1 DEF TaskExits, Position
  <1>25. ASSUME EditFlake PROVE Shape'
    <2>1. hurt' \subseteq Damage /\ budget' \in Budgets
      BY <1>0, <1>25, EventType, Constants DEF EditFlake
    <2>2. QED
      BY <1>0, <1>25, <1>q, <2>1 DEF EditFlake, Position
  <1>n25. ASSUME NodeReady \/ NodeDrains PROVE Shape'
    <2>1. hurt' \subseteq Damage /\ budget' \in Budgets
      BY <1>0, <1>n25, EventType, Constants DEF NodeReady, NodeDrains
    <2>2. QED
      BY <1>0, <1>n25, <1>q, <2>1 DEF NodeReady, NodeDrains, Position
  <1>26. ASSUME Crash PROVE Shape'
    <2>1. hurt' \subseteq Damage /\ budget' \in Budgets
      BY <1>26, <1>k DEF Crash, Damage
    <2>2. QED
      BY <1>0, <1>26, <1>i, <1>q, <2>1 DEF Crash
  <1>27. CASE UNCHANGED vars
    BY <1>0, <1>27, <1>q DEF vars, Position
  <1>28. QED
    BY <1>1, <1>2, <1>3, <1>4, <1>5, <1>6, <1>7, <1>8, <1>9, <1>10, <1>11, <1>12, <1>13,
       <1>15, <1>16, <1>17, <1>18, <1>19, <1>20, <1>21, <1>22, <1>23, <1>24, <1>25,
       <1>26, <1>27, <1>n10, <1>n22, <1>n25
    DEF Next, ReconcilerNext, FaultNext, Environment

\* The store, the running map and the tick are well typed.
THEOREM TypeCorrect == Spec => []TypeOK
  <1>1. Init => Shape
    BY InitShape
  <1>2. Shape /\ [Next]_vars => Shape'
    BY NextShape
  <1>3. Shape => TypeOK
    BY DEF Shape
  <1>4. QED
    BY <1>1, <1>2, <1>3, PTL DEF Spec

-----------------------------------------------------------------------------
(* What the steps of the health pass and of a start do to the tick and to  *)
(* the running map, field by field.                                        *)

\* The check lists allocations that are in the map; what it reports dead has
\* a process there, and what it does not report up has none that it saw live.
LEMMA CheckEffect ==
    ASSUME Shape, NEW blind, Check(blind)
    PROVE  /\ rec'.pc = "health" /\ rec'.held = {} /\ rec'.todo \subseteq entries
           /\ \A a \in rec'.todo : rec'.dead[a] \subseteq TaskNames(running[a])
           /\ \A a \in rec'.todo : alloc[a].state = "Running"
           /\ blind = {} =>
                 \A a \in rec'.todo \ rec'.up : running[a] \cap alive = {}
  <1> DEFINE checked == {a \in entries : alloc[a].state = "Running"}
             dead(a) == {i \in running[a] : SeenDead(i) \/ i \in blind}
             lost == [a \in Ids |-> IF a \in checked THEN TaskNames(dead(a)) ELSE {}]
             up == {a \in checked : running[a] # dead(a)}
  <1>1. entries \subseteq Ids
    BY DEF Shape, TypeOK
  <1>2. rec' = [IdleTick EXCEPT !.pc = "health", !.nodes = ready, !.todo = checked,
                              !.dead = lost, !.up = up]
    BY DEF Check
  <1>3. ASSUME NEW a \in checked PROVE lost[a] \subseteq TaskNames(running[a])
    BY <1>1 DEF TaskNames
  <1>4. ASSUME NEW a \in checked \ up, blind = {} PROVE running[a] \cap alive = {}
    BY <1>4 DEF SeenDead
  <1>5. checked \subseteq entries /\ \A a \in checked : alloc[a].state = "Running"
    OBVIOUS
  <1> HIDE DEF checked, dead, lost, up
  <1>6. /\ rec'.pc = "health" /\ rec'.held = {} /\ rec'.todo = checked
        /\ rec'.dead = lost /\ rec'.up = up
    BY <1>2 DEF IdleTick
  <1>7. QED
    BY <1>3, <1>4, <1>5, <1>6

\* An allocation is taken up with the dead tasks that may be restarted.
LEMMA BeginAllocationEffect ==
    ASSUME Shape, NEW a \in Ids, BeginAllocation(a)
    PROVE  /\ rec.pc = "health" /\ a \in rec.todo /\ rec'.pc = "tasks" /\ rec'.cur = a
           /\ rec'.todo = rec.todo \ {a} /\ rec'.held = rec.held
           /\ rec'.up = rec.up \ {a}
           /\ \A b \in rec'.todo : rec'.dead[b] = rec.dead[b]
           /\ rec'.left \subseteq rec.dead[a]
           /\ \A t \in rec'.left : alloc[a].restarts[t] < Attempts
           /\ rec'.allDead => a \notin rec.up
           /\ UNCHANGED <<alloc, entries, running, started, alive, hurt>>
  <1>0. rec \in TickState /\ rec.todo \subseteq Ids
    BY Fields DEF Shape, TypeOK
  <1>1. /\ rec.pc = "health" /\ a \in rec.todo
        /\ UNCHANGED <<alloc, entries, running, started, alive, hurt>>
    BY DEF BeginAllocation, NoFault
  <1>2. PICK l : l = {t \in rec.dead[a] : ShouldRestart(alloc[a].restarts[t])}
    OBVIOUS
  <1>3. rec' = [rec EXCEPT !.pc = "tasks", !.cur = a, !.todo = @ \ {a},
                           !.dead[a] = {}, !.up = @ \ {a}, !.left = l,
                           !.allDead = AllDead(a)]
    BY <1>2 DEF BeginAllocation
  <1>4. /\ rec'.pc = "tasks" /\ rec'.cur = a /\ rec'.todo = rec.todo \ {a}
        /\ rec'.held = rec.held /\ rec'.up = rec.up \ {a} /\ rec'.left = l
        /\ rec'.allDead = AllDead(a) /\ rec'.dead = [rec.dead EXCEPT ![a] = {}]
    BY <1>0, <1>3 DEF TickState
  <1>5. l \subseteq rec.dead[a] /\ \A t \in l : alloc[a].restarts[t] < Attempts
    BY <1>2 DEF ShouldRestart
  <1>6. \A b \in rec'.todo : rec'.dead[b] = rec.dead[b]
    BY <1>0, <1>4 DEF TickState
  <1>7. QED
    BY <1>1, <1>4, <1>5, <1>6 DEF AllDead

\* A restart takes the task out of the map.
LEMMA RestartTaskEffect ==
    ASSUME Shape, NEW t \in Tasks, RestartTask(t)
    PROVE  /\ rec.pc = "tasks" /\ rec.cur \in Ids /\ t \in rec.left
           /\ rec'.pc = "restart" /\ rec'.task = t /\ rec'.left = rec.left \ {t}
           /\ rec'.cur = rec.cur /\ rec'.todo = rec.todo /\ rec'.held = rec.held
           /\ rec'.dead = rec.dead /\ rec'.up = rec.up /\ rec'.allDead = rec.allDead
           /\ running' = [running EXCEPT ![rec.cur] = {i \in @ : i[2] # t}]
           /\ alive' \subseteq alive /\ hurt \subseteq hurt'
           /\ \/ "unstopped" \in hurt'
              \/ alive' = alive \ {i \in running[rec.cur] : i[2] = t} /\ hurt' = hurt
           /\ UNCHANGED <<alloc, entries, started>>
  <1>0. rec \in TickState /\ running \in [Ids -> SUBSET Instances]
    BY DEF Shape, TypeOK
  <1>1. rec.pc = "tasks" /\ t \in rec.left /\ rec.cur \in Ids
    BY DEF RestartTask, Shape, Position
  <1>2. /\ rec'.pc = "restart" /\ rec'.task = t /\ rec'.left = rec.left \ {t}
        /\ rec'.cur = rec.cur /\ rec'.todo = rec.todo /\ rec'.held = rec.held
        /\ rec'.dead = rec.dead /\ rec'.up = rec.up /\ rec'.allDead = rec.allDead
    BY <1>0 DEF RestartTask, TickState
  <1>3. running' = [running EXCEPT ![rec.cur] = {i \in @ : i[2] # t}]
    <2>1. running[rec.cur] \ Tracked(rec.cur, t) = {i \in running[rec.cur] : i[2] # t}
      BY DEF Tracked
    <2>2. running' = [running EXCEPT ![rec.cur] = running[rec.cur] \ Tracked(rec.cur, t)]
      BY DEF RestartTask
    <2>3. QED
      BY <2>1, <2>2
  <1>4. /\ alive' \subseteq alive /\ hurt \subseteq hurt'
        /\ \/ "unstopped" \in hurt'
           \/ alive' = alive \ {i \in running[rec.cur] : i[2] = t} /\ hurt' = hurt
    BY DEF RestartTask, StopOld, NoFault, Fault, Tracked
  <1>5. UNCHANGED <<alloc, entries, started>>
    BY DEF RestartTask
  <1>6. QED
    BY <1>1, <1>2, <1>3, <1>4, <1>5

\* A launch: one process more, in the hands of the tick.
LEMMA LaunchEffect ==
    ASSUME Shape, NEW a \in Ids, NEW t \in Tasks, Launch(a, t)
    PROVE  /\ started' = [started EXCEPT ![a][t] = started[a][t] + 1]
           /\ alive' = alive \cup {<<a, t, started[a][t] + 1>>}
           /\ rec'.held = rec.held \cup {<<a, t, started[a][t] + 1>>}
           /\ rec'.pc = (IF rec.pc = "restart" THEN "record" ELSE rec.pc)
           /\ rec'.cur = rec.cur /\ rec'.task = rec.task /\ rec'.left = rec.left
           /\ rec'.todo = rec.todo /\ rec'.dead = rec.dead /\ rec'.up = rec.up
           /\ rec'.allDead = rec.allDead
  <1>0. rec \in TickState /\ started \in [Ids -> [Tasks -> Nat]]
    BY DEF Shape, TypeOK
  <1>1. PICK n \in Nat : n = started[a][t] + 1
    BY <1>0
  <1>2. PICK pc : pc = IF rec.pc = "restart" THEN "record" ELSE rec.pc
    OBVIOUS
  <1>3. rec' = [rec EXCEPT !.held = rec.held \cup {<<a, t, n>>}, !.pc = pc]
    BY <1>1, <1>2 DEF Launch
  <1>4. started' = [started EXCEPT ![a][t] = n] /\ alive' = alive \cup {<<a, t, n>>}
    BY <1>1 DEF Launch
  <1>5. QED
    BY <1>0, <1>1, <1>2, <1>3, <1>4 DEF TickState

\* The restarted task starts.
LEMMA RestartStartsEffect ==
    ASSUME Shape, RestartStarts
    PROVE  /\ rec.pc = "restart" /\ rec'.pc = "record" /\ rec.cur \in Ids
           /\ rec.task \in Tasks /\ Launch(rec.cur, rec.task)
           /\ UNCHANGED <<alloc, entries, running, hurt>>
  <1>1. /\ rec.pc = "restart" /\ rec.cur \in Ids /\ rec.task \in Tasks
        /\ Launch(rec.cur, rec.task)
        /\ UNCHANGED <<alloc, entries, running, hurt>>
    BY DEF RestartStarts, NoFault, Shape, Position
  <1>2. rec'.pc = "record"
    BY <1>1, LaunchEffect
  <1>3. QED
    BY <1>1, <1>2

\* It does not.
LEMMA RestartFailsEffect ==
    ASSUME Shape, RestartFails
    PROVE  /\ rec.pc = "restart" /\ rec'.pc = "tasks" /\ rec.cur \in Ids
           /\ rec'.cur = rec.cur /\ rec'.left = rec.left /\ rec'.todo = rec.todo
           /\ rec'.dead = rec.dead /\ rec'.up = rec.up /\ rec'.allDead = rec.allDead
           /\ rec'.held = rec.held
           /\ UNCHANGED <<alloc, entries, running, started, alive, hurt>>
  <1>0. rec \in TickState
    BY DEF Shape, TypeOK
  <1>1. QED
    BY <1>0 DEF RestartFails, Fault, Shape, Position, TickState

\* The restart is counted and the process handed over to the map, or lost.
LEMMA RecordEffect ==
    ASSUME Shape, RecordRestart \/ RecordRestartFails
    PROVE  /\ rec.pc = "record" /\ rec'.pc = "tasks" /\ rec.cur \in Ids
           /\ rec.task \in Tasks
           /\ rec'.cur = rec.cur /\ rec'.left = rec.left /\ rec'.todo = rec.todo
           /\ rec'.dead = rec.dead /\ rec'.up = rec.up /\ rec'.held = {}
           /\ alloc' = [alloc EXCEPT ![rec.cur].restarts[rec.task] = @ + 1]
           /\ \/ /\ entries' = entries \cup {rec.cur}
                 /\ running' = [running EXCEPT ![rec.cur] = @ \cup rec.held]
                 /\ rec'.allDead = FALSE /\ hurt' = hurt
              \/ /\ UNCHANGED <<entries, running>> /\ rec'.allDead = rec.allDead
                 /\ "dropped" \in hurt' /\ hurt \subseteq hurt'
           /\ UNCHANGED <<started, alive>>
  <1>0. rec \in TickState
    BY DEF Shape, TypeOK
  <1>1. /\ rec.pc = "record" /\ rec.cur \in Ids /\ rec.task \in Tasks
        /\ UNCHANGED <<started, alive>>
        /\ alloc' = [alloc EXCEPT ![rec.cur].restarts[rec.task] = @ + 1]
    BY DEF RecordRestart, RecordRestartFails, CountRestart, Shape, Position
  <1>2. CASE RecordRestart
    <2>1. /\ rec'.pc = "tasks" /\ rec'.cur = rec.cur /\ rec'.left = rec.left
          /\ rec'.todo = rec.todo /\ rec'.dead = rec.dead /\ rec'.up = rec.up
          /\ rec'.held = {} /\ rec'.allDead = FALSE
      BY <1>0, <1>2 DEF RecordRestart, TickState
    <2>2. /\ entries' = entries \cup {rec.cur} /\ hurt' = hurt
          /\ running' = [running EXCEPT ![rec.cur] = @ \cup rec.held]
      BY <1>2 DEF RecordRestart, NoFault
    <2>3. QED
      BY <1>1, <2>1, <2>2
  <1>3. CASE RecordRestartFails
    <2>1. /\ rec'.pc = "tasks" /\ rec'.cur = rec.cur /\ rec'.left = rec.left
          /\ rec'.todo = rec.todo /\ rec'.dead = rec.dead /\ rec'.up = rec.up
          /\ rec'.held = {} /\ rec'.allDead = rec.allDead
      BY <1>0, <1>3 DEF RecordRestartFails, TickState
    <2>2. UNCHANGED <<entries, running>> /\ "dropped" \in hurt' /\ hurt \subseteq hurt'
      BY <1>3 DEF RecordRestartFails, Fault
    <2>3. QED
      BY <1>1, <2>1, <2>2
  <1>4. QED
    BY <1>2, <1>3

\* The next allocation is due; this one has failed if all its tasks were dead.
LEMMA EndAllocationEffect ==
    ASSUME Shape, EndAllocation
    PROVE  /\ rec.pc = "tasks" /\ rec'.pc = "health" /\ rec.cur \in Ids
           /\ rec'.todo = rec.todo /\ rec'.dead = rec.dead /\ rec'.up = rec.up
           /\ rec'.held = rec.held
           /\ \/ alloc' = alloc
              \/ rec.allDead /\ alloc' = [alloc EXCEPT ![rec.cur].state = "Failed"]
           /\ UNCHANGED <<entries, running, started, alive, hurt>>
  <1>0. rec \in TickState
    BY DEF Shape, TypeOK
  <1>1. QED
    BY <1>0 DEF EndAllocation, NoFault, Shape, Position, TickState

\* The steps after which the tick has no allocation in hand.
Released == rec.pc \in {"idle", "create", "drift"} /\ rec.held = {}

\* These are its starts, its ends, and the steps between passes.
LEMMA QuietEffect ==
    ASSUME Shape,
           \/ ReconcileCount \/ PutAllocationFails \/ StartTaskFails \/ StartAborts
           \/ FinishStart \/ EndPass \/ NoDrift \/ EvalFails \/ RollingUpdate
           \/ RollingUpdateFails \/ Crash \/ NoReadyNode \/ UpdateWithoutNode
    PROVE  Released'
  <1>0. rec \in TickState
    BY DEF Shape, TypeOK
  <1>1. rec' = IdleTick => Released'
    BY IdleType DEF Released
  <1>2. EndStart => Released'
    BY <1>0 DEF EndStart, Released, TickState
  <1>3. ReconcileCount \/ NoReadyNode \/ RollingUpdate \/ UpdateWithoutNode => Released'
    BY DEF ReconcileCount, NoReadyNode, RollingUpdate, UpdateWithoutNode, IdleTick, Released
  <1>4. EndPass => Released'
    BY <1>1 DEF EndPass, IdleTick, Released
  <1>5. QED
    BY <1>1, <1>2, <1>3, <1>4
    DEF PutAllocationFails, StartTaskFails, StartAborts, FinishStart, NoDrift,
        EvalFails, RollingUpdateFails, Crash

\* The processes of a victim are stopped and it leaves the map.
LEMMA StopTasksEffect ==
    ASSUME Shape, NEW a \in Ids, StopTasks(a)
    PROVE  /\ rec.pc = "create" /\ rec'.pc = "mark" /\ rec'.cur = a
           /\ rec'.held = rec.held
           /\ entries' = entries \ {a} /\ running' = [running EXCEPT ![a] = {}]
           /\ alive' \subseteq alive /\ hurt \subseteq hurt'
           /\ \/ "unstopped" \in hurt'
              \/ alive' = alive \ running[a] /\ hurt' = hurt
           /\ UNCHANGED <<alloc, started>>
  <1>0. rec \in TickState
    BY DEF Shape, TypeOK
  <1>1. rec'.pc = "mark" /\ rec'.cur = a /\ rec'.held = rec.held
    BY <1>0 DEF StopTasks, TickState
  <1>2. /\ alive' \subseteq alive /\ hurt \subseteq hurt'
        /\ \/ "unstopped" \in hurt'
           \/ alive' = alive \ running[a] /\ hurt' = hurt
    BY DEF StopTasks, NoFault, Fault
  <1>3. QED
    BY <1>1, <1>2 DEF StopTasks

\* It is marked Complete.
LEMMA MarkCompleteEffect ==
    ASSUME Shape, MarkComplete
    PROVE  /\ rec.pc = "mark" /\ rec'.pc = "create" /\ rec.cur \in Ids
           /\ rec'.held = rec.held
           /\ alloc' = [alloc EXCEPT ![rec.cur].state = "Complete"]
           /\ UNCHANGED <<entries, running, started, alive, hurt>>
  <1>0. rec \in TickState
    BY DEF Shape, TypeOK
  <1>1. QED
    BY <1>0 DEF MarkComplete, NoFault, Shape, Position, TickState

\* A new allocation is put and starts with no process.
LEMMA PutAllocationEffect ==
    ASSUME Shape, PutAllocation
    PROVE  /\ rec.pc = "create" /\ rec'.pc = "start" /\ rec'.cur = NextId
           /\ NextId \in Ids /\ Put /\ rec'.held = rec.held
           /\ UNCHANGED <<entries, running, started, alive, hurt>>
  <1>0. rec \in TickState
    BY DEF Shape, TypeOK
  <1>1. PICK c : c = NextId
    OBVIOUS
  <1>2. rec' = [rec EXCEPT !.pc = "start", !.cur = c, !.creates = @ - 1]
    BY <1>1 DEF PutAllocation
  <1>3. rec'.pc = "start" /\ rec'.cur = c /\ rec'.held = rec.held
    BY <1>0, <1>2 DEF TickState
  <1>4. QED
    BY <1>1, <1>3 DEF PutAllocation, NoFault

\* The next task of the allocation starts.
LEMMA StartTaskEffect ==
    ASSUME Shape, StartTask
    PROVE  /\ rec.pc = "start" /\ rec.cur \in Ids /\ rec'.pc = "start"
           /\ Cardinality(rec.held) \in Nat /\ Cardinality(rec.held) < NTasks
           /\ Cardinality(rec.held) + 1 \in Tasks
           /\ Launch(rec.cur, Cardinality(rec.held) + 1)
           /\ UNCHANGED <<alloc, entries, running, hurt>>
  <1>1. /\ rec.pc = "start" /\ rec.cur \in Ids /\ Cardinality(rec.held) < NTasks
        /\ Launch(rec.cur, Cardinality(rec.held) + 1)
        /\ UNCHANGED <<alloc, entries, running, hurt>>
    BY DEF StartTask, NoFault, Shape, Position
  <1>2. Cardinality(rec.held) \in Nat
    BY FS_CardinalityType DEF Shape, Position
  <1>3. PICK t \in Tasks : t = Cardinality(rec.held) + 1
    BY <1>1, <1>2, Constants DEF Tasks
  <1>4. rec'.pc = "start"
    BY <1>1, <1>3, LaunchEffect
  <1>5. QED
    BY <1>1, <1>2, <1>3, <1>4

-----------------------------------------------------------------------------
(* The books of the engine: ids, processes, and the tick's place in them.  *)

Checking == rec.pc \in {"health", "tasks", "restart", "record"}
AtTasks  == rec.pc \in {"tasks", "restart", "record"}

\* Ids are given out in order.
Numbered == \E m \in 0..MaxAllocs : \A a \in Ids : alloc[a].state # "None" <=> a <= m

\* An id that was not given out has no process and no entry, a process has a
\* number that was given out, and the map keeps it under its own allocation.
Births ==
    /\ \A a \in Ids : alloc[a].state = "None" => \A t \in Tasks : started[a][t] = 0
    /\ \A i \in alive : 1 <= i[3] /\ i[3] <= started[i[1]][i[2]]
    /\ \A a \in Ids : \A i \in running[a] : i[1] = a
    /\ \A a \in entries : alloc[a].state # "None"

\* The health pass is at an allocation in the map and at tasks that may be
\* restarted; a task that is being restarted has left the map.
InHealth ==
    /\ Checking => /\ rec.todo \subseteq entries
                   /\ \A a \in rec.todo : rec.dead[a] \subseteq TaskNames(running[a])
    /\ AtTasks => /\ rec.cur \in entries \ rec.todo
                  /\ \A t \in rec.left : /\ t \in TaskNames(running[rec.cur])
                                         /\ alloc[rec.cur].restarts[t] < Attempts
    /\ rec.pc \in {"restart", "record"} =>
          /\ rec.task \notin rec.left
          /\ alloc[rec.cur].restarts[rec.task] < Attempts
          /\ rec.task \notin TaskNames(running[rec.cur])

\* What the tick has in hand: the restarted process, or the first processes of
\* the first tasks of an allocation that is not in the map yet.
InHand ==
    /\ rec.pc \notin {"start", "record"} => rec.held = {}
    /\ rec.pc = "record" => rec.held = {<<rec.cur, rec.task, started[rec.cur][rec.task]>>}
    /\ rec.pc = "start" =>
          /\ rec.cur \notin entries /\ alloc[rec.cur].state = "Pending"
          /\ rec.held = {<<rec.cur, t, 1>> : t \in 1..Cardinality(rec.held)}
          /\ \A t \in Tasks :
                started[rec.cur][t] = IF t <= Cardinality(rec.held) THEN 1 ELSE 0

\* Only allocations that were given out are to be stopped.
Chosen ==
    /\ \A a \in rec.victims : alloc[a].state # "None"
    /\ rec.pc = "mark" => alloc[rec.cur].state # "None"

Books == Numbered /\ Births /\ InHealth /\ InHand /\ Chosen

\* The next id is free.
LEMMA NextIdFree ==
    ASSUME Numbered, NextId \in Ids
    PROVE  /\ alloc[NextId].state = "None"
           /\ \A a \in Ids : alloc[a].state # "None" <=> a < NextId
  <1>1. PICK m \in 0..MaxAllocs : \A a \in Ids : alloc[a].state # "None" <=> a <= m
    BY DEF Numbered
  <1> DEFINE given == {a \in Ids : alloc[a].state # "None"}
  <1>2. given = 1..m
    BY <1>1, Constants DEF Ids
  <1>3. Cardinality(1..m) = m
    <2>1. 1 \in Int /\ m \in Int
      OBVIOUS
    <2>2. Cardinality(1..m) = IF 1 > m THEN 0 ELSE m - 1 + 1
      BY <2>1, FS_Interval
    <2>3. QED
      BY <2>2
  <1>4. NextId = m + 1
    <2>1. NextId = 1 + Cardinality(given)
      BY DEF NextId
    <2> HIDE DEF given
    <2>2. QED
      BY <1>2, <1>3, <2>1
  <1>5. QED
    BY <1>1, <1>4, Constants

\* Put gives it out.
LEMMA PutEffect ==
    ASSUME Shape, Numbered, NextId \in Ids, Put
    PROVE  /\ alloc[NextId].state = "None" /\ alloc'[NextId].state = "Pending"
           /\ \A a \in Ids \ {NextId} : alloc'[a] = alloc[a]
           /\ Numbered'
  <1>0. alloc \in [Ids -> AllocationRecord]
    BY DEF Shape, TypeOK
  <1>1. PICK c \in Ids : c = NextId
    OBVIOUS
  <1>2. alloc' = [alloc EXCEPT ![c] = [NoAllocation EXCEPT !.state = "Pending",
                                                           !.version = job.version]]
    BY <1>1 DEF Put
  <1>3. alloc'[c].state = "Pending"
    BY <1>0, <1>2 DEF NoAllocation
  <1>4. \A a \in Ids \ {c} : alloc'[a] = alloc[a]
    BY <1>0, <1>2
  <1>5. alloc[c].state = "None" /\ \A a \in Ids : alloc[a].state # "None" <=> a < c
    BY <1>1, NextIdFree
  <1>6. \A a \in Ids : alloc'[a].state # "None" <=> a <= c
    BY <1>3, <1>4, <1>5, Constants
  <1>7. c \in 0..MaxAllocs
    BY Constants DEF Ids
  <1>8. Numbered'
    BY <1>6, <1>7 DEF Numbered
  <1>9. QED
    BY <1>1, <1>3, <1>4, <1>5, <1>8

\* No other step gives one out or takes one back.
LEMMA MarkedState ==
    ASSUME Shape, NEW a \in Ids, NEW v \in States \ {"None"},
           alloc[a].state # "None", alloc' = [alloc EXCEPT ![a].state = v]
    PROVE  /\ alloc'[a].state = v /\ \A b \in Ids \ {a} : alloc'[b] = alloc[b]
           /\ \A b \in Ids : alloc'[b].restarts = alloc[b].restarts
           /\ \A b \in Ids : alloc'[b].state = "None" <=> alloc[b].state = "None"
  <1>0. alloc \in [Ids -> AllocationRecord]
    BY DEF Shape, TypeOK
  <1>1. QED
    BY <1>0 DEF AllocationRecord

\* A counted restart changes nothing else.
LEMMA CountedState ==
    ASSUME Shape, NEW a \in Ids, NEW t \in Tasks,
           alloc' = [alloc EXCEPT ![a].restarts[t] = @ + 1]
    PROVE  /\ \A b \in Ids : alloc'[b].state = alloc[b].state
           /\ \A b \in Ids : \A u \in Tasks :
                 alloc'[b].restarts[u] = IF b = a /\ u = t THEN alloc[b].restarts[u] + 1
                                                          ELSE alloc[b].restarts[u]
  <1>0. alloc \in [Ids -> AllocationRecord]
    BY DEF Shape, TypeOK
  <1>1. QED
    BY <1>0 DEF AllocationRecord

\* Nothing is in the books at first.
LEMMA InitBooks == Init => Books
  <1>1. SUFFICES ASSUME Init PROVE Books
    OBVIOUS
  <1>2. Numbered
    <2>1. \A a \in Ids : alloc[a].state # "None" <=> a <= 0
      BY <1>1, Constants DEF Init, NoAllocation, Ids
    <2>2. 0 \in 0..MaxAllocs
      BY Constants
    <2>3. QED
      BY <2>1, <2>2 DEF Numbered
  <1>3. Births
    BY <1>1 DEF Init, Births
  <1>4. InHealth /\ InHand
    BY <1>1, IdleType DEF Init, InHealth, InHand, Checking, AtTasks
  <1>5. Chosen
    BY <1>1, IdleType DEF Init, Chosen
  <1>6. QED
    BY <1>2, <1>3, <1>4, <1>5 DEF Books

\* Victims are chosen among the active allocations.
LEMMA VictimsEffect ==
    ASSUME Shape, [Next]_vars
    PROVE  \A a \in rec'.victims : a \in rec.victims \/ a \in Active
  <1>0. rec \in TickState
    BY DEF Shape, TypeOK
  <1>1. ASSUME ReconcileCount \/ NoReadyNode \/ RollingUpdate \/ UpdateWithoutNode
        PROVE  \A a \in rec'.victims : a \in Active
    BY <1>1 DEF ReconcileCount, NoReadyNode, RollingUpdate, UpdateWithoutNode, Newest, Old,
                IdleTick
  <1>2. ASSUME rec' = IdleTick PROVE \A a \in rec'.victims : a \in Active
    BY <1>2, IdleType
  <1>3. ASSUME BeginTick \/ BeginTickBlind PROVE \A a \in rec'.victims : a \in Active
    BY <1>3 DEF BeginTick, BeginTickBlind, Check, IdleTick
  <1>4. ASSUME EndPass PROVE \A a \in rec'.victims : a \in Active
    BY <1>2, <1>4 DEF EndPass, IdleTick
  <1>5. ASSUME NEW a, NEW t, Launch(a, t) PROVE rec'.victims = rec.victims
    BY <1>0, <1>5 DEF Launch, TickState
  <1>6. ASSUME NEW a \in Ids, BeginAllocation(a) PROVE rec'.victims = rec.victims
    BY <1>0, <1>6 DEF BeginAllocation, TickState
  <1>7. ASSUME NEW a \in Ids, StopTasks(a) PROVE rec'.victims \subseteq rec.victims
    BY <1>0, <1>7 DEF StopTasks, TickState
  <1>8. ASSUME NEW t \in Tasks, RestartTask(t) PROVE rec'.victims = rec.victims
    BY <1>0, <1>8 DEF RestartTask, TickState
  <1>9. ASSUME \/ RestartFails \/ RecordRestart \/ RecordRestartFails \/ EndAllocation
        PROVE  rec'.victims = rec.victims
    BY <1>0, <1>9 DEF RestartFails, RecordRestart, RecordRestartFails, EndAllocation, TickState
  <1>10. ASSUME PutAllocation \/ EndStart \/ MarkComplete PROVE rec'.victims = rec.victims
    BY <1>0, <1>10 DEF PutAllocation, EndStart, MarkComplete, TickState
  <1>11. QED
    BY <1>1, <1>2, <1>3, <1>4, <1>5, <1>6, <1>7, <1>8, <1>9, <1>10
    DEF Next, ReconcilerNext, FaultNext, Environment, vars, RestartStarts, StartTask,
        PutAllocationFails, StartTaskFails, StartAborts, FinishStart, NoDrift,
        EvalFails, RollingUpdateFails, TaskExits, EditFlake, NodeReady, NodeDrains, Crash

\* Every step keeps the books.
LEMMA NextBooks ==
    ASSUME Shape, Shape', Books, [Next]_vars
    PROVE  Books'
  <1>0. /\ alloc \in [Ids -> AllocationRecord] /\ entries \subseteq Ids
        /\ running \in [Ids -> SUBSET Instances] /\ started \in [Ids -> [Tasks -> Nat]]
        /\ alive \subseteq Instances /\ IsFiniteSet(rec.held)
    BY DEF Shape, TypeOK, Position
  <1>1. Numbered /\ Births /\ InHealth /\ InHand /\ Chosen
    BY DEF Books
  <1>c. ASSUME \A a \in Ids : alloc[a].state # "None" => alloc'[a].state # "None",
               rec'.pc # "mark"
        PROVE  Chosen'
    <2>1. \A a \in rec'.victims : a \in Ids /\ alloc[a].state # "None"
      <3>1. ASSUME NEW a \in rec'.victims PROVE a \in rec.victims \/ a \in Active
        BY VictimsEffect
      <3>2. rec.victims \subseteq Ids
        BY Fields DEF Shape, TypeOK
      <3>3. \A a \in Active : a \in Ids /\ alloc[a].state # "None"
        BY DEF Active
      <3>4. QED
        BY <1>1, <3>1, <3>2, <3>3 DEF Chosen
    <2>2. QED
      BY <1>c, <2>1 DEF Chosen
  <1>u. ASSUME UNCHANGED <<alloc, entries, running, started>>, alive' \subseteq alive
        PROVE  Numbered' /\ Births'
    BY <1>1, <1>u DEF Numbered, Births
  <1>s. ASSUME \A a \in Ids : alloc'[a].state = "None" <=> alloc[a].state = "None"
        PROVE  /\ Numbered'
               /\ \A a \in Ids : alloc[a].state = "None" <=> alloc'[a].state = "None"
    BY <1>1, <1>s DEF Numbered
  <1>q. ASSUME Released' PROVE InHealth' /\ InHand'
    BY <1>q DEF Released, InHealth, InHand, Checking, AtTasks
  <1>h. ASSUME NEW S, NEW T PROVE S \subseteq T => TaskNames(S) \subseteq TaskNames(T)
    BY DEF TaskNames
  <1>2. ASSUME NEW blind, Check(blind), UNCHANGED <<alloc, entries, running, started, alive>>
        PROVE  Books'
    <2>1. /\ rec'.pc = "health" /\ rec'.held = {} /\ rec'.todo \subseteq entries
          /\ \A a \in rec'.todo : rec'.dead[a] \subseteq TaskNames(running[a])
      BY <1>2, CheckEffect
    <2>2. InHealth' /\ InHand'
      BY <1>2, <2>1 DEF InHealth, InHand, Checking, AtTasks
    <2>3. Chosen'
      BY <1>2, <1>c, <2>1
    <2>4. QED
      BY <1>2, <1>u, <2>2, <2>3 DEF Books
  <1>3. ASSUME BeginTick \/ BeginTickBlind PROVE Books'
    BY <1>2, <1>3 DEF BeginTick, BeginTickBlind
  <1>4. ASSUME NEW a \in Ids, BeginAllocation(a) PROVE Books'
    <2>1. /\ rec.pc = "health" /\ a \in rec.todo /\ rec'.pc = "tasks" /\ rec'.cur = a
          /\ rec'.todo = rec.todo \ {a} /\ rec'.held = rec.held
          /\ \A b \in rec'.todo : rec'.dead[b] = rec.dead[b]
          /\ rec'.left \subseteq rec.dead[a]
          /\ \A t \in rec'.left : alloc[a].restarts[t] < Attempts
          /\ UNCHANGED <<alloc, entries, running, started, alive>>
      BY <1>4, BeginAllocationEffect
    <2>2. InHealth'
      BY <1>1, <2>1 DEF InHealth, Checking, AtTasks
    <2>3. InHand'
      BY <1>1, <2>1 DEF InHand
    <2>4. Chosen'
      BY <1>c, <2>1
    <2>5. QED
      BY <1>u, <2>1, <2>2, <2>3, <2>4 DEF Books
  <1>5. ASSUME NEW t \in Tasks, RestartTask(t) PROVE Books'
    <2>1. /\ rec.pc = "tasks" /\ rec.cur \in Ids /\ t \in rec.left
          /\ rec'.pc = "restart" /\ rec'.task = t /\ rec'.left = rec.left \ {t}
          /\ rec'.cur = rec.cur /\ rec'.todo = rec.todo /\ rec'.held = rec.held
          /\ rec'.dead = rec.dead
          /\ running' = [running EXCEPT ![rec.cur] = {i \in @ : i[2] # t}]
          /\ alive' \subseteq alive
          /\ UNCHANGED <<alloc, entries, started>>
      BY <1>5, RestartTaskEffect
    <2>2. /\ running'[rec.cur] = {i \in running[rec.cur] : i[2] # t}
          /\ \A a \in Ids \ {rec.cur} : running'[a] = running[a]
      BY <1>0, <2>1
    <2>3. Numbered' /\ Births'
      BY <1>0, <1>1, <2>1, <2>2 DEF Numbered, Births
    <2>4. /\ t \notin TaskNames(running'[rec.cur])
          /\ \A u \in TaskNames(running[rec.cur]) \ {t} : u \in TaskNames(running'[rec.cur])
      BY <2>2 DEF TaskNames
    <2>5. InHealth'
      BY <1>0, <1>1, <2>1, <2>2, <2>4 DEF InHealth, Checking, AtTasks
    <2>6. InHand'
      BY <1>1, <2>1 DEF InHand
    <2>7. Chosen'
      BY <1>c, <2>1
    <2>8. QED
      BY <2>3, <2>5, <2>6, <2>7 DEF Books
  <1>l. ASSUME NEW a \in Ids, NEW t \in Tasks, Launch(a, t), alloc[a].state # "None",
               UNCHANGED <<alloc, entries, running>>
        PROVE  /\ Numbered' /\ Births'
               /\ started' = [started EXCEPT ![a][t] = started[a][t] + 1]
    <2>1. /\ started' = [started EXCEPT ![a][t] = started[a][t] + 1]
          /\ alive' = alive \cup {<<a, t, started[a][t] + 1>>}
      BY <1>l, LaunchEffect
    <2>2. \A b \in Ids : \A u \in Tasks :
             started'[b][u] = IF b = a /\ u = t THEN started[b][u] + 1 ELSE started[b][u]
      BY <1>0, <2>1
    <2>3. \A b \in Ids : alloc'[b].state = "None" => \A u \in Tasks : started'[b][u] = 0
      BY <1>1, <1>l, <2>2 DEF Births
    <2>4. ASSUME NEW i \in alive' PROVE 1 <= i[3] /\ i[3] <= started'[i[1]][i[2]]
      <3>1. CASE i \in alive
        <4>1. i[1] \in Ids /\ i[2] \in Tasks /\ i[3] \in Nat
          BY <1>0, <3>1, InstanceParts
        <4>2. 1 <= i[3] /\ i[3] <= started[i[1]][i[2]] /\ started[i[1]][i[2]] \in Nat
          BY <1>0, <1>1, <3>1, <4>1 DEF Births
        <4>3. QED
          BY <2>2, <4>1, <4>2
      <3>2. CASE i = <<a, t, started[a][t] + 1>>
        <4>1. started[a][t] \in Nat
          BY <1>0
        <4>2. i[1] = a /\ i[2] = t /\ i[3] = started[a][t] + 1
          BY <3>2, <4>1, InstanceParts
        <4>3. QED
          BY <2>2, <4>1, <4>2
      <3>3. QED
        BY <2>1, <3>1, <3>2
    <2>5. QED
      BY <1>1, <1>l, <2>1, <2>3, <2>4 DEF Numbered, Births
  <1>6. ASSUME RestartStarts PROVE Books'
    <2>1. /\ rec.pc = "restart" /\ rec'.pc = "record" /\ rec.cur \in Ids
          /\ rec.task \in Tasks /\ Launch(rec.cur, rec.task)
          /\ UNCHANGED <<alloc, entries, running, hurt>>
      BY <1>6, RestartStartsEffect
    <2>2. /\ started' = [started EXCEPT ![rec.cur][rec.task] = started[rec.cur][rec.task] + 1]
          /\ rec'.held = rec.held \cup {<<rec.cur, rec.task, started[rec.cur][rec.task] + 1>>}
          /\ rec'.cur = rec.cur /\ rec'.task = rec.task /\ rec'.left = rec.left
          /\ rec'.todo = rec.todo /\ rec'.dead = rec.dead
      BY <2>1, LaunchEffect
    <2>3. alloc[rec.cur].state # "None"
      BY <1>1, <2>1 DEF InHealth, AtTasks, Births
    <2>4. Numbered' /\ Births'
      BY <1>l, <2>1, <2>3
    <2>5. InHealth'
      BY <1>1, <2>1, <2>2 DEF InHealth, Checking, AtTasks
    <2>6. started'[rec.cur][rec.task] = started[rec.cur][rec.task] + 1 /\ rec.held = {}
      BY <1>0, <1>1, <2>1, <2>2 DEF InHand
    <2>7. InHand'
      BY <2>1, <2>2, <2>6 DEF InHand
    <2>8. Chosen'
      BY <1>c, <2>1
    <2>9. QED
      BY <2>4, <2>5, <2>7, <2>8 DEF Books
  <1>7. ASSUME RestartFails PROVE Books'
    <2>1. /\ rec.pc = "restart" /\ rec'.pc = "tasks" /\ rec'.cur = rec.cur
          /\ rec'.left = rec.left /\ rec'.todo = rec.todo /\ rec'.dead = rec.dead
          /\ rec'.held = rec.held
          /\ UNCHANGED <<alloc, entries, running, started, alive>>
      BY <1>7, RestartFailsEffect
    <2>2. InHealth' /\ InHand'
      BY <1>1, <2>1 DEF InHealth, InHand, Checking, AtTasks
    <2>3. Chosen'
      BY <1>c, <2>1
    <2>4. QED
      BY <1>u, <2>1, <2>2, <2>3 DEF Books
  <1>8. ASSUME RecordRestart \/ RecordRestartFails PROVE Books'
    <2>1. /\ rec.pc = "record" /\ rec'.pc = "tasks" /\ rec.cur \in Ids
          /\ rec.task \in Tasks
          /\ rec'.cur = rec.cur /\ rec'.left = rec.left /\ rec'.todo = rec.todo
          /\ rec'.dead = rec.dead /\ rec'.held = {}
          /\ alloc' = [alloc EXCEPT ![rec.cur].restarts[rec.task] = @ + 1]
          /\ \/ /\ entries' = entries \cup {rec.cur}
                /\ running' = [running EXCEPT ![rec.cur] = @ \cup rec.held]
             \/ UNCHANGED <<entries, running>>
          /\ UNCHANGED <<started, alive>>
      BY <1>8, RecordEffect
    <2>2. /\ rec.cur \in entries /\ rec.cur \notin rec.todo /\ rec.task \notin rec.left
          /\ \A t \in rec.left : /\ t \in TaskNames(running[rec.cur])
                                 /\ alloc[rec.cur].restarts[t] < Attempts
      BY <1>1, <2>1 DEF InHealth, AtTasks
    <2>3. \A a \in Ids : alloc'[a].state = alloc[a].state
      BY <2>1, CountedState
    <2>4. \A t \in Tasks \ {rec.task} :
             alloc'[rec.cur].restarts[t] = alloc[rec.cur].restarts[t]
      BY <2>1, CountedState
    <2>5. /\ entries' = entries /\ running[rec.cur] \subseteq running'[rec.cur]
          /\ running'[rec.cur] \subseteq running[rec.cur] \cup rec.held
          /\ \A a \in Ids \ {rec.cur} : running'[a] = running[a]
      BY <1>0, <2>1, <2>2
    <2>6. \A i \in rec.held : i[1] = rec.cur
      BY <1>1, <2>1 DEF InHand
    <2>7. Births'
      BY <1>0, <1>1, <2>1, <2>3, <2>5, <2>6 DEF Births
    <2>8. TaskNames(running[rec.cur]) \subseteq TaskNames(running'[rec.cur])
      BY <1>h, <2>5
    <2>9. rec.left \subseteq Tasks
      BY Fields DEF Shape, TypeOK
    <2>10. InHealth'
      BY <1>0, <1>1, <2>1, <2>2, <2>4, <2>5, <2>8, <2>9 DEF InHealth, Checking, AtTasks
    <2>11. InHand'
      BY <2>1 DEF InHand
    <2>12. Chosen'
      BY <1>c, <2>1, <2>3
    <2>13. QED
      BY <1>s, <2>3, <2>7, <2>10, <2>11, <2>12 DEF Books
  <1>9. ASSUME EndAllocation PROVE Books'
    <2>1. /\ rec.pc = "tasks" /\ rec'.pc = "health" /\ rec.cur \in Ids
          /\ rec'.todo = rec.todo /\ rec'.dead = rec.dead /\ rec'.held = rec.held
          /\ \/ alloc' = alloc
             \/ alloc' = [alloc EXCEPT ![rec.cur].state = "Failed"]
          /\ UNCHANGED <<entries, running, started, alive>>
      BY <1>9, EndAllocationEffect
    <2>2. alloc[rec.cur].state # "None" /\ "Failed" \in States \ {"None"}
      BY <1>1, <2>1 DEF InHealth, AtTasks, Births, States
    <2>3. \A a \in Ids : alloc'[a].state = "None" <=> alloc[a].state = "None"
      BY <2>1, <2>2, MarkedState
    <2>4. Numbered' /\ Births'
      BY <1>0, <1>1, <1>s, <2>1, <2>3 DEF Births
    <2>5. InHealth' /\ InHand'
      BY <1>1, <2>1 DEF InHealth, InHand, Checking, AtTasks
    <2>6. Chosen'
      BY <1>c, <2>1, <2>3
    <2>7. QED
      BY <2>4, <2>5, <2>6 DEF Books
  <1>10. ASSUME \/ ReconcileCount \/ StartAborts \/ EndPass \/ NoDrift \/ EvalFails
                \/ RollingUpdate \/ RollingUpdateFails \/ NoReadyNode \/ UpdateWithoutNode
         PROVE  Books'
    <2>1. Released' /\ rec'.pc # "mark"
      BY <1>10, QuietEffect DEF Released
    <2>2. UNCHANGED <<alloc, entries, running, started, alive>>
      BY <1>10 DEF ReconcileCount, StartAborts, EndPass, NoDrift, EvalFails,
                   RollingUpdate, RollingUpdateFails, NoReadyNode, UpdateWithoutNode
    <2>3. QED
      BY <1>c, <1>q, <1>u, <2>1, <2>2 DEF Books
  <1>p. ASSUME NextId \in Ids, Put, UNCHANGED <<entries, running, started, alive>>
        PROVE  /\ Numbered' /\ Births'
               /\ \A a \in Ids : alloc[a].state # "None" => alloc'[a].state # "None"
    <2>1. PICK c \in Ids : c = NextId
      BY <1>p
    <2>2. /\ alloc[c].state = "None" /\ alloc'[c].state = "Pending"
          /\ \A a \in Ids \ {c} : alloc'[a] = alloc[a]
          /\ Numbered'
      BY <1>1, <1>p, <2>1, PutEffect
    <2>3. \A a \in Ids : alloc[a].state # "None" => alloc'[a].state # "None"
      BY <2>2
    <2>4. \A a \in Ids : alloc'[a].state = "None" => alloc[a].state = "None"
      BY <2>2
    <2>5. Births'
      BY <1>0, <1>1, <1>p, <2>3, <2>4 DEF Births
    <2>6. QED
      BY <2>2, <2>3, <2>5
  <1>11. ASSUME PutAllocation PROVE Books'
    <2>1. /\ rec.pc = "create" /\ rec'.pc = "start" /\ rec'.cur = NextId
          /\ NextId \in Ids /\ Put /\ rec'.held = rec.held
          /\ UNCHANGED <<entries, running, started, alive>>
      BY <1>11, PutAllocationEffect
    <2>2. PICK c \in Ids : c = NextId
      BY <2>1
    <2>3. alloc[c].state = "None" /\ alloc'[c].state = "Pending"
      BY <1>1, <2>1, <2>2, PutEffect
    <2>4. /\ c \notin entries /\ \A t \in Tasks : started[c][t] = 0
      BY <1>1, <2>3 DEF Births
    <2>5. rec.held = {} /\ Cardinality({}) = 0
      BY <1>1, <2>1, FS_EmptySet DEF InHand
    <2>6. InHealth'
      BY <2>1 DEF InHealth, Checking, AtTasks
    <2>7. {<<c, t, 1>> : t \in 1..0} = {}
      OBVIOUS
    <2>8. \A t \in Tasks : ~(t <= 0)
      BY Constants DEF Tasks
    <2>9. /\ rec'.cur = c /\ rec'.held = {} /\ Cardinality(rec'.held) = 0
      BY <2>1, <2>2, <2>5
    <2>10. InHand'
      BY <2>1, <2>3, <2>4, <2>7, <2>8, <2>9 DEF InHand
    <2>11. Numbered' /\ Births' /\ Chosen'
      BY <1>c, <1>p, <2>1
    <2>12. QED
      BY <2>6, <2>10, <2>11 DEF Books
  <1>12. ASSUME PutAllocationFails PROVE Books'
    <2>1. Released' /\ rec'.pc # "mark"
      BY <1>12, QuietEffect DEF Released
    <2>2. NextId \in Ids /\ Put /\ UNCHANGED <<entries, running, started, alive>>
      BY <1>12 DEF PutAllocationFails
    <2>3. QED
      BY <1>c, <1>p, <1>q, <2>1, <2>2 DEF Books
  <1>13. ASSUME StartTask PROVE Books'
    <2>1. /\ rec.pc = "start" /\ rec.cur \in Ids /\ rec'.pc = "start"
          /\ Cardinality(rec.held) \in Nat /\ Cardinality(rec.held) < NTasks
          /\ Cardinality(rec.held) + 1 \in Tasks
          /\ Launch(rec.cur, Cardinality(rec.held) + 1)
          /\ UNCHANGED <<alloc, entries, running>>
      BY <1>13, StartTaskEffect
    <2>2. PICK k \in Nat : k = Cardinality(rec.held)
      BY <2>1
    <2>3. PICK c \in Ids : c = rec.cur
      BY <2>1
    <2>4. /\ c \notin entries /\ alloc[c].state = "Pending"
          /\ rec.held = {<<c, t, 1>> : t \in 1..k}
          /\ \A t \in Tasks : started[c][t] = IF t <= k THEN 1 ELSE 0
      BY <1>1, <2>1, <2>2, <2>3 DEF InHand
    <2>5. k + 1 \in Tasks /\ Launch(c, k + 1)
      BY <2>1, <2>2, <2>3
    <2>6. started[c][k + 1] = 0
      BY <2>4, <2>5
    <2>7. /\ started' = [started EXCEPT ![c][k + 1] = 1]
          /\ rec'.held = rec.held \cup {<<c, k + 1, 1>>} /\ rec'.cur = c
      BY <2>3, <2>5, <2>6, LaunchEffect
    <2>8. <<c, k + 1, 1>> \notin rec.held
      BY <2>4
    <2>9. Cardinality(rec'.held) = k + 1
      <3>1. PICK x : x = <<c, k + 1, 1>>
        OBVIOUS
      <3>2. x \notin rec.held /\ rec'.held = rec.held \cup {x}
        BY <2>7, <2>8, <3>1
      <3>3. Cardinality(rec.held \cup {x}) = Cardinality(rec.held) + 1
        BY <1>0, <3>2, FS_AddElement
      <3>4. QED
        BY <2>2, <3>2, <3>3
    <2>10. rec'.held = {<<c, t, 1>> : t \in 1..(k + 1)}
      BY <2>4, <2>7
    <2>11. \A t \in Tasks : started'[c][t] = IF t <= k + 1 THEN 1 ELSE 0
      BY <1>0, <2>4, <2>5, <2>7, Constants
    <2>12. InHand'
      BY <2>1, <2>4, <2>7, <2>9, <2>10, <2>11 DEF InHand
    <2>13. InHealth'
      BY <2>1 DEF InHealth, Checking, AtTasks
    <2>14. Numbered' /\ Births'
      BY <1>l, <2>1, <2>4, <2>5
    <2>15. Chosen'
      BY <1>c, <2>1
    <2>16. QED
      BY <2>12, <2>13, <2>14, <2>15 DEF Books
  <1>m. ASSUME NEW a \in Ids, NEW v \in States \ {"None"}, alloc[a].state # "None",
               alloc' = [alloc EXCEPT ![a].state = v], UNCHANGED <<started, alive>>,
               entries' \subseteq entries \cup {a},
               \A b \in Ids \ {a} : running'[b] = running[b],
               \A i \in running'[a] : i[1] = a
        PROVE  /\ Numbered' /\ Births'
               /\ \A b \in Ids : alloc[b].state # "None" => alloc'[b].state # "None"
    <2>1. \A b \in Ids : alloc'[b].state = "None" <=> alloc[b].state = "None"
      BY <1>m, MarkedState
    <2>2. Births'
      BY <1>0, <1>1, <1>m, <2>1 DEF Births
    <2>3. QED
      BY <1>s, <2>1, <2>2
  <1>14. ASSUME StartTaskFails \/ FinishStart PROVE Books'
    <2>1. Released' /\ rec'.pc # "mark"
      BY <1>14, QuietEffect DEF Released
    <2>2. /\ rec.pc = "start" /\ rec.cur \in Ids /\ alloc[rec.cur].state # "None"
          /\ \A i \in rec.held : i[1] = rec.cur
      BY <1>1, <1>14 DEF StartTaskFails, FinishStart, Shape, Position, InHand
    <2>3. PICK v \in States \ {"None"} : alloc' = [alloc EXCEPT ![rec.cur].state = v]
      BY <1>14 DEF StartTaskFails, FinishStart, States
    <2>4. UNCHANGED <<started, alive>> /\ entries' \subseteq entries \cup {rec.cur}
      BY <1>14 DEF StartTaskFails, FinishStart
    <2>5. /\ \A b \in Ids \ {rec.cur} : running'[b] = running[b]
          /\ \A i \in running'[rec.cur] : i[1] = rec.cur
      BY <1>0, <1>1, <1>14, <2>2 DEF StartTaskFails, FinishStart, Births
    <2>6. /\ Numbered' /\ Births'
          /\ \A b \in Ids : alloc[b].state # "None" => alloc'[b].state # "None"
      BY <1>m, <2>2, <2>3, <2>4, <2>5
    <2>7. QED
      BY <1>c, <1>q, <2>1, <2>6 DEF Books
  <1>15. ASSUME NEW a \in Ids, StopTasks(a) PROVE Books'
    <2>1. /\ rec.pc = "create" /\ rec'.pc = "mark" /\ rec'.cur = a
          /\ rec'.held = rec.held
          /\ entries' = entries \ {a} /\ running' = [running EXCEPT ![a] = {}]
          /\ alive' \subseteq alive /\ UNCHANGED <<alloc, started>>
      BY <1>15, StopTasksEffect
    <2>2. Numbered' /\ Births'
      BY <1>0, <1>1, <2>1 DEF Numbered, Births
    <2>3. InHealth' /\ InHand'
      BY <1>1, <2>1 DEF InHealth, InHand, Checking, AtTasks
    <2>4. a \in rec.victims /\ \A b \in rec'.victims : b \in rec.victims \/ b \in Active
      BY <1>15, VictimsEffect DEF StopTasks
    <2>5. Chosen'
      BY <1>1, <2>1, <2>4 DEF Chosen, Active
    <2>6. QED
      BY <2>2, <2>3, <2>5 DEF Books
  <1>16. ASSUME MarkComplete PROVE Books'
    <2>1. /\ rec.pc = "mark" /\ rec'.pc = "create" /\ rec.cur \in Ids
          /\ rec'.held = rec.held
          /\ alloc' = [alloc EXCEPT ![rec.cur].state = "Complete"]
          /\ UNCHANGED <<entries, running, started, alive>>
      BY <1>16, MarkCompleteEffect
    <2>2. alloc[rec.cur].state # "None" /\ "Complete" \in States \ {"None"}
      BY <1>1, <2>1 DEF Chosen, States
    <2>3. \A i \in running[rec.cur] : i[1] = rec.cur
      BY <1>1, <2>1 DEF Births
    <2>4. /\ Numbered' /\ Births'
          /\ \A b \in Ids : alloc[b].state # "None" => alloc'[b].state # "None"
      BY <1>m, <2>1, <2>2, <2>3
    <2>5. InHealth' /\ InHand'
      BY <1>1, <2>1 DEF InHealth, InHand, Checking, AtTasks
    <2>6. Chosen'
      BY <1>c, <2>1, <2>4
    <2>7. QED
      BY <2>4, <2>5, <2>6 DEF Books
  <1>17. ASSUME \/ \E i \in alive : TaskExits(i)
                \/ EditFlake \/ NodeReady \/ NodeDrains \/ UNCHANGED vars
         PROVE  Books'
    <2>1. UNCHANGED <<alloc, entries, running, started, rec>> /\ alive' \subseteq alive
      BY <1>17 DEF TaskExits, EditFlake, NodeReady, NodeDrains, vars
    <2>2. InHealth' /\ InHand' /\ Chosen'
      BY <1>1, <2>1 DEF InHealth, InHand, Checking, AtTasks, Chosen
    <2>3. QED
      BY <1>u, <2>1, <2>2 DEF Books
  <1>18. ASSUME Crash PROVE Books'
    <2>1. Released' /\ rec'.pc # "mark"
      BY <1>18, QuietEffect DEF Released
    <2>2. /\ UNCHANGED <<alloc, started, alive>> /\ entries' = {}
          /\ running' = [a \in Ids |-> {}]
      BY <1>18 DEF Crash
    <2>3. Numbered' /\ Births'
      BY <1>1, <2>2 DEF Numbered, Births
    <2>4. QED
      BY <1>c, <1>q, <2>1, <2>2, <2>3 DEF Books
  <1>19. QED
    BY <1>3, <1>4, <1>5, <1>6, <1>7, <1>8, <1>9, <1>10, <1>11, <1>12, <1>13, <1>14,
       <1>15, <1>16, <1>17, <1>18
    DEF Next, ReconcilerNext, FaultNext, Environment

-----------------------------------------------------------------------------
(* Restarts.                                                               *)

\* A task of an allocation in the map was started once and once for each
\* restart that is counted, and once more while the count is being written.
Counted == \A a \in entries : \A t \in Tasks :
    started[a][t] <= alloc[a].restarts[t] +
        IF rec.pc = "record" /\ rec.cur = a /\ rec.task = t THEN 2 ELSE 1
Budgeted == StartsBounded /\ Counted

\* Every step keeps the starts within the policy.
LEMMA NextBudgeted ==
    ASSUME Shape, Shape', Books, Budgeted, [Next]_vars
    PROVE  Budgeted'
  <1>0. /\ alloc \in [Ids -> AllocationRecord] /\ entries \subseteq Ids
        /\ started \in [Ids -> [Tasks -> Nat]] /\ Attempts \in Nat
        /\ started' \in [Ids -> [Tasks -> Nat]] /\ entries' \subseteq Ids
    BY Constants DEF Shape, TypeOK
  <1>r. \A a \in Ids : \A t \in Tasks : alloc[a].restarts[t] \in Nat
    BY <1>0 DEF AllocationRecord
  <1>1. Numbered /\ Births /\ InHealth /\ InHand /\ StartsBounded /\ Counted
    BY DEF Books, Budgeted
  \* Most steps start nothing, count nothing and enter nothing.
  <1>k. ASSUME UNCHANGED started, entries' \subseteq entries,
               \A a \in entries' : alloc'[a].restarts = alloc[a].restarts,
               \/ rec.pc # "record"
               \/ entries' = {}
               \/ UNCHANGED rec
        PROVE  Budgeted'
    <2>1. StartsBounded'
      BY <1>1, <1>k DEF StartsBounded
    <2>2. ASSUME NEW a \in entries', NEW t \in Tasks
          PROVE  started'[a][t] <= alloc'[a].restarts[t] +
                    IF rec'.pc = "record" /\ rec'.cur = a /\ rec'.task = t THEN 2 ELSE 1
      <3>0. a \in entries /\ a \in Ids
        BY <1>0, <1>k
      <3>1. /\ started[a][t] \in Nat /\ alloc[a].restarts[t] \in Nat
            /\ started'[a][t] = started[a][t]
            /\ alloc'[a].restarts[t] = alloc[a].restarts[t]
        BY <1>0, <1>r, <1>k, <3>0
      <3>2. started[a][t] <= alloc[a].restarts[t] +
                IF rec.pc = "record" /\ rec.cur = a /\ rec.task = t THEN 2 ELSE 1
        BY <1>1, <3>0 DEF Counted
      <3>3. CASE rec.pc # "record"
        BY <3>1, <3>2, <3>3
      <3>4. CASE UNCHANGED rec
        BY <3>1, <3>2, <3>4
      <3>5. QED
        BY <1>k, <3>3, <3>4
    <2>3. Counted'
      BY <2>2 DEF Counted
    <2>4. QED
      BY <2>1, <2>3 DEF Budgeted
  <1>2. ASSUME \/ BeginTick \/ BeginTickBlind \/ ReconcileCount \/ EndPass \/ NoDrift
               \/ EvalFails \/ RollingUpdate \/ RollingUpdateFails \/ StartAborts
               \/ RestartFails \/ NoReadyNode \/ UpdateWithoutNode
        PROVE  Budgeted'
    <2>1. UNCHANGED <<alloc, entries, started>> /\ rec.pc # "record"
      BY <1>2 DEF BeginTick, BeginTickBlind, ReconcileCount, EndPass, NoDrift, EvalFails,
                  RollingUpdate, RollingUpdateFails, StartAborts, RestartFails,
                  NoReadyNode, UpdateWithoutNode
    <2>2. QED
      BY <1>k, <2>1
  <1>3. ASSUME NEW a \in Ids, BeginAllocation(a) PROVE Budgeted'
    BY <1>k, <1>3, BeginAllocationEffect
  <1>4. ASSUME NEW t \in Tasks, RestartTask(t) PROVE Budgeted'
    BY <1>k, <1>4, RestartTaskEffect
  <1>5. ASSUME NEW a \in Ids, StopTasks(a) PROVE Budgeted'
    <2>1. UNCHANGED <<alloc, started>> /\ entries' \subseteq entries /\ rec.pc # "record"
      BY <1>5, StopTasksEffect
    <2>2. QED
      BY <1>k, <2>1
  <1>m. ASSUME NEW a \in Ids, NEW v, alloc' = [alloc EXCEPT ![a].state = v]
        PROVE  \A b \in Ids : alloc'[b].restarts = alloc[b].restarts
    BY <1>0, <1>m DEF AllocationRecord
  <1>6. ASSUME EndAllocation \/ MarkComplete \/ StartTaskFails PROVE Budgeted'
    <2>1. UNCHANGED <<entries, started>> /\ rec.pc # "record" /\ rec.cur \in Ids
      BY <1>6 DEF EndAllocation, MarkComplete, StartTaskFails, Shape, Position
    <2>2. alloc' = alloc \/ \E v : alloc' = [alloc EXCEPT ![rec.cur].state = v]
      BY <1>6 DEF EndAllocation, MarkComplete, StartTaskFails
    <2>3. \A b \in Ids : alloc'[b].restarts = alloc[b].restarts
      BY <1>m, <2>1, <2>2
    <2>4. QED
      BY <1>0, <1>k, <2>1, <2>3
  <1>7. ASSUME PutAllocation \/ PutAllocationFails PROVE Budgeted'
    <2>1. /\ UNCHANGED <<entries, started>> /\ rec.pc # "record"
          /\ NextId \in Ids /\ Put
      BY <1>7 DEF PutAllocation, PutAllocationFails
    <2>2. PICK c \in Ids : c = NextId
      BY <2>1
    <2>3. alloc[c].state = "None" /\ \A a \in Ids \ {c} : alloc'[a] = alloc[a]
      BY <1>1, <2>1, <2>2, PutEffect
    <2>4. c \notin entries
      BY <1>1, <2>3 DEF Births
    <2>5. QED
      BY <1>0, <1>k, <2>1, <2>3, <2>4
  <1>8. ASSUME RestartStarts PROVE Budgeted'
    <2>1. /\ rec.pc = "restart" /\ rec'.pc = "record" /\ rec.cur \in Ids
          /\ rec.task \in Tasks /\ Launch(rec.cur, rec.task)
          /\ UNCHANGED <<alloc, entries>>
      BY <1>8, RestartStartsEffect
    <2>2. PICK c \in Ids, t \in Tasks : c = rec.cur /\ t = rec.task
      BY <2>1
    <2>3. /\ started' = [started EXCEPT ![c][t] = started[c][t] + 1]
          /\ rec'.cur = c /\ rec'.task = t
      BY <2>1, <2>2, LaunchEffect
    <2>4. \A b \in Ids : \A u \in Tasks :
             started'[b][u] = IF b = c /\ u = t THEN started[b][u] + 1 ELSE started[b][u]
      BY <1>0, <2>3
    <2>5. c \in entries /\ alloc[c].restarts[t] < Attempts
      BY <1>1, <2>1, <2>2 DEF InHealth, AtTasks
    <2>6. started[c][t] <= alloc[c].restarts[t] + 1
      BY <1>1, <2>1, <2>5 DEF Counted
    <2>7. StartsBounded'
      <3>1. started[c][t] + 1 <= Attempts + 1
        BY <1>0, <1>r, <2>5, <2>6
      <3>2. QED
        BY <1>1, <2>4, <3>1 DEF StartsBounded
    <2>8. ASSUME NEW a \in entries, NEW u \in Tasks
          PROVE  started'[a][u] <= alloc[a].restarts[u] +
                    IF a = c /\ u = t THEN 2 ELSE 1
      <3>1. started[a][u] <= alloc[a].restarts[u] + 1
        BY <1>1, <2>1 DEF Counted
      <3>2. a \in Ids /\ started[a][u] \in Nat /\ alloc[a].restarts[u] \in Nat
        BY <1>0, <1>r
      <3>3. QED
        BY <2>4, <3>1, <3>2
    <2>9. Counted'
      <3>1. \A a, u : (rec'.pc = "record" /\ rec'.cur = a /\ rec'.task = u) <=> (a = c /\ u = t)
        BY <2>1, <2>3
      <3>2. QED
        BY <2>1, <2>8, <3>1 DEF Counted
    <2>10. QED
      BY <2>7, <2>9 DEF Budgeted
  <1>9. ASSUME RecordRestart \/ RecordRestartFails PROVE Budgeted'
    <2>1. /\ rec.pc = "record" /\ rec'.pc = "tasks" /\ rec.cur \in Ids
          /\ rec.task \in Tasks
          /\ alloc' = [alloc EXCEPT ![rec.cur].restarts[rec.task] = @ + 1]
          /\ entries' = entries \cup {rec.cur} \/ entries' = entries
          /\ UNCHANGED started
      BY <1>9, RecordEffect
    <2>2. entries' = entries
      BY <1>1, <2>1 DEF InHealth, AtTasks
    <2>3. ASSUME NEW a \in entries, NEW t \in Tasks
          PROVE  started'[a][t] <= alloc'[a].restarts[t] + 1
      <3>1. a \in Ids /\ started[a][t] \in Nat /\ alloc[a].restarts[t] \in Nat
        BY <1>0, <1>r
      <3>2. started[a][t] <= alloc[a].restarts[t] +
                IF rec.cur = a /\ rec.task = t THEN 2 ELSE 1
        BY <1>1, <2>1 DEF Counted
      <3>3. PICK c \in Ids, u \in Tasks : c = rec.cur /\ u = rec.task
        BY <2>1
      <3>4. alloc' = [alloc EXCEPT ![c].restarts[u] = @ + 1]
        BY <2>1, <3>3
      <3>5. alloc'[a].restarts[t] = IF a = c /\ t = u THEN alloc[a].restarts[t] + 1
                                                      ELSE alloc[a].restarts[t]
        BY <1>0, <3>1, <3>4 DEF AllocationRecord
      <3>6. CASE a = c /\ t = u
        BY <2>1, <3>1, <3>2, <3>3, <3>5, <3>6
      <3>7. CASE ~(a = c /\ t = u)
        BY <2>1, <3>1, <3>2, <3>3, <3>5, <3>7
      <3>8. QED
        BY <3>6, <3>7
    <2>4. Counted'
      BY <2>1, <2>2, <2>3 DEF Counted
    <2>5. StartsBounded'
      BY <1>1, <2>1 DEF StartsBounded
    <2>6. QED
      BY <2>4, <2>5 DEF Budgeted
  <1>10. ASSUME StartTask PROVE Budgeted'
    <2>1. /\ rec.pc = "start" /\ rec.cur \in Ids /\ rec'.pc = "start"
          /\ Cardinality(rec.held) \in Nat
          /\ Cardinality(rec.held) + 1 \in Tasks
          /\ Launch(rec.cur, Cardinality(rec.held) + 1)
          /\ UNCHANGED <<alloc, entries>>
      BY <1>10, StartTaskEffect
    <2>2. PICK c \in Ids, t \in Tasks : c = rec.cur /\ t = Cardinality(rec.held) + 1
      BY <2>1
    <2>3. started[c][t] = 0 /\ c \notin entries
      BY <1>1, <2>1, <2>2 DEF InHand
    <2>4. started' = [started EXCEPT ![c][t] = started[c][t] + 1]
      BY <2>1, <2>2, LaunchEffect
    <2>5. \A b \in Ids : \A u \in Tasks :
             started'[b][u] = IF b = c /\ u = t THEN 1 ELSE started[b][u]
      BY <1>0, <2>3, <2>4
    <2>6. StartsBounded'
      BY <1>0, <1>1, <2>5 DEF StartsBounded
    <2>7. Counted'
      BY <1>0, <1>1, <2>1, <2>3, <2>5 DEF Counted
    <2>8. QED
      BY <2>6, <2>7 DEF Budgeted
  <1>11. ASSUME FinishStart PROVE Budgeted'
    <2>1. /\ rec.pc = "start" /\ rec.cur \in Ids /\ Cardinality(rec.held) = NTasks
          /\ alloc' = [alloc EXCEPT ![rec.cur].state = "Running"]
          /\ entries' = entries \cup {rec.cur} /\ UNCHANGED started
      BY <1>11 DEF FinishStart, Shape, Position
    <2>2. rec'.pc # "record"
      BY <1>11, QuietEffect DEF Released
    <2>3. \A t \in Tasks : started[rec.cur][t] = 1
      BY <1>1, <2>1, Constants DEF InHand, Tasks
    <2>4. \A b \in Ids : alloc'[b].restarts = alloc[b].restarts
      BY <1>m, <2>1
    <2>5. ASSUME NEW a \in entries', NEW t \in Tasks
          PROVE  started'[a][t] <= alloc'[a].restarts[t] + 1
      <3>1. a \in Ids /\ alloc[a].restarts[t] \in Nat
        BY <1>0, <1>r
      <3>2. CASE a = rec.cur
        BY <2>1, <2>3, <2>4, <3>1, <3>2
      <3>3. CASE a \in entries
        BY <1>1, <2>1, <2>4, <3>1, <3>3 DEF Counted
      <3>4. QED
        BY <2>1, <3>2, <3>3
    <2>6. Counted'
      BY <2>2, <2>5 DEF Counted
    <2>7. StartsBounded'
      BY <1>1, <2>1 DEF StartsBounded
    <2>8. QED
      BY <2>6, <2>7 DEF Budgeted
  <1>12. ASSUME \/ \E i \in alive : TaskExits(i)
                \/ EditFlake \/ NodeReady \/ NodeDrains \/ UNCHANGED vars
         PROVE  Budgeted'
    <2>1. UNCHANGED <<alloc, entries, started, rec>>
      BY <1>12 DEF TaskExits, EditFlake, NodeReady, NodeDrains, vars
    <2>2. QED
      BY <1>k, <2>1
  <1>13. ASSUME Crash PROVE Budgeted'
    <2>1. UNCHANGED <<alloc, started>> /\ entries' = {}
      BY <1>13 DEF Crash
    <2>2. QED
      BY <1>k, <2>1
  <1>14. QED
    BY <1>2, <1>3, <1>4, <1>5, <1>6, <1>7, <1>8, <1>9, <1>10, <1>11, <1>12, <1>13
    DEF Next, ReconcilerNext, FaultNext, Environment

\* restart_policy.attempts bounds the processes of a task for good: no failed
\* call and no crash gives it one more.
THEOREM StartsAreBounded == Spec => []StartsBounded
  <1>1. Init => Shape /\ Books /\ Budgeted
    <2>1. Init => Budgeted
      BY Constants DEF Init, Budgeted, StartsBounded, Counted
    <2>2. QED
      BY <2>1, InitShape, InitBooks
  <1>2. Shape /\ [Next]_vars => Shape'
    BY NextShape
  <1>3. Shape /\ Shape' /\ Books /\ [Next]_vars => Books'
    BY NextBooks
  <1>4. Shape /\ Shape' /\ Books /\ Budgeted /\ [Next]_vars => Budgeted'
    BY NextBudgeted
  <1>5. Budgeted => StartsBounded
    BY DEF Budgeted
  <1>6. QED
    BY <1>1, <1>2, <1>3, <1>4, <1>5, PTL DEF Spec

-----------------------------------------------------------------------------
(* One process per task.                                                   *)

\* The processes of two starts of a task do not run side by side.
Single == \A i, j \in alive : i[1] = j[1] /\ i[2] = j[2] => i = j

\* A live process of a task that the map knows is the one the map has.
InMap ==
    \A a \in entries : \A i \in alive :
        i[1] = a /\ i[2] \in TaskNames(running[a]) => i \in running[a]

\* While a task is restarted, no process of it lives but the new one.
Cleared ==
    rec.pc \in {"restart", "record"} =>
        \A i \in alive : i[1] = rec.cur /\ i[2] = rec.task => i \in rec.held

OneCopy == "unstopped" \notin hurt => Single /\ InMap /\ Cleared

\* Damage is not undone.
LEMMA HurtGrows == Shape /\ [Next]_vars => hurt \subseteq hurt'
  <1>1. SUFFICES ASSUME Shape, [Next]_vars PROVE hurt \subseteq hurt'
    OBVIOUS
  <1>2. ASSUME NEW a \in Ids, BeginAllocation(a) \/ StopTasks(a) PROVE hurt \subseteq hurt'
    BY <1>2 DEF BeginAllocation, StopTasks, NoFault, Fault
  <1>3. ASSUME NEW t \in Tasks, RestartTask(t) PROVE hurt \subseteq hurt'
    BY <1>3 DEF RestartTask, StopOld, NoFault, Fault
  <1>4. ReconcilerNext => hurt \subseteq hurt'
    BY <1>2, <1>3
    DEF ReconcilerNext, BeginTick, RestartStarts, RecordRestart, EndAllocation,
        ReconcileCount, NoReadyNode, PutAllocation, StartTask, FinishStart, MarkComplete,
        EndPass, NoDrift, RollingUpdate, UpdateWithoutNode, NoFault
  <1>5. FaultNext => hurt \subseteq hurt'
    BY DEF FaultNext, BeginTickBlind, RestartFails, RecordRestartFails, PutAllocationFails,
           StartTaskFails, StartAborts, EvalFails, RollingUpdateFails, Fault
  <1>6. Environment \/ UNCHANGED vars => hurt \subseteq hurt'
    BY DEF Environment, TaskExits, EditFlake, NodeReady, NodeDrains, Crash, Fault, vars
  <1>7. QED
    BY <1>1, <1>4, <1>5, <1>6 DEF Next

\* Every step keeps the copies apart.
LEMMA NextOneCopy ==
    ASSUME Shape, Shape', Books, OneCopy, [Next]_vars
    PROVE  OneCopy'
  <1>0. /\ entries \subseteq Ids /\ entries' \subseteq Ids
        /\ running \in [Ids -> SUBSET Instances] /\ started \in [Ids -> [Tasks -> Nat]]
        /\ alive \subseteq Instances
    BY DEF Shape, TypeOK
  <1>1. SUFFICES ASSUME "unstopped" \notin hurt' PROVE Single' /\ InMap' /\ Cleared'
    BY DEF OneCopy
  <1>2. Births /\ InHealth /\ InHand
    BY DEF Books
  <1>3. Single /\ InMap /\ Cleared
    BY <1>1, HurtGrows DEF OneCopy
  <1>s. ASSUME alive' \subseteq alive PROVE Single'
    BY <1>3, <1>s DEF Single
  <1>m. ASSUME alive' \subseteq alive, entries' \subseteq entries,
               \A a \in entries' : running'[a] = running[a]
        PROVE  InMap'
    BY <1>3, <1>m DEF InMap
  <1>c. ASSUME rec'.pc \notin {"restart", "record"} PROVE Cleared'
    BY <1>c DEF Cleared
  <1>q. ASSUME alive' \subseteq alive, UNCHANGED <<entries, running>>,
               rec'.pc \notin {"restart", "record"}
        PROVE  Single' /\ InMap' /\ Cleared'
    BY <1>s, <1>m, <1>c, <1>q
  <1>4. ASSUME BeginTick \/ BeginTickBlind PROVE Single' /\ InMap' /\ Cleared'
    <2>1. UNCHANGED <<entries, running, alive>> /\ \E blind : Check(blind)
      BY <1>4 DEF BeginTick, BeginTickBlind
    <2>2. rec'.pc = "health"
      BY <2>1, CheckEffect
    <2>3. QED
      BY <1>q, <2>1, <2>2
  <1>5. ASSUME \/ ReconcileCount \/ PutAllocationFails \/ StartTaskFails \/ StartAborts
               \/ EndPass \/ NoDrift \/ EvalFails \/ RollingUpdate \/ RollingUpdateFails
               \/ NoReadyNode \/ UpdateWithoutNode
        PROVE  Single' /\ InMap' /\ Cleared'
    <2>1. UNCHANGED <<entries, running, alive>>
      BY <1>5 DEF ReconcileCount, PutAllocationFails, StartTaskFails, StartAborts,
                  EndPass, NoDrift, EvalFails, RollingUpdate, RollingUpdateFails,
                  NoReadyNode, UpdateWithoutNode
    <2>2. rec'.pc \notin {"restart", "record"}
      BY <1>5, QuietEffect DEF Released
    <2>3. QED
      BY <1>q, <2>1, <2>2
  <1>6. ASSUME NEW a \in Ids, BeginAllocation(a) PROVE Single' /\ InMap' /\ Cleared'
    BY <1>q, <1>6, BeginAllocationEffect
  <1>7. ASSUME RestartFails PROVE Single' /\ InMap' /\ Cleared'
    BY <1>q, <1>7, RestartFailsEffect
  <1>8. ASSUME EndAllocation PROVE Single' /\ InMap' /\ Cleared'
    BY <1>q, <1>8, EndAllocationEffect
  <1>9. ASSUME MarkComplete PROVE Single' /\ InMap' /\ Cleared'
    BY <1>q, <1>9, MarkCompleteEffect
  <1>10. ASSUME PutAllocation PROVE Single' /\ InMap' /\ Cleared'
    BY <1>q, <1>10, PutAllocationEffect
  <1>11. ASSUME NEW a \in Ids, StopTasks(a) PROVE Single' /\ InMap' /\ Cleared'
    <2>1. /\ rec'.pc = "mark" /\ entries' = entries \ {a} /\ alive' \subseteq alive
          /\ running' = [running EXCEPT ![a] = {}]
      BY <1>11, StopTasksEffect
    <2>2. \A b \in entries' : running'[b] = running[b]
      BY <1>0, <2>1
    <2>3. QED
      BY <1>s, <1>m, <1>c, <2>1, <2>2
  <1>12. ASSUME Crash PROVE Single' /\ InMap' /\ Cleared'
    <2>1. UNCHANGED alive /\ entries' = {}
      BY <1>12 DEF Crash
    <2>2. rec'.pc \notin {"restart", "record"}
      BY <1>12, QuietEffect DEF Released
    <2>3. QED
      BY <1>s, <1>m, <1>c, <2>1, <2>2
  <1>13. ASSUME \/ \E i \in alive : TaskExits(i)
                \/ EditFlake \/ NodeReady \/ NodeDrains \/ UNCHANGED vars
         PROVE  Single' /\ InMap' /\ Cleared'
    <2>1. UNCHANGED <<entries, running, rec>> /\ alive' \subseteq alive
      BY <1>13 DEF TaskExits, EditFlake, NodeReady, NodeDrains, vars
    <2>2. Cleared'
      BY <1>3, <2>1 DEF Cleared
    <2>3. QED
      BY <1>s, <1>m, <2>1, <2>2
  \* The old process of the task is stopped; the map had it, if it lived.
  <1>14. ASSUME NEW t \in Tasks, RestartTask(t) PROVE Single' /\ InMap' /\ Cleared'
    <2>1. /\ rec.pc = "tasks" /\ rec.cur \in Ids /\ t \in rec.left
          /\ rec'.cur = rec.cur /\ rec'.task = t
          /\ running' = [running EXCEPT ![rec.cur] = {i \in @ : i[2] # t}]
          /\ alive' = alive \ {i \in running[rec.cur] : i[2] = t}
          /\ UNCHANGED entries
      BY <1>1, <1>14, RestartTaskEffect
    <2>2. PICK c \in Ids : c = rec.cur
      BY <2>1
    <2>3. c \in entries /\ t \in TaskNames(running[c])
      BY <1>2, <2>1, <2>2 DEF InHealth, AtTasks
    <2>4. running'[c] = {i \in running[c] : i[2] # t}
      BY <1>0, <2>1, <2>2
    <2>5. \A b \in Ids \ {c} : running'[b] = running[b]
      BY <1>0, <2>1, <2>2
    <2>6. Single'
      BY <1>s, <2>1
    <2>7. ASSUME NEW a \in entries, NEW i \in alive', i[1] = a,
                 i[2] \in TaskNames(running'[a])
          PROVE  i \in running'[a]
      <3>1. CASE a # c
        <4>1. a \in Ids /\ i \in alive /\ running'[a] = running[a]
          BY <1>0, <2>1, <2>5, <3>1
        <4>2. QED
          BY <1>3, <2>7, <4>1 DEF InMap
      <3>2. CASE a = c
        <4>1. i[2] # t /\ i[2] \in TaskNames(running[c])
          BY <2>4, <2>7, <3>2 DEF TaskNames
        <4>2. i \in running[c]
          BY <1>3, <2>1, <2>3, <2>7, <3>2, <4>1 DEF InMap
        <4>3. QED
          BY <2>4, <3>2, <4>1, <4>2
      <3>3. QED
        BY <3>1, <3>2
    <2>8. InMap'
      BY <2>1, <2>7 DEF InMap
    <2>9. ASSUME NEW i \in alive', i[1] = c, i[2] = t PROVE FALSE
      <3>1. i \in running[c]
        BY <1>3, <2>1, <2>3, <2>9 DEF InMap
      <3>2. QED
        BY <2>1, <2>2, <2>9, <3>1
    <2>10. Cleared'
      BY <2>1, <2>2, <2>9 DEF Cleared
    <2>11. QED
      BY <2>6, <2>8, <2>10
  <1>15. ASSUME RestartStarts PROVE Single' /\ InMap' /\ Cleared'
    <2>1. /\ rec.pc = "restart" /\ rec'.pc = "record" /\ rec.cur \in Ids
          /\ rec.task \in Tasks /\ Launch(rec.cur, rec.task)
          /\ UNCHANGED <<entries, running>>
      BY <1>15, RestartStartsEffect
    <2>2. PICK c \in Ids, t \in Tasks, n \in Nat :
             c = rec.cur /\ t = rec.task /\ n = started[c][t] + 1
      BY <1>0, <2>1
    <2>3. PICK p \in Instances : p = <<c, t, n>>
      BY InstanceParts
    <2>4. p[1] = c /\ p[2] = t
      BY <2>3
    <2>5. /\ alive' = alive \cup {p} /\ rec'.held = rec.held \cup {p}
          /\ rec'.cur = c /\ rec'.task = t
      BY <2>1, <2>2, <2>3, LaunchEffect
    <2>6. rec.held = {} /\ t \notin TaskNames(running[c])
      BY <1>2, <2>1, <2>2 DEF InHand, InHealth
    <2>7. \A i \in alive : ~(i[1] = c /\ i[2] = t)
      BY <1>3, <2>1, <2>2, <2>6 DEF Cleared
    <2>8. Single'
      BY <1>3, <2>4, <2>5, <2>7 DEF Single
    <2>9. InMap'
      BY <1>3, <2>1, <2>4, <2>5, <2>6 DEF InMap
    <2>10. Cleared'
      BY <2>5, <2>7 DEF Cleared
    <2>11. QED
      BY <2>8, <2>9, <2>10
  <1>16. ASSUME RecordRestart \/ RecordRestartFails PROVE Single' /\ InMap' /\ Cleared'
    <2>1. /\ rec.pc = "record" /\ rec'.pc = "tasks" /\ rec.cur \in Ids
          /\ rec.task \in Tasks
          /\ \/ /\ entries' = entries \cup {rec.cur}
                /\ running' = [running EXCEPT ![rec.cur] = @ \cup rec.held]
             \/ UNCHANGED <<entries, running>>
          /\ UNCHANGED alive
      BY <1>16, RecordEffect
    <2>2. CASE UNCHANGED <<entries, running>>
      BY <1>q, <2>1, <2>2
    <2>3. CASE /\ entries' = entries \cup {rec.cur}
               /\ running' = [running EXCEPT ![rec.cur] = @ \cup rec.held]
      <3>1. PICK c \in Ids, t \in Tasks : c = rec.cur /\ t = rec.task
        BY <2>1
      <3>2. PICK p : p = <<c, t, started[c][t]>>
        OBVIOUS
      <3>3. rec.held = {p} /\ p[2] = t
        BY <1>2, <2>1, <3>1, <3>2 DEF InHand
      <3>4. entries' = entries /\ c \in entries
        BY <1>2, <2>1, <2>3, <3>1 DEF InHealth, AtTasks
      <3>5. running'[c] = running[c] \cup {p} /\ \A b \in Ids \ {c} : running'[b] = running[b]
        BY <1>0, <2>3, <3>1, <3>3
      <3>6. ASSUME NEW a \in entries, NEW i \in alive, i[1] = a,
                   i[2] \in TaskNames(running'[a])
            PROVE  i \in running'[a]
        <4>1. CASE a # c
          BY <1>0, <1>3, <3>5, <3>6, <4>1 DEF InMap
        <4>2. CASE a = c /\ i[2] = t
          <5>1. i = p
            BY <1>3, <2>1, <3>1, <3>3, <3>6, <4>2 DEF Cleared
          <5>2. QED
            BY <3>5, <4>2, <5>1
        <4>3. CASE a = c /\ i[2] # t
          <5>1. i[2] \in TaskNames(running[c])
            BY <3>3, <3>5, <3>6, <4>3 DEF TaskNames
          <5>2. QED
            BY <1>3, <3>5, <3>6, <4>3, <5>1 DEF InMap
        <4>4. QED
          BY <4>1, <4>2, <4>3
      <3>7. InMap'
        BY <2>1, <3>4, <3>6 DEF InMap
      <3>8. QED
        BY <1>s, <1>c, <2>1, <3>7
    <2>4. QED
      BY <2>1, <2>2, <2>3
  \* The first process of a task of an allocation that is not in the map yet.
  <1>17. ASSUME StartTask PROVE Single' /\ InMap' /\ Cleared'
    <2>1. /\ rec.pc = "start" /\ rec.cur \in Ids /\ rec'.pc = "start"
          /\ Cardinality(rec.held) \in Nat /\ Cardinality(rec.held) + 1 \in Tasks
          /\ Launch(rec.cur, Cardinality(rec.held) + 1)
          /\ UNCHANGED <<entries, running>>
      BY <1>17, StartTaskEffect
    <2>2. PICK c \in Ids, t \in Tasks : c = rec.cur /\ t = Cardinality(rec.held) + 1
      BY <2>1
    <2>3. started[c][t] = 0 /\ c \notin entries
      BY <1>2, <2>1, <2>2 DEF InHand
    <2>4. PICK p \in Instances : p = <<c, t, started[c][t] + 1>>
      <3>1. started[c][t] + 1 \in Nat
        BY <1>0
      <3>2. QED
        BY <3>1, InstanceParts, Zenon
    <2>5. p[1] = c /\ p[2] = t
      BY <2>4
    <2>6. alive' = alive \cup {p}
      BY <2>1, <2>2, <2>4, LaunchEffect
    <2>7. ASSUME NEW i \in alive, i[1] = c, i[2] = t PROVE FALSE
      <3>1. 1 <= i[3] /\ i[3] <= 0 /\ i[3] \in Nat
        BY <1>0, <1>2, <2>3, <2>7, InstanceParts DEF Births
      <3>2. QED
        BY <3>1
    <2>8. Single'
      BY <1>3, <2>5, <2>6, <2>7 DEF Single
    <2>9. InMap'
      BY <1>3, <2>1, <2>3, <2>5, <2>6 DEF InMap
    <2>10. QED
      BY <1>c, <2>1, <2>8, <2>9
  <1>18. ASSUME FinishStart PROVE Single' /\ InMap' /\ Cleared'
    <2>1. /\ rec.pc = "start" /\ rec.cur \in Ids /\ Cardinality(rec.held) = NTasks
          /\ entries' = entries \cup {rec.cur}
          /\ running' = [running EXCEPT ![rec.cur] = rec.held] /\ UNCHANGED alive
      BY <1>18 DEF FinishStart, Shape, Position
    <2>2. rec'.pc \notin {"restart", "record"}
      BY <1>18, QuietEffect DEF Released
    <2>3. PICK c \in Ids : c = rec.cur
      BY <2>1
    <2>4. /\ rec.held = {<<c, t, 1>> : t \in Tasks}
          /\ \A t \in Tasks : started[c][t] = 1
      BY <1>2, <2>1, <2>3, Constants DEF InHand, Tasks
    <2>5. ASSUME NEW i \in alive, i[1] = c PROVE i \in rec.held
      <3>1. i = <<i[1], i[2], i[3]>> /\ i[2] \in Tasks /\ i[3] \in Nat
        BY <1>0, InstanceParts
      <3>2. 1 <= i[3] /\ i[3] <= 1
        BY <1>2, <2>4, <2>5, <3>1 DEF Births
      <3>3. i = <<c, i[2], 1>>
        BY <2>5, <3>1, <3>2
      <3>4. QED
        BY <2>4, <3>1, <3>3
    <2>6. running'[c] = rec.held /\ \A b \in Ids \ {c} : running'[b] = running[b]
      BY <1>0, <2>1, <2>3
    <2>7. InMap'
      BY <1>0, <1>3, <2>1, <2>3, <2>5, <2>6 DEF InMap
    <2>8. QED
      BY <1>s, <1>c, <2>1, <2>2, <2>7
  <1>19. QED
    BY <1>4, <1>5, <1>6, <1>7, <1>8, <1>9, <1>10, <1>11, <1>12, <1>13, <1>14, <1>15,
       <1>16, <1>17, <1>18
    DEF Next, ReconcilerNext, FaultNext, Environment

\* A restart, a failed save, a lost status answer and a crash leave a task of
\* an allocation with at most one live process, as long as drivers stop what
\* they are told to stop.
THEOREM OneCopyLives == Spec => []OneLiveCopy
  <1>1. Init => Shape /\ Books /\ OneCopy
    <2>1. Init => OneCopy
      BY IdleType DEF Init, OneCopy, Single, InMap, Cleared
    <2>2. QED
      BY <2>1, InitShape, InitBooks
  <1>2. Shape /\ [Next]_vars => Shape'
    BY NextShape
  <1>3. Shape /\ Shape' /\ Books /\ [Next]_vars => Books'
    BY NextBooks
  <1>4. Shape /\ Shape' /\ Books /\ OneCopy /\ [Next]_vars => OneCopy'
    BY NextOneCopy
  <1>5. OneCopy => OneLiveCopy
    BY DEF OneCopy, OneLiveCopy, Single
  <1>6. QED
    BY <1>1, <1>2, <1>3, <1>4, <1>5, PTL DEF Spec

-----------------------------------------------------------------------------
(* No strays.                                                              *)

\* The health pass works on allocations that are marked Running.
AtWork ==
    /\ Checking => \A a \in rec.todo : alloc[a].state = "Running"
    /\ AtTasks => alloc[rec.cur].state = "Running"

\* Every live process is held by the tick or in the map, and of an active
\* allocation.
Tended ==
    \A i \in alive :
        /\ i \in rec.held \/ (i[1] \in entries /\ i \in running[i[1]])
        /\ alloc[i[1]].state \in {"Pending", "Running"}

\* The verdict that all tasks of an allocation are dead stays true until it is
\* acted on, and an allocation is marked Complete after its processes.
Judged ==
    /\ Checking => \A a \in rec.todo \ rec.up : running[a] \cap alive = {}
    /\ AtTasks /\ rec.allDead => running[rec.cur] \cap alive = {}
    /\ rec.pc = "mark" => \A i \in alive : i[1] # rec.cur

NoStray == AtWork /\ (hurt \subseteq {"stuck"} => Tended /\ Judged)

\* Every step of the health pass stays at Running allocations.
LEMMA NextAtWork ==
    ASSUME Shape, Shape', Books, AtWork, [Next]_vars
    PROVE  AtWork'
  <1>0. /\ alloc \in [Ids -> AllocationRecord] /\ entries \subseteq Ids
        /\ rec.todo \subseteq Ids
    BY Fields DEF Shape, TypeOK
  <1>1. InHealth /\ Births /\ Chosen
    BY DEF Books
  <1>q. ASSUME ~Checking' PROVE AtWork'
    BY <1>q DEF AtWork, Checking, AtTasks
  <1>2. ASSUME BeginTick \/ BeginTickBlind PROVE AtWork'
    <2>1. UNCHANGED alloc /\ \E blind : Check(blind)
      BY <1>2 DEF BeginTick, BeginTickBlind
    <2>2. rec'.pc = "health" /\ \A a \in rec'.todo : alloc[a].state = "Running"
      BY <2>1, CheckEffect
    <2>3. QED
      BY <2>1, <2>2 DEF AtWork, AtTasks
  <1>3. ASSUME NEW a \in Ids, BeginAllocation(a) PROVE AtWork'
    <2>1. /\ Checking /\ a \in rec.todo /\ rec'.cur = a /\ rec'.todo \subseteq rec.todo
          /\ UNCHANGED alloc
      BY <1>3, BeginAllocationEffect DEF Checking
    <2>2. QED
      BY <2>1 DEF AtWork
  <1>4. ASSUME NEW t \in Tasks, RestartTask(t) PROVE AtWork'
    <2>1. /\ Checking /\ AtTasks /\ rec'.cur = rec.cur /\ rec'.todo = rec.todo
          /\ UNCHANGED alloc
      BY <1>4, RestartTaskEffect DEF Checking, AtTasks
    <2>2. QED
      BY <2>1 DEF AtWork
  <1>5. ASSUME RestartStarts PROVE AtWork'
    <2>1. /\ Checking /\ AtTasks /\ rec.cur \in Ids /\ rec.task \in Tasks
          /\ Launch(rec.cur, rec.task) /\ UNCHANGED alloc
      BY <1>5, RestartStartsEffect DEF Checking, AtTasks
    <2>2. rec'.cur = rec.cur /\ rec'.todo = rec.todo
      BY <2>1, LaunchEffect
    <2>3. QED
      BY <2>1, <2>2 DEF AtWork
  <1>6. ASSUME RestartFails PROVE AtWork'
    <2>1. /\ Checking /\ AtTasks /\ rec'.cur = rec.cur /\ rec'.todo = rec.todo
          /\ UNCHANGED alloc
      BY <1>6, RestartFailsEffect DEF Checking, AtTasks
    <2>2. QED
      BY <2>1 DEF AtWork
  <1>7. ASSUME RecordRestart \/ RecordRestartFails PROVE AtWork'
    <2>1. /\ Checking /\ AtTasks /\ rec'.cur = rec.cur /\ rec'.todo = rec.todo
          /\ rec.cur \in Ids /\ rec.task \in Tasks
          /\ alloc' = [alloc EXCEPT ![rec.cur].restarts[rec.task] = @ + 1]
      BY <1>7, RecordEffect DEF Checking, AtTasks
    <2>2. \A b \in Ids : alloc'[b].state = alloc[b].state
      BY <1>0, <2>1 DEF AllocationRecord
    <2>3. QED
      BY <1>0, <2>1, <2>2 DEF AtWork
  <1>8. ASSUME EndAllocation PROVE AtWork'
    <2>1. /\ Checking /\ AtTasks /\ rec'.pc = "health" /\ rec'.todo = rec.todo
          /\ rec.cur \in Ids
          /\ alloc' = alloc \/ alloc' = [alloc EXCEPT ![rec.cur].state = "Failed"]
      BY <1>8, EndAllocationEffect DEF Checking, AtTasks
    <2>2. \A b \in Ids \ {rec.cur} : alloc'[b] = alloc[b]
      BY <1>0, <2>1
    <2>3. rec.cur \notin rec.todo
      BY <1>1, <2>1 DEF InHealth
    <2>4. QED
      BY <1>0, <2>1, <2>2, <2>3 DEF AtWork, AtTasks
  <1>9. ASSUME \/ ReconcileCount \/ PutAllocationFails \/ StartTaskFails \/ StartAborts
               \/ FinishStart \/ EndPass \/ NoDrift \/ EvalFails \/ RollingUpdate
               \/ RollingUpdateFails \/ Crash \/ NoReadyNode \/ UpdateWithoutNode
        PROVE  AtWork'
    BY <1>q, <1>9, QuietEffect DEF Released, Checking
  <1>10. ASSUME PutAllocation PROVE AtWork'
    BY <1>q, <1>10, PutAllocationEffect DEF Checking
  <1>11. ASSUME StartTask PROVE AtWork'
    BY <1>q, <1>11, StartTaskEffect DEF Checking
  <1>12. ASSUME MarkComplete PROVE AtWork'
    BY <1>q, <1>12, MarkCompleteEffect DEF Checking
  <1>13. ASSUME NEW a \in Ids, StopTasks(a) PROVE AtWork'
    BY <1>q, <1>13, StopTasksEffect DEF Checking
  <1>14. ASSUME \/ \E i \in alive : TaskExits(i)
                \/ EditFlake \/ NodeReady \/ NodeDrains \/ UNCHANGED vars
         PROVE  AtWork'
    <2>1. UNCHANGED <<alloc, rec>>
      BY <1>14 DEF TaskExits, EditFlake, NodeReady, NodeDrains, vars
    <2>2. QED
      BY <2>1 DEF AtWork, Checking, AtTasks
  <1>15. QED
    BY <1>2, <1>3, <1>4, <1>5, <1>6, <1>7, <1>8, <1>9, <1>10, <1>11, <1>12, <1>13, <1>14
    DEF Next, ReconcilerNext, FaultNext, Environment

\* An id that was not given out and an allocation that only starts have no
\* process in the map.
LEMMA NotYetAlive ==
    ASSUME Shape, Births, Tended, NEW a \in Ids,
           alloc[a].state = "None" \/ (a \notin entries /\ rec.held = {})
    PROVE  \A i \in alive : i[1] # a
  <1>1. alive \subseteq Instances /\ started \in [Ids -> [Tasks -> Nat]]
    BY DEF Shape, TypeOK
  <1>2. SUFFICES ASSUME NEW i \in alive, i[1] = a PROVE FALSE
    OBVIOUS
  <1>3. CASE alloc[a].state = "None"
    BY <1>2, <1>3 DEF Tended
  <1>4. CASE a \notin entries /\ rec.held = {}
    BY <1>2, <1>4 DEF Tended
  <1>5. QED
    BY <1>3, <1>4

\* Every step accounts for the processes it leaves.
LEMMA NextNoStray ==
    ASSUME Shape, Shape', Books, NoStray, [Next]_vars
    PROVE  NoStray'
  <1>0. /\ alloc \in [Ids -> AllocationRecord] /\ entries \subseteq Ids
        /\ running \in [Ids -> SUBSET Instances] /\ started \in [Ids -> [Tasks -> Nat]]
        /\ alive \subseteq Instances /\ rec.todo \subseteq Ids
    BY Fields DEF Shape, TypeOK
  <1>1. AtWork'
    BY NextAtWork DEF NoStray
  <1>2. SUFFICES ASSUME hurt' \subseteq {"stuck"} PROVE Tended' /\ Judged'
    BY <1>1 DEF NoStray
  <1>3. Numbered /\ Births /\ InHealth /\ InHand /\ AtWork
    BY DEF Books, NoStray
  <1>4. Tended /\ Judged
    BY <1>2, HurtGrows DEF NoStray
  <1>p. \A i \in alive : i[1] \in Ids /\ i[2] \in Tasks
    BY <1>0, InstanceParts
  <1>j. ASSUME ~Checking', rec'.pc # "mark" PROVE Judged'
    BY <1>j DEF Judged, Checking, AtTasks
  \* Steps that move no process and mark nothing.
  <1>t. ASSUME UNCHANGED <<alloc, entries, running>>, alive' \subseteq alive,
               rec.held \subseteq rec'.held
        PROVE  Tended'
    BY <1>4, <1>t DEF Tended
  <1>5. ASSUME BeginTick PROVE Tended' /\ Judged'
    <2>1. /\ rec.pc = "idle" /\ Check({})
          /\ UNCHANGED <<alloc, entries, running, alive>>
      BY <1>5 DEF BeginTick
    <2>2. /\ rec'.pc = "health"
          /\ \A a \in rec'.todo \ rec'.up : running[a] \cap alive = {}
      BY <2>1, CheckEffect
    <2>3. rec.held = {}
      BY <1>3, <2>1 DEF InHand
    <2>4. Tended'
      BY <1>t, <2>1, <2>3
    <2>5. Judged'
      BY <2>1, <2>2 DEF Judged, AtTasks
    <2>6. QED
      BY <2>4, <2>5
  <1>6. ASSUME BeginTickBlind PROVE FALSE
    <2>1. "blind" \in hurt'
      BY <1>6 DEF BeginTickBlind
    <2>2. QED
      BY <1>2, <2>1
  <1>7. ASSUME NEW a \in Ids, BeginAllocation(a) PROVE Tended' /\ Judged'
    <2>1. /\ Checking /\ a \in rec.todo /\ rec'.pc = "tasks" /\ rec'.cur = a
          /\ rec'.todo = rec.todo \ {a} /\ rec'.up = rec.up \ {a} /\ rec'.held = rec.held
          /\ rec'.allDead => a \notin rec.up
          /\ UNCHANGED <<alloc, entries, running, alive>>
      BY <1>7, BeginAllocationEffect DEF Checking
    <2>2. \A b \in rec.todo \ rec.up : running[b] \cap alive = {}
      BY <1>4, <2>1 DEF Judged
    <2>3. Judged'
      BY <2>1, <2>2 DEF Judged
    <2>4. QED
      BY <1>t, <2>1, <2>3
  <1>8. ASSUME NEW t \in Tasks, RestartTask(t) PROVE Tended' /\ Judged'
    <2>1. /\ rec.pc = "tasks" /\ rec'.pc = "restart" /\ rec.cur \in Ids
          /\ rec'.cur = rec.cur /\ rec'.todo = rec.todo /\ rec'.held = rec.held
          /\ rec'.up = rec.up /\ rec'.allDead = rec.allDead
          /\ running' = [running EXCEPT ![rec.cur] = {i \in @ : i[2] # t}]
          /\ alive' = alive \ {i \in running[rec.cur] : i[2] = t}
          /\ UNCHANGED <<alloc, entries>>
      BY <1>2, <1>8, RestartTaskEffect
    <2>2. PICK c \in Ids : c = rec.cur
      BY <2>1
    <2>3. rec.held = {} /\ c \in entries
      BY <1>3, <2>1, <2>2 DEF InHand, InHealth, AtTasks
    <2>4. running'[c] = {i \in running[c] : i[2] # t}
      BY <1>0, <2>1, <2>2
    <2>5. \A b \in Ids \ {c} : running'[b] = running[b]
      BY <1>0, <2>1, <2>2
    <2>6. ASSUME NEW i \in alive'
          PROVE  i[1] \in entries /\ i \in running'[i[1]]
      <3>1. i \in alive /\ i[1] \in entries /\ i \in running[i[1]] /\ i[1] \in Ids
        BY <1>4, <1>p, <2>1, <2>3 DEF Tended
      <3>2. CASE i[1] = c
        BY <2>1, <2>2, <2>4, <3>1, <3>2
      <3>3. CASE i[1] # c
        BY <2>5, <3>1, <3>3
      <3>4. QED
        BY <3>1, <3>2, <3>3
    <2>7. Tended'
      BY <1>4, <2>1, <2>6 DEF Tended
    <2>8. \A b \in Ids : running'[b] \subseteq running[b]
      BY <2>4, <2>5
    <2>9. Judged'
      <3>1. \A a \in rec.todo \ rec.up : running[a] \cap alive = {}
        BY <1>4, <2>1 DEF Judged, Checking
      <3>2. \A a \in rec.todo \ rec.up : running'[a] \cap alive' = {}
        BY <1>0, <2>1, <2>8, <3>1
      <3>3. rec.allDead => running[c] \cap alive = {}
        BY <1>4, <2>1, <2>2 DEF Judged, AtTasks
      <3>4. rec.allDead => running'[c] \cap alive' = {}
        BY <2>1, <2>8, <3>3
      <3>5. QED
        BY <2>1, <2>2, <3>2, <3>4 DEF Judged
    <2>10. QED
      BY <2>7, <2>9
  <1>9. ASSUME RestartStarts PROVE Tended' /\ Judged'
    <2>1. /\ rec.pc = "restart" /\ rec'.pc = "record" /\ rec.cur \in Ids
          /\ rec.task \in Tasks /\ Launch(rec.cur, rec.task)
          /\ UNCHANGED <<alloc, entries, running>>
      BY <1>9, RestartStartsEffect
    <2>2. PICK c \in Ids, t \in Tasks, n \in Nat :
             c = rec.cur /\ t = rec.task /\ n = started[c][t] + 1
      BY <1>0, <2>1
    <2>3. PICK p \in Instances : p = <<c, t, n>>
      BY InstanceParts
    <2>4. p[1] = c /\ p[2] = t
      BY <2>3
    <2>5. /\ alive' = alive \cup {p} /\ rec'.held = rec.held \cup {p}
          /\ rec'.cur = c /\ rec'.todo = rec.todo /\ rec'.up = rec.up
          /\ rec'.allDead = rec.allDead
      BY <2>1, <2>2, <2>3, LaunchEffect
    <2>6. c \notin rec.todo /\ t \notin TaskNames(running[c])
      BY <1>3, <2>1, <2>2 DEF InHealth, AtTasks
    <2>7. alloc[c].state = "Running"
      BY <1>3, <2>1, <2>2 DEF AtWork, AtTasks
    <2>8. Tended'
      BY <1>4, <2>1, <2>4, <2>5, <2>7 DEF Tended
    <2>9. \A a \in rec.todo \ rec.up : running[a] \cap alive' = {}
      <3>1. \A a \in rec.todo \ rec.up : running[a] \cap alive = {}
        BY <1>4, <2>1 DEF Judged, Checking
      <3>2. \A a \in rec.todo : p \notin running[a]
        BY <1>0, <1>3, <2>4, <2>6 DEF Births
      <3>3. QED
        BY <2>5, <3>1, <3>2
    <2>10. rec.allDead => running[c] \cap alive' = {}
      <3>1. rec.allDead => running[c] \cap alive = {}
        BY <1>4, <2>1, <2>2 DEF Judged, AtTasks
      <3>2. p \notin running[c]
        BY <2>4, <2>6 DEF TaskNames
      <3>3. QED
        BY <2>5, <3>1, <3>2
    <2>11. Judged'
      BY <2>1, <2>5, <2>9, <2>10 DEF Judged
    <2>12. QED
      BY <2>8, <2>11
  <1>10. ASSUME RestartFails PROVE Tended' /\ Judged'
    <2>1. /\ Checking /\ AtTasks /\ rec'.pc = "tasks"
          /\ rec'.cur = rec.cur /\ rec'.todo = rec.todo /\ rec'.up = rec.up
          /\ rec'.allDead = rec.allDead /\ rec'.held = rec.held
          /\ UNCHANGED <<alloc, entries, running, alive>>
      BY <1>10, RestartFailsEffect DEF Checking, AtTasks
    <2>2. Judged'
      BY <1>4, <2>1 DEF Judged
    <2>3. QED
      BY <1>t, <2>1, <2>2
  <1>11. ASSUME RecordRestart \/ RecordRestartFails PROVE Tended' /\ Judged'
    <2>1. /\ rec.pc = "record" /\ rec'.pc = "tasks" /\ rec.cur \in Ids
          /\ rec.task \in Tasks /\ rec'.todo = rec.todo /\ rec'.up = rec.up
          /\ rec'.allDead = FALSE
          /\ alloc' = [alloc EXCEPT ![rec.cur].restarts[rec.task] = @ + 1]
          /\ entries' = entries \cup {rec.cur}
          /\ running' = [running EXCEPT ![rec.cur] = @ \cup rec.held]
          /\ UNCHANGED alive
      BY <1>2, <1>11, RecordEffect
    <2>2. PICK c \in Ids, t \in Tasks : c = rec.cur /\ t = rec.task
      BY <2>1
    <2>3. PICK p : p = <<c, t, started[c][t]>>
      OBVIOUS
    <2>4. rec.held = {p} /\ p[1] = c
      BY <1>3, <2>1, <2>2, <2>3 DEF InHand
    <2>5. running'[c] = running[c] \cup {p} /\ \A b \in Ids \ {c} : running'[b] = running[b]
      BY <1>0, <2>1, <2>2, <2>4
    <2>6. \A b \in Ids : alloc'[b].state = alloc[b].state
      BY <1>0, <2>1, <2>2 DEF AllocationRecord
    <2>7. ASSUME NEW i \in alive
          PROVE  i[1] \in entries' /\ i \in running'[i[1]]
      <3>1. i[1] \in Ids /\ (i = p \/ (i[1] \in entries /\ i \in running[i[1]]))
        BY <1>4, <1>p, <2>4 DEF Tended
      <3>2. CASE i = p
        BY <2>1, <2>2, <2>4, <2>5, <3>2
      <3>3. CASE i # p
        BY <2>1, <2>5, <3>1, <3>3
      <3>4. QED
        BY <3>2, <3>3
    <2>8. Tended'
      BY <1>4, <1>p, <2>1, <2>6, <2>7 DEF Tended
    <2>9. c \notin rec.todo
      BY <1>3, <2>1, <2>2 DEF InHealth, AtTasks
    <2>10. \A a \in rec.todo \ rec.up : running'[a] \cap alive = {}
      BY <1>0, <1>4, <2>1, <2>5, <2>9 DEF Judged, Checking
    <2>11. Judged'
      BY <2>1, <2>10 DEF Judged
    <2>12. QED
      BY <2>8, <2>11
  \* An allocation is marked Failed only when the verdict was that all its
  \* tasks are dead and none was restarted since.
  <1>12. ASSUME EndAllocation PROVE Tended' /\ Judged'
    <2>1. /\ rec.pc = "tasks" /\ rec'.pc = "health" /\ rec.cur \in Ids
          /\ rec'.todo = rec.todo /\ rec'.up = rec.up /\ rec'.held = rec.held
          /\ \/ alloc' = alloc
             \/ rec.allDead /\ alloc' = [alloc EXCEPT ![rec.cur].state = "Failed"]
          /\ UNCHANGED <<entries, running, alive>>
      BY <1>12, EndAllocationEffect
    <2>2. PICK c \in Ids : c = rec.cur
      BY <2>1
    <2>3. rec.held = {}
      BY <1>3, <2>1 DEF InHand
    <2>4. \A b \in Ids \ {c} : alloc'[b] = alloc[b]
      BY <1>0, <2>1, <2>2
    <2>5. ASSUME rec.allDead PROVE \A i \in alive : i[1] # c
      <3>1. running[c] \cap alive = {}
        BY <1>4, <2>1, <2>2, <2>5 DEF Judged, AtTasks
      <3>2. QED
        BY <1>4, <2>3, <3>1 DEF Tended
    <2>6. Tended'
      <3>1. CASE alloc' = alloc
        BY <1>t, <2>1, <3>1
      <3>2. CASE rec.allDead
        BY <1>4, <1>p, <2>1, <2>4, <2>5, <3>2 DEF Tended
      <3>3. QED
        BY <2>1, <3>1, <3>2
    <2>7. Judged'
      BY <1>4, <2>1 DEF Judged, Checking, AtTasks
    <2>8. QED
      BY <2>6, <2>7
  <1>13. ASSUME \/ ReconcileCount \/ EndPass \/ NoDrift \/ EvalFails \/ RollingUpdate
                \/ RollingUpdateFails \/ NoReadyNode \/ UpdateWithoutNode
         PROVE  Tended' /\ Judged'
    <2>1. /\ rec.pc \in {"health", "create", "drift"}
          /\ UNCHANGED <<alloc, entries, running, alive>>
      BY <1>13 DEF ReconcileCount, EndPass, NoDrift, EvalFails, RollingUpdate,
                   RollingUpdateFails, NoReadyNode, UpdateWithoutNode
    <2>2. rec'.pc \in {"idle", "create", "drift"}
      BY <1>13, QuietEffect DEF Released
    <2>3. rec.held = {}
      BY <1>3, <2>1 DEF InHand
    <2>4. QED
      BY <1>t, <1>j, <2>1, <2>2, <2>3 DEF Checking
  <1>14. ASSUME PutAllocation \/ PutAllocationFails PROVE Tended' /\ Judged'
    <2>1. /\ rec.pc = "create" /\ NextId \in Ids /\ Put
          /\ UNCHANGED <<entries, running, alive>>
      BY <1>14 DEF PutAllocation, PutAllocationFails
    <2>2. rec'.pc \in {"idle", "create", "drift", "start"}
      BY <1>14, QuietEffect, PutAllocationEffect DEF Released
    <2>3. rec.held = {}
      BY <1>3, <2>1 DEF InHand
    <2>4. PICK c \in Ids : c = NextId
      BY <2>1
    <2>5. alloc[c].state = "None" /\ \A a \in Ids \ {c} : alloc'[a] = alloc[a]
      BY <1>3, <2>1, <2>4, PutEffect
    <2>6. \A i \in alive : i[1] # c
      BY <1>3, <1>4, <2>5, NotYetAlive
    <2>7. Tended'
      BY <1>4, <1>p, <2>1, <2>3, <2>5, <2>6 DEF Tended
    <2>8. QED
      BY <1>j, <2>2, <2>7 DEF Checking
  <1>15. ASSUME StartTask PROVE Tended' /\ Judged'
    <2>1. /\ rec.pc = "start" /\ rec.cur \in Ids /\ rec'.pc = "start"
          /\ Cardinality(rec.held) \in Nat /\ Cardinality(rec.held) + 1 \in Tasks
          /\ Launch(rec.cur, Cardinality(rec.held) + 1)
          /\ UNCHANGED <<alloc, entries, running>>
      BY <1>15, StartTaskEffect
    <2>2. PICK c \in Ids, t \in Tasks : c = rec.cur /\ t = Cardinality(rec.held) + 1
      BY <2>1
    <2>3. PICK p : p = <<c, t, started[c][t] + 1>>
      OBVIOUS
    <2>4. p[1] = c
      BY <2>3
    <2>5. alive' = alive \cup {p} /\ rec'.held = rec.held \cup {p}
      BY <2>1, <2>2, <2>3, LaunchEffect
    <2>6. alloc[c].state = "Pending"
      BY <1>3, <2>1, <2>2 DEF InHand
    <2>7. Tended'
      BY <1>4, <2>1, <2>4, <2>5, <2>6 DEF Tended
    <2>8. QED
      BY <1>j, <2>1, <2>7 DEF Checking
  <1>16. ASSUME StartTaskFails PROVE Tended' /\ Judged'
    <2>1. /\ rec.pc = "start" /\ rec.cur \in Ids
          /\ Fault(IF rec.held = {} THEN {} ELSE {"dropped"})
          /\ alloc' = [alloc EXCEPT ![rec.cur].state = "Failed"]
          /\ UNCHANGED <<entries, running, alive>>
      BY <1>16 DEF StartTaskFails, Shape, Position
    <2>2. rec.held = {}
      <3>1. CASE rec.held # {}
        <4>1. "dropped" \in hurt'
          BY <2>1, <3>1 DEF Fault
        <4>2. QED
          BY <1>2, <4>1
      <3>2. QED
        BY <3>1
    <2>3. PICK c \in Ids : c = rec.cur
      BY <2>1
    <2>4. c \notin entries
      BY <1>3, <2>1, <2>3 DEF InHand
    <2>5. \A i \in alive : i[1] # c
      BY <1>3, <1>4, <2>2, <2>4, NotYetAlive
    <2>6. \A b \in Ids \ {c} : alloc'[b] = alloc[b]
      BY <1>0, <2>1, <2>3
    <2>7. Tended'
      BY <1>4, <1>p, <2>1, <2>2, <2>5, <2>6 DEF Tended
    <2>8. rec'.pc \in {"idle", "create", "drift"}
      BY <1>16, QuietEffect DEF Released
    <2>9. QED
      BY <1>j, <2>7, <2>8 DEF Checking
  <1>17. ASSUME StartAborts PROVE Tended' /\ Judged'
    <2>1. /\ rec.pc = "start" /\ UNCHANGED <<alloc, entries, running, alive>>
          /\ Fault(IF rec.held = {} THEN {"stuck"} ELSE {"dropped", "stuck"})
      BY <1>17 DEF StartAborts
    <2>2. rec.held = {}
      <3>1. CASE rec.held # {}
        <4>1. "dropped" \in hurt'
          BY <2>1, <3>1 DEF Fault
        <4>2. QED
          BY <1>2, <4>1
      <3>2. QED
        BY <3>1
    <2>3. rec'.pc \in {"idle", "create", "drift"}
      BY <1>17, QuietEffect DEF Released
    <2>4. QED
      BY <1>t, <1>j, <2>1, <2>2, <2>3 DEF Checking
  <1>18. ASSUME FinishStart PROVE Tended' /\ Judged'
    <2>1. /\ rec.pc = "start" /\ rec.cur \in Ids
          /\ alloc' = [alloc EXCEPT ![rec.cur].state = "Running"]
          /\ entries' = entries \cup {rec.cur}
          /\ running' = [running EXCEPT ![rec.cur] = rec.held] /\ UNCHANGED alive
      BY <1>18 DEF FinishStart, Shape, Position
    <2>2. rec'.pc \in {"idle", "create", "drift"}
      BY <1>18, QuietEffect DEF Released
    <2>3. PICK c \in Ids : c = rec.cur
      BY <2>1
    <2>4. c \notin entries /\ rec.held = {<<c, t, 1>> : t \in 1..Cardinality(rec.held)}
      BY <1>3, <2>1, <2>3 DEF InHand
    <2>5. \A i \in rec.held : i[1] = c
      BY <2>4
    <2>6. /\ running'[c] = rec.held /\ alloc'[c].state = "Running"
          /\ \A b \in Ids \ {c} : running'[b] = running[b] /\ alloc'[b] = alloc[b]
      BY <1>0, <2>1, <2>3 DEF AllocationRecord
    <2>7. ASSUME NEW i \in alive
          PROVE  /\ i[1] \in entries' /\ i \in running'[i[1]]
                 /\ alloc'[i[1]].state \in {"Pending", "Running"}
      <3>1. CASE i \in rec.held
        BY <2>1, <2>3, <2>5, <2>6, <3>1
      <3>2. CASE i \notin rec.held
        <4>1. /\ i[1] \in entries /\ i \in running[i[1]] /\ i[1] \in Ids
              /\ alloc[i[1]].state \in {"Pending", "Running"}
          BY <1>4, <1>p, <3>2 DEF Tended
        <4>2. QED
          BY <2>1, <2>4, <2>6, <4>1
      <3>3. QED
        BY <3>1, <3>2
    <2>8. Tended'
      BY <2>1, <2>7 DEF Tended
    <2>9. QED
      BY <1>j, <2>2, <2>8 DEF Checking
  <1>19. ASSUME NEW a \in Ids, StopTasks(a) PROVE Tended' /\ Judged'
    <2>1. /\ rec.pc = "create" /\ rec'.pc = "mark" /\ rec'.cur = a
          /\ entries' = entries \ {a} /\ running' = [running EXCEPT ![a] = {}]
          /\ alive' = alive \ running[a] /\ UNCHANGED alloc
      BY <1>2, <1>19, StopTasksEffect
    <2>2. rec.held = {}
      BY <1>3, <2>1 DEF InHand
    <2>3. \A b \in Ids \ {a} : running'[b] = running[b]
      BY <1>0, <2>1
    <2>4. ASSUME NEW i \in alive'
          PROVE  i[1] # a /\ i[1] \in entries' /\ i \in running'[i[1]]
      <3>1. i \in alive /\ i[1] \in entries /\ i \in running[i[1]] /\ i[1] \in Ids
        BY <1>4, <1>p, <2>1, <2>2 DEF Tended
      <3>2. i[1] # a
        BY <2>1, <3>1
      <3>3. QED
        BY <2>1, <2>3, <3>1, <3>2
    <2>5. Tended'
      BY <1>4, <2>1, <2>4 DEF Tended
    <2>6. Judged'
      BY <2>1, <2>4 DEF Judged, Checking, AtTasks
    <2>7. QED
      BY <2>5, <2>6
  <1>20. ASSUME MarkComplete PROVE Tended' /\ Judged'
    <2>1. /\ rec.pc = "mark" /\ rec'.pc = "create" /\ rec.cur \in Ids
          /\ rec'.held = rec.held
          /\ alloc' = [alloc EXCEPT ![rec.cur].state = "Complete"]
          /\ UNCHANGED <<entries, running, alive>>
      BY <1>20, MarkCompleteEffect
    <2>2. \A i \in alive : i[1] # rec.cur
      BY <1>4, <2>1 DEF Judged
    <2>3. \A b \in Ids \ {rec.cur} : alloc'[b] = alloc[b]
      BY <1>0, <2>1
    <2>4. Tended'
      BY <1>4, <1>p, <2>1, <2>2, <2>3 DEF Tended
    <2>5. QED
      BY <1>j, <2>1, <2>4 DEF Checking
  <1>21. ASSUME \/ \E i \in alive : TaskExits(i)
                \/ EditFlake \/ NodeReady \/ NodeDrains \/ UNCHANGED vars
         PROVE  Tended' /\ Judged'
    <2>1. UNCHANGED <<alloc, entries, running, rec>> /\ alive' \subseteq alive
      BY <1>21 DEF TaskExits, EditFlake, NodeReady, NodeDrains, vars
    <2>2. Tended'
      BY <1>t, <2>1
    <2>3. Judged'
      BY <1>4, <2>1 DEF Judged, Checking, AtTasks
    <2>4. QED
      BY <2>2, <2>3
  <1>22. ASSUME Crash PROVE FALSE
    <2>1. "crash" \in hurt'
      BY <1>22 DEF Crash, Fault
    <2>2. QED
      BY <1>2, <2>1
  <1>23. QED
    BY <1>5, <1>6, <1>7, <1>8, <1>9, <1>10, <1>11, <1>12, <1>13, <1>14, <1>15, <1>16,
       <1>17, <1>18, <1>19, <1>20, <1>21, <1>22
    DEF Next, ReconcilerNext, FaultNext, Environment

\* While the calls that handle processes work and the engine does not crash,
\* no process runs that the engine has lost or whose allocation is over.
THEOREM ProcessesAreAccounted == Spec => []Accounted
  <1>1. Init => Shape /\ Books /\ NoStray
    <2>1. Init => NoStray
      BY IdleType DEF Init, NoStray, AtWork, Tended, Judged, Checking, AtTasks
    <2>2. QED
      BY <2>1, InitShape, InitBooks
  <1>2. Shape /\ [Next]_vars => Shape'
    BY NextShape
  <1>3. Shape /\ Shape' /\ Books /\ [Next]_vars => Books'
    BY NextBooks
  <1>4. Shape /\ Shape' /\ Books /\ NoStray /\ [Next]_vars => NoStray'
    BY NextNoStray
  <1>5. NoStray => Accounted
    BY DEF NoStray, Tended, Accounted
  <1>6. QED
    BY <1>1, <1>2, <1>3, <1>4, <1>5, PTL DEF Spec

-----------------------------------------------------------------------------
(* Capacity.                                                               *)

\* The least element of a set of numbers is at most each of them.
LEMMA MinBound ==
    ASSUME NEW S \in SUBSET Nat, NEW m \in S
    PROVE  Min(S) \in S /\ Min(S) <= m
  <1> DEFINE T == {0..n : n \in S}
             R == StrictSubsetOrdering(Nat)
  <1>1. T \subseteq FiniteSubsetsOf(Nat)
    <2>1. SUFFICES ASSUME NEW n \in Nat PROVE 0..n \in FiniteSubsetsOf(Nat)
      OBVIOUS
    <2>2. IsFiniteSet(0..n)
      BY FS_Interval
    <2>3. QED
      BY <2>2 DEF FiniteSubsetsOf
  <1>2. T # {}
    OBVIOUS
  <1>3. IsWellFoundedOn(R, FiniteSubsetsOf(Nat))
    BY FS_StrictSubsetOrderingWellFounded
  <1>4. PICK x \in T : \A y \in T : ~(<<y, x>> \in R)
    <2> HIDE DEF T, R
    <2>1. QED
      BY <1>1, <1>2, <1>3, WFMin
  <1>5. PICK n \in S : x = 0..n
    OBVIOUS
  <1>6. ASSUME NEW k \in S, k < n PROVE FALSE
    <2>1. 0..k \in T /\ 0..k \subseteq Nat /\ x \subseteq Nat /\ 0..k \subseteq x
      BY <1>5, <1>6
    <2>2. n \in x /\ n \notin 0..k
      BY <1>5, <1>6
    <2>3. <<0..k, x>> \in R
      BY <2>1, <2>2 DEF StrictSubsetOrdering
    <2>4. QED
      BY <1>4, <2>1, <2>3
  <1>7. \A k \in S : n <= k
    BY <1>6
  <1>8. QED
    BY <1>7 DEF Min

\* What is left of a finite set without one of its parts.
LEMMA CountSplit ==
    ASSUME NEW S \in SUBSET Ids, NEW T \in SUBSET S
    PROVE  Cardinality(S) = Cardinality(S \ T) + Cardinality(T)
  <1>1. /\ IsFiniteSet(S \ T) /\ Cardinality(S \ T) \in Nat
        /\ IsFiniteSet(T) /\ Cardinality(T) \in Nat
    BY IdSets
  <1>2. Cardinality((S \ T) \cup T) =
           Cardinality(S \ T) + Cardinality(T) - Cardinality((S \ T) \cap T)
    BY <1>1, FS_Union
  <1>3. (S \ T) \cup T = S /\ (S \ T) \cap T = {}
    OBVIOUS
  <1>4. Cardinality((S \ T) \cap T) = 0
    BY <1>3, FS_EmptySet
  <1>5. QED
    BY <1>1, <1>2, <1>3, <1>4

\* Smaller sets of allocations count less.
LEMMA CountMonotone ==
    ASSUME NEW S \in SUBSET Ids, NEW T \in SUBSET S
    PROVE  /\ Cardinality(T) <= Cardinality(S)
           /\ T # S => Cardinality(T) < Cardinality(S)
  <1>1. IsFiniteSet(S) /\ Cardinality(S) \in Nat /\ Cardinality(T) \in Nat
    BY IdSets
  <1>2. Cardinality(T) <= Cardinality(S) /\ (Cardinality(S) = Cardinality(T) => S = T)
    BY <1>1, FS_Subset
  <1>3. QED
    BY <1>1, <1>2

\* Members of a set have different numbers of newer members, so that no more
\* than n have less than n.
LEMMA NewestBound ==
    ASSUME NEW S \in SUBSET Ids, NEW n \in Nat
    PROVE  Cardinality(Newest(S, n)) <= n
  <1> DEFINE newer(a) == {b \in S : b > a}
             N == Newest(S, n)
             f == [a \in N |-> Cardinality(newer(a)) + 1]
  <1>1. N \subseteq S /\ \A a \in N : Cardinality(newer(a)) < n
    BY DEF Newest
  <1>2. \A a \in S : newer(a) \in SUBSET S /\ Cardinality(newer(a)) \in Nat
    BY IdSets
  <1>3. ASSUME NEW a \in S, NEW b \in S, a < b
        PROVE  Cardinality(newer(b)) < Cardinality(newer(a))
    <2>1. a \in Nat /\ b \in Nat /\ S \subseteq Nat
      BY Constants
    <2>2. /\ \A c \in S : c > b => c > a
          /\ b > a /\ ~(b > b)
      BY <1>3, <2>1
    <2>3. newer(b) \in SUBSET newer(a) /\ b \in newer(a) /\ b \notin newer(b)
      BY <2>2
    <2>4. newer(a) \in SUBSET Ids
      OBVIOUS
    <2> HIDE DEF newer
    <2>5. QED
      BY <2>3, <2>4, CountMonotone
  <1>4. f \in Injection(N, 1..n)
    <2>1. \A a \in N : f[a] \in 1..n
      BY <1>1, <1>2
    <2>2. ASSUME NEW a \in N, NEW b \in N, f[a] = f[b] PROVE a = b
      <3>1. a \in S /\ b \in S /\ a \in Nat /\ b \in Nat
        BY <1>1, Constants
      <3>2. Cardinality(newer(a)) = Cardinality(newer(b))
        BY <1>2, <2>2, <3>1
      <3>3. ~(a < b) /\ ~(b < a)
        <4> HIDE DEF newer, f, N
        <4>1. QED
          BY <1>2, <1>3, <3>1, <3>2
      <3>4. QED
        BY <3>1, <3>3
    <2> HIDE DEF N
    <2>3. QED
      BY <2>1, <2>2 DEF Injection, IsInjective
  <1>5. IsFiniteSet(1..n) /\ Cardinality(1..n) = n
    <2>1. 1 \in Int /\ n \in Int
      OBVIOUS
    <2>2. IsFiniteSet(1..n) /\ Cardinality(1..n) = IF 1 > n THEN 0 ELSE n - 1 + 1
      BY <2>1, FS_Interval
    <2>3. QED
      BY <2>2
  <1>6. Cardinality(N) <= Cardinality(1..n)
    <2> HIDE DEF N, f
    <2>1. QED
      BY <1>4, <1>5, FS_Injection
  <1>7. QED
    BY <1>5, <1>6

\* No task has exited, no answer was lost and no call has failed.
Calm == budget.exits = 0 /\ budget.faults = 0

\* A step that keeps it so is one of the loop in which every call works, an
\* edit of the flake, or the node becoming ready or not ready.
Outside == EditFlake \/ NodeReady \/ NodeDrains \/ UNCHANGED vars

LEMMA CalmStep ==
    ASSUME Shape, [Next]_vars, Calm'
    PROVE  /\ Calm /\ hurt' = hurt
           /\ ReconcilerNext \/ Outside
  <1>0. budget \in Budgets
    BY DEF Shape, TypeOK, Budgets
  <1>1. ASSUME NEW kind \in {"exits", "faults"}, NEW max, Spend(kind, max) PROVE FALSE
    <2>1. budget'[kind] = budget[kind] + 1 /\ budget[kind] \in Nat
      BY <1>0, <1>1 DEF Spend, Budgets
    <2>2. budget'[kind] = 0
      BY <1>1 DEF Calm
    <2>3. QED
      BY <2>1, <2>2
  <1>2. ASSUME NEW kinds, Fault(kinds) PROVE FALSE
    BY <1>1, <1>2 DEF Fault
  <1>3. NoFault => Calm /\ hurt' = hurt
    BY DEF NoFault, Calm
  <1>4. ASSUME NEW a \in Ids, BeginAllocation(a) \/ StopTasks(a) PROVE Calm /\ hurt' = hurt
    BY <1>2, <1>3, <1>4 DEF BeginAllocation, StopTasks
  <1>5. ASSUME NEW t \in Tasks, RestartTask(t) PROVE Calm /\ hurt' = hurt
    BY <1>2, <1>3, <1>5 DEF RestartTask, StopOld
  <1>6. ReconcilerNext => Calm /\ hurt' = hurt
    BY <1>3, <1>4, <1>5
    DEF ReconcilerNext, BeginTick, RestartStarts, RecordRestart, EndAllocation,
        ReconcileCount, NoReadyNode, PutAllocation, StartTask, FinishStart, MarkComplete,
        EndPass, NoDrift, RollingUpdate, UpdateWithoutNode
  <1>7. ~FaultNext
    BY <1>1, <1>2
    DEF FaultNext, BeginTickBlind, RestartFails, RecordRestartFails, PutAllocationFails,
        StartTaskFails, StartAborts, EvalFails, RollingUpdateFails
  <1>8. ~Crash /\ ~(\E i \in alive : TaskExits(i))
    BY <1>1, <1>2 DEF Crash, TaskExits
  <1>9. ASSUME NEW kind \in {"edits", "drains"}, NEW max, Spend(kind, max) PROVE Calm
    <2>1. budget' = [budget EXCEPT ![kind] = @ + 1]
      BY <1>9 DEF Spend
    <2>2. budget'.exits = budget.exits /\ budget'.faults = budget.faults
      BY <1>0, <2>1 DEF Budgets
    <2>3. QED
      BY <2>2 DEF Calm
  <1>10. Outside => Calm /\ hurt' = hurt
    BY <1>9 DEF Outside, EditFlake, NodeReady, NodeDrains, vars, Calm
  <1>11. QED
    BY <1>6, <1>7, <1>8, <1>10 DEF Next, Environment, Outside

\* The allocations that this pass stops.
Doomed == rec.victims \cup IF rec.pc = "mark" THEN {rec.cur} ELSE {}

\* An allocation that runs the first process of each of its tasks.
Intact(a) ==
    /\ alloc[a].state = "Running" /\ a \in entries
    /\ running[a] = {<<a, t, 1>> : t \in Tasks} /\ running[a] \subseteq alive

\* Every active allocation is intact, but for the one in hand.
Lively ==
    \A a \in Active : Intact(a) \/ (rec.pc \in {"start", "mark"} /\ a = rec.cur)

\* The health pass finds nothing dead, and what was started is alive.
NoneDead ==
    /\ Checking => \A a \in rec.todo : a \in rec.up /\ rec.dead[a] = {}
    /\ AtTasks => rec.pc = "tasks" /\ rec.left = {} /\ ~rec.allDead
    /\ rec.pc = "start" => rec.held \subseteq alive

\* Nothing is active, or as many as some count that the flake gives.
Stocked == Active = {} \/ \E c \in Counts : Cardinality(Active) >= c

\* While a pass creates and stops, what is not to be stopped or is still to be
\* created reaches such a count, unless the pass has no node or nothing to do.
Supplied ==
    /\ rec.pc \notin {"create", "start", "mark"} => Stocked
    /\ rec.pc \in {"create", "start", "mark"} =>
          \/ /\ Active \ Doomed = {} /\ rec.creates = 0
             /\ rec.pass = "nodeless" \/ Active = {}
          \/ \E c \in Counts : Cardinality(Active \ Doomed) + rec.creates >= c

\* No allocation is of a version that the job has not reached.
Versions == \A a \in Ids : alloc[a].version <= job.version

Whole ==
    /\ job.count \in Counts /\ Versions
    /\ Calm => hurt = {} /\ Lively /\ NoneDead /\ Supplied

\* The job changes only when the flake is taken over.
LEMMA JobStep == [Next]_vars => job' = job \/ UpdateJob
  BY DEF Next, ReconcilerNext, FaultNext, Environment, vars, BeginTick, BeginAllocation,
         StopTasks, RestartTask, RestartStarts, RecordRestart, EndAllocation,
         ReconcileCount, NoReadyNode, PutAllocation, StartTask, FinishStart,
         MarkComplete, EndPass, NoDrift, RollingUpdate, UpdateWithoutNode,
         BeginTickBlind, RestartFails, RecordRestartFails, PutAllocationFails,
         StartTaskFails, StartAborts, EvalFails, RollingUpdateFails, TaskExits,
         EditFlake, NodeReady, NodeDrains, Crash

\* The count of the job is one of the flake's.
LEMMA NextCount ==
    ASSUME Shape, job.count \in Counts, [Next]_vars
    PROVE  job'.count \in Counts
  <1>1. flake \in Counts
    BY DEF Shape, TypeOK
  <1>2. QED
    BY <1>1, JobStep DEF UpdateJob

\* Allocations are created at the version of the job, which only grows.
LEMMA NextVersions ==
    ASSUME Shape, Versions, [Next]_vars
    PROVE  Versions'
  <1>0. /\ alloc \in [Ids -> AllocationRecord] /\ job \in [count : Nat, version : Nat]
        /\ Position
    BY DEF Shape, TypeOK
  <1>1. job'.version \in Nat /\ job.version <= job'.version
    BY <1>0, JobStep DEF UpdateJob
  <1>2. ASSUME NEW c \in Ids, NEW v, alloc' = [alloc EXCEPT ![c].state = v]
        PROVE  \A a \in Ids : alloc'[a].version = alloc[a].version
    BY <1>0, <1>2 DEF AllocationRecord
  <1>3. ASSUME NEW c \in Ids, NEW t \in Tasks,
               alloc' = [alloc EXCEPT ![c].restarts[t] = @ + 1]
        PROVE  \A a \in Ids : alloc'[a].version = alloc[a].version
    BY <1>0, <1>3 DEF AllocationRecord
  <1>4. ASSUME NextId \in Ids, Put
        PROVE  \A a \in Ids : alloc'[a].version \in {alloc[a].version, job.version}
    <2>1. PICK c \in Ids : c = NextId
      BY <1>4
    <2>2. alloc' = [alloc EXCEPT ![c] = [NoAllocation EXCEPT !.state = "Pending",
                                                             !.version = job.version]]
      BY <1>4, <2>1 DEF Put
    <2>3. alloc'[c].version = job.version /\ \A a \in Ids \ {c} : alloc'[a] = alloc[a]
      BY <1>0, <2>2 DEF NoAllocation
    <2>4. QED
      BY <2>3
  <1>5. ASSUME RecordRestart \/ RecordRestartFails
        PROVE  \A a \in Ids : alloc'[a].version = alloc[a].version
    BY <1>3, <1>5, RecordEffect
  <1>6. ASSUME EndAllocation \/ StartTaskFails \/ FinishStart \/ MarkComplete
        PROVE  \A a \in Ids : alloc'[a].version = alloc[a].version
    <2>1. rec.cur \in Ids
      BY <1>0, <1>6
      DEF EndAllocation, StartTaskFails, FinishStart, MarkComplete, Position
    <2>2. alloc' = alloc \/ \E v : alloc' = [alloc EXCEPT ![rec.cur].state = v]
      BY <1>6 DEF EndAllocation, StartTaskFails, FinishStart, MarkComplete
    <2>3. QED
      BY <1>2, <2>1, <2>2
  <1>7. ASSUME PutAllocation \/ PutAllocationFails
        PROVE  \A a \in Ids : alloc'[a].version \in {alloc[a].version, job.version}
    BY <1>4, <1>7 DEF PutAllocation, PutAllocationFails
  <1>8. \/ \A a \in Ids : alloc'[a].version \in {alloc[a].version, job.version}
        \/ alloc' = alloc
    BY <1>5, <1>6, <1>7
    DEF Next, ReconcilerNext, FaultNext, Environment, vars, BeginTick, BeginAllocation,
        StopTasks, RestartTask, RestartStarts, ReconcileCount, NoReadyNode, StartTask,
        EndPass, NoDrift, RollingUpdate, UpdateWithoutNode, BeginTickBlind, RestartFails,
        StartAborts, EvalFails, RollingUpdateFails, TaskExits, EditFlake, NodeReady,
        NodeDrains, Crash
  <1>9. ASSUME NEW a \in Ids PROVE alloc'[a].version <= job'.version
    <2>1. alloc'[a].version \in {alloc[a].version, job.version}
      BY <1>8
    <2>2. alloc[a].version \in Nat /\ alloc[a].version <= job.version /\ job.version \in Nat
      BY <1>0 DEF Versions, AllocationRecord
    <2>3. QED
      BY <1>1, <2>1, <2>2
  <1>10. QED
    BY <1>9 DEF Versions

\* A check of intact allocations reports all of them up.
LEMMA CalmCheck ==
    ASSUME Shape, Check({}),
           \A a \in entries : alloc[a].state = "Running" =>
                                 running[a] # {} /\ running[a] \subseteq alive
    PROVE  \A a \in rec'.todo : a \in rec'.up /\ rec'.dead[a] = {}
  <1> DEFINE checked == {a \in entries : alloc[a].state = "Running"}
             dead(a) == {i \in running[a] : SeenDead(i) \/ i \in {}}
             lost == [a \in Ids |-> IF a \in checked THEN TaskNames(dead(a)) ELSE {}]
             up == {a \in checked : running[a] # dead(a)}
  <1>1. entries \subseteq Ids
    BY DEF Shape, TypeOK
  <1>2. rec' = [IdleTick EXCEPT !.pc = "health", !.nodes = ready, !.todo = checked,
                              !.dead = lost, !.up = up]
    BY DEF Check
  <1>3. \A a \in checked : dead(a) = {}
    BY DEF SeenDead
  <1>4. \A a \in checked : a \in up /\ lost[a] = {}
    BY <1>1, <1>3 DEF TaskNames
  <1> HIDE DEF checked, dead, lost, up
  <1>5. rec'.todo = checked /\ rec'.dead = lost /\ rec'.up = up
    BY <1>2 DEF IdleTick
  <1>6. QED
    BY <1>4, <1>5

\* What the steps of a creating pass do to its plan.
LEMMA PlanEffect ==
    ASSUME Shape
    PROVE  /\ PutAllocation => /\ rec.creates > 0 /\ rec'.creates = rec.creates - 1
                               /\ rec'.victims = rec.victims /\ rec'.pass = rec.pass
           /\ \A a, t : Launch(a, t) => /\ rec'.creates = rec.creates
                                        /\ rec'.victims = rec.victims
                                        /\ rec'.pass = rec.pass
           /\ EndStart => /\ rec'.pc = "create" /\ rec'.creates = rec.creates
                          /\ rec'.victims = rec.victims /\ rec'.pass = rec.pass
           /\ \A a : StopTasks(a) => /\ a \in rec.victims /\ rec.creates = 0
                                     /\ rec'.creates = 0 /\ rec'.pass = rec.pass
                                     /\ rec'.victims = rec.victims \ {a}
           /\ MarkComplete => /\ rec'.creates = rec.creates /\ rec'.victims = rec.victims
                              /\ rec'.pass = rec.pass
  <1>0. rec \in TickState
    BY DEF Shape, TypeOK
  <1>1. PutAllocation => /\ rec.creates > 0 /\ rec'.creates = rec.creates - 1
                         /\ rec'.victims = rec.victims /\ rec'.pass = rec.pass
    BY <1>0 DEF PutAllocation, TickState
  <1>2. ASSUME NEW a, NEW t, Launch(a, t)
        PROVE  /\ rec'.creates = rec.creates /\ rec'.victims = rec.victims
               /\ rec'.pass = rec.pass
    BY <1>0, <1>2 DEF Launch, TickState
  <1>3. EndStart => /\ rec'.pc = "create" /\ rec'.creates = rec.creates
                    /\ rec'.victims = rec.victims /\ rec'.pass = rec.pass
    BY <1>0 DEF EndStart, TickState
  <1>4. ASSUME NEW a, StopTasks(a)
        PROVE  /\ a \in rec.victims /\ rec.creates = 0 /\ rec'.creates = 0
               /\ rec'.pass = rec.pass /\ rec'.victims = rec.victims \ {a}
    BY <1>0, <1>4 DEF StopTasks, Replaced, TickState
  <1>5. MarkComplete => /\ rec'.creates = rec.creates /\ rec'.victims = rec.victims
                        /\ rec'.pass = rec.pass
    BY <1>0 DEF MarkComplete, TickState
  <1>6. QED
    BY <1>1, <1>2, <1>3, <1>4, <1>5

\* The count pass leaves or creates as many allocations as the job asks for.
LEMMA CountPlan ==
    ASSUME Shape, ReconcileCount
    PROVE  /\ rec'.pc = "create" /\ rec'.pass = "count"
           /\ Cardinality(Active \ rec'.victims) + rec'.creates >= job.count
  <1>1. PICK A \in SUBSET Ids : A = Active
    BY DEF Active
  <1>2. PICK n \in Nat : n = Cardinality(A)
    BY IdSets
  <1>3. job.count \in Nat
    BY DEF Shape, TypeOK
  <1>4. /\ rec'.pc = "create" /\ rec'.pass = "count" /\ rec'.creates = Deficit(n)
        /\ rec'.victims = Newest(A, n - job.count)
    BY <1>1, <1>2 DEF ReconcileCount, IdleTick
  <1>5. CASE n < job.count
    <2>1. Newest(A, n - job.count) = {}
      <3>1. SUFFICES ASSUME NEW a \in A, Cardinality({b \in A : b > a}) < n - job.count
                     PROVE  FALSE
        BY DEF Newest
      <3>2. Cardinality({b \in A : b > a}) \in Nat
        BY IdSets
      <3>3. QED
        BY <1>3, <1>5, <3>1, <3>2
    <2>2. A \ rec'.victims = A
      BY <1>4, <2>1
    <2>3. rec'.creates = job.count - n
      BY <1>4, <1>5 DEF Deficit
    <2>4. Cardinality(A \ rec'.victims) = n
      BY <1>2, <2>2
    <2>5. QED
      BY <1>1, <1>3, <1>4, <2>3, <2>4
  <1>6. CASE ~(n < job.count)
    <2>1. PICK k \in Nat : k = n - job.count
      BY <1>3, <1>6
    <2>2. PICK V \in SUBSET A : V = Newest(A, k)
      BY DEF Newest
    <2>3. Cardinality(V) <= k /\ n = Cardinality(A \ V) + Cardinality(V)
      BY <1>2, <2>2, NewestBound, CountSplit
    <2>4. Cardinality(V) \in Nat /\ Cardinality(A \ V) \in Nat
      BY IdSets
    <2>5. rec'.creates = 0 /\ rec'.victims = V
      BY <1>4, <1>6, <2>1, <2>2 DEF Deficit
    <2>6. Cardinality(A \ V) >= job.count
      BY <1>3, <2>1, <2>3, <2>4
    <2>7. QED
      BY <1>1, <1>3, <1>4, <2>4, <2>5, <2>6
  <1>7. QED
    BY <1>5, <1>6

\* The rolling update creates one allocation for each that it stops.
LEMMA UpdatePlan ==
    ASSUME Shape, RollingUpdate
    PROVE  /\ rec.pc = "drift" /\ rec'.pc = "create" /\ rec'.pass = "drift"
           /\ Cardinality(Active \ rec'.victims) + rec'.creates = Cardinality(Active)
           /\ rec'.victims \subseteq Active /\ rec'.creates = Cardinality(rec'.victims)
  <1>1. PICK A \in SUBSET Ids : A = Active
    BY DEF Active
  <1>2. PICK V \in SUBSET A : V = Old
    BY <1>1 DEF Old
  <1>3. /\ rec.pc = "drift" /\ rec'.pc = "create" /\ rec'.pass = "drift"
        /\ rec'.creates = Cardinality(V) /\ rec'.victims = V
    BY <1>1, <1>2 DEF RollingUpdate, IdleTick
  <1>4. Cardinality(A) = Cardinality(A \ V) + Cardinality(V)
    BY CountSplit
  <1>5. QED
    BY <1>1, <1>3, <1>4

\* Every calm step keeps the group whole.
LEMMA NextWhole ==
    ASSUME Shape, Shape', Books, Whole, [Next]_vars
    PROVE  Whole'
  <1>0. /\ alloc \in [Ids -> AllocationRecord] /\ entries \subseteq Ids
        /\ running \in [Ids -> SUBSET Instances] /\ alive \subseteq Instances
        /\ rec.creates \in Nat
    BY Fields DEF Shape, TypeOK
  <1>1. job'.count \in Counts /\ Versions'
    BY NextCount, NextVersions DEF Whole
  <1>2. SUFFICES ASSUME Calm' PROVE hurt' = {} /\ Lively' /\ NoneDead' /\ Supplied'
    BY <1>1 DEF Whole
  <1>3. /\ Calm /\ hurt' = hurt
        /\ ReconcilerNext \/ Outside
    BY <1>2, CalmStep
  <1>4. hurt' = {} /\ Lively /\ NoneDead /\ Supplied /\ job.count \in Counts
    BY <1>3 DEF Whole
  <1>5. Numbered /\ Births /\ InHealth /\ InHand /\ Chosen
    BY DEF Books
  <1>a. Active \subseteq Ids /\ \A a \in Ids : a \in Active <=> alloc[a].state \in {"Running", "Pending"}
    BY DEF Active
  \* Steps that touch no process and mark nothing.
  <1>l. ASSUME UNCHANGED <<alloc, entries, running, alive>>,
               rec.pc \notin {"start", "mark"}
        PROVE  Lively'
    BY <1>4, <1>l DEF Lively, Active, Intact
  <1>n. ASSUME ~Checking', rec'.pc # "start" PROVE NoneDead'
    BY <1>n DEF NoneDead, Checking, AtTasks
  \* Steps outside the passes that create and stop.
  <1>s. ASSUME UNCHANGED alloc, rec.pc \notin {"create", "start", "mark"},
               rec'.pc \notin {"create", "start", "mark"}
        PROVE  Supplied'
    <2>1. Active' = Active
      BY <1>s DEF Active
    <2>2. QED
      BY <1>4, <1>s, <2>1 DEF Supplied, Stocked
  <1>6. ASSUME BeginTick PROVE Lively' /\ NoneDead' /\ Supplied'
    <2>1. rec.pc = "idle" /\ Check({}) /\ UNCHANGED <<alloc, entries, running, alive>>
      BY <1>6 DEF BeginTick
    <2>2. ASSUME NEW a \in entries, alloc[a].state = "Running"
          PROVE  running[a] # {} /\ running[a] \subseteq alive
      <3>1. Intact(a)
        BY <1>0, <1>4, <1>a, <2>1, <2>2 DEF Lively
      <3>2. 1 \in Tasks
        BY Constants DEF Tasks
      <3>3. QED
        BY <3>1, <3>2 DEF Intact
    <2>3. rec'.pc = "health"
      BY <2>1, CheckEffect
    <2>4. \A a \in rec'.todo : a \in rec'.up /\ rec'.dead[a] = {}
      BY <2>1, <2>2, CalmCheck
    <2>5. NoneDead'
      BY <2>3, <2>4 DEF NoneDead, AtTasks
    <2>6. QED
      BY <1>l, <1>s, <2>1, <2>3, <2>5
  <1>7. ASSUME NEW a \in Ids, BeginAllocation(a) PROVE Lively' /\ NoneDead' /\ Supplied'
    <2>1. /\ rec.pc = "health" /\ a \in rec.todo /\ rec'.pc = "tasks"
          /\ rec'.todo = rec.todo \ {a} /\ rec'.up = rec.up \ {a}
          /\ \A b \in rec'.todo : rec'.dead[b] = rec.dead[b]
          /\ rec'.left \subseteq rec.dead[a]
          /\ rec'.allDead => a \notin rec.up
          /\ UNCHANGED <<alloc, entries, running, alive>>
      BY <1>7, BeginAllocationEffect
    <2>2. \A b \in rec.todo : b \in rec.up /\ rec.dead[b] = {}
      BY <1>4, <2>1 DEF NoneDead, Checking
    <2>3. NoneDead'
      BY <2>1, <2>2 DEF NoneDead
    <2>4. QED
      BY <1>l, <1>s, <2>1, <2>3
  <1>8. ASSUME NEW t \in Tasks, RestartTask(t) PROVE FALSE
    <2>1. AtTasks /\ t \in rec.left
      BY <1>8, RestartTaskEffect DEF AtTasks
    <2>2. QED
      BY <1>4, <2>1 DEF NoneDead
  <1>9. ASSUME RestartStarts \/ RecordRestart PROVE FALSE
    <2>1. rec.pc \in {"restart", "record"}
      BY <1>9 DEF RestartStarts, RecordRestart
    <2>2. QED
      BY <1>4, <2>1 DEF NoneDead, AtTasks
  <1>10. ASSUME EndAllocation PROVE Lively' /\ NoneDead' /\ Supplied'
    <2>1. /\ rec.pc = "tasks" /\ rec'.pc = "health"
          /\ rec'.todo = rec.todo /\ rec'.dead = rec.dead /\ rec'.up = rec.up
          /\ alloc' = alloc \/ rec.allDead
          /\ UNCHANGED <<entries, running, alive>>
      BY <1>10, EndAllocationEffect
    <2>2. ~rec.allDead /\ \A b \in rec.todo : b \in rec.up /\ rec.dead[b] = {}
      BY <1>4, <2>1 DEF NoneDead, Checking, AtTasks
    <2>3. NoneDead'
      BY <2>1, <2>2 DEF NoneDead, AtTasks
    <2>4. QED
      BY <1>l, <1>s, <2>1, <2>2, <2>3
  <1>11. ASSUME ReconcileCount PROVE Lively' /\ NoneDead' /\ Supplied'
    <2>1. rec.pc = "health" /\ UNCHANGED <<job, alloc, entries, running, alive>>
      BY <1>11 DEF ReconcileCount
    <2>2. /\ rec'.pc = "create" /\ rec'.pass = "count"
          /\ Cardinality(Active \ rec'.victims) + rec'.creates >= job.count
      BY <1>11, CountPlan
    <2>3. Doomed' = rec'.victims /\ Active' = Active
      BY <2>1, <2>2 DEF Doomed, Active
    <2>4. Supplied'
      BY <1>4, <2>1, <2>2, <2>3 DEF Supplied
    <2>5. QED
      BY <1>l, <1>n, <2>1, <2>2, <2>4 DEF Checking
  <1>n11. ASSUME NoReadyNode PROVE Lively' /\ NoneDead' /\ Supplied'
    <2>1. /\ rec.pc = "health" /\ rec'.pc = "drift"
          /\ UNCHANGED <<alloc, entries, running, alive>>
      BY <1>n11 DEF NoReadyNode, IdleTick
    <2>2. QED
      BY <1>l, <1>n, <1>s, <2>1 DEF Checking
  <1>12. ASSUME PutAllocation PROVE Lively' /\ NoneDead' /\ Supplied'
    <2>1. /\ rec.pc = "create" /\ rec'.pc = "start" /\ rec'.cur = NextId
          /\ NextId \in Ids /\ Put /\ rec'.held = rec.held
          /\ UNCHANGED <<entries, running, alive>>
      BY <1>12, PutAllocationEffect
    <2>2. /\ rec.creates > 0 /\ rec'.creates = rec.creates - 1
          /\ rec'.victims = rec.victims /\ rec'.pass = rec.pass /\ UNCHANGED job
      BY <1>12, PlanEffect DEF PutAllocation
    <2>3. PICK c \in Ids : c = NextId
      BY <2>1
    <2>4. /\ alloc[c].state = "None" /\ alloc'[c].state = "Pending"
          /\ \A a \in Ids \ {c} : alloc'[a] = alloc[a]
      BY <1>5, <2>1, <2>3, PutEffect
    <2>5. Active' = Active \cup {c} /\ c \notin Active
      BY <2>4 DEF Active
    <2>6. c \notin rec.victims
      BY <1>5, <2>4 DEF Chosen
    <2>7. Lively'
      <3>1. SUFFICES ASSUME NEW a \in Active', a # c PROVE Intact(a)'
        BY <2>1, <2>3 DEF Lively
      <3>2. Intact(a) /\ a \in Ids
        BY <1>4, <1>a, <2>1, <2>5, <3>1 DEF Lively
      <3>3. QED
        BY <2>1, <2>4, <3>1, <3>2 DEF Intact
    <2>8. NoneDead'
      <3>1. rec.held = {}
        BY <1>5, <2>1 DEF InHand
      <3>2. QED
        BY <2>1, <3>1 DEF NoneDead, Checking, AtTasks
    <2>9. Supplied'
      <3>1. Doomed = rec.victims /\ Doomed' = rec.victims
        BY <2>1, <2>2 DEF Doomed
      <3>2. PICK K \in SUBSET Ids : K = Active \ rec.victims
        BY <1>a
      <3>3. Active' \ rec.victims = K \cup {c} /\ c \notin K
        BY <2>5, <2>6, <3>2
      <3>4. IsFiniteSet(K) /\ Cardinality(K) \in Nat
        BY IdSets
      <3>5. Cardinality(K \cup {c}) = Cardinality(K) + 1
        BY <3>3, <3>4, FS_AddElement
      <3>6. PICK n \in Counts : Cardinality(K) + rec.creates >= n
        BY <1>4, <2>1, <2>2, <3>1, <3>2 DEF Supplied
      <3>7. Cardinality(Active' \ rec.victims) + rec'.creates >= n
        <4>1. PICK k \in Nat, r \in Nat : k = Cardinality(K) /\ r = rec.creates
          BY <1>0, <3>4
        <4>2. Cardinality(Active' \ rec.victims) = k + 1 /\ rec'.creates = r - 1
          BY <2>2, <3>3, <3>5, <4>1
        <4>3. k + r >= n /\ n \in Nat
          BY <3>6, <4>1, Constants
        <4>4. k + 1 + (r - 1) >= n
          BY <4>3
        <4>5. QED
          BY <4>2, <4>4
      <3>8. QED
        BY <2>1, <2>2, <3>1, <3>6, <3>7 DEF Supplied
    <2>10. QED
      BY <2>7, <2>8, <2>9
  <1>13. ASSUME StartTask PROVE Lively' /\ NoneDead' /\ Supplied'
    <2>1. /\ rec.pc = "start" /\ rec.cur \in Ids /\ rec'.pc = "start"
          /\ Cardinality(rec.held) \in Nat /\ Cardinality(rec.held) + 1 \in Tasks
          /\ Launch(rec.cur, Cardinality(rec.held) + 1)
          /\ UNCHANGED <<alloc, entries, running>>
      BY <1>13, StartTaskEffect
    <2>2. PICK c \in Ids, t \in Tasks : c = rec.cur /\ t = Cardinality(rec.held) + 1
      BY <2>1
    <2>3. PICK p : p = <<c, t, started[c][t] + 1>>
      OBVIOUS
    <2>4. /\ alive' = alive \cup {p} /\ rec'.held = rec.held \cup {p}
          /\ rec'.cur = rec.cur
      BY <2>1, <2>2, <2>3, LaunchEffect
    <2>5. /\ rec'.creates = rec.creates /\ rec'.victims = rec.victims
          /\ rec'.pass = rec.pass /\ UNCHANGED job
      BY <1>13, <2>1, PlanEffect DEF StartTask
    <2>6. Lively'
      BY <1>4, <2>1, <2>4 DEF Lively, Active, Intact
    <2>7. NoneDead'
      BY <1>4, <2>1, <2>4 DEF NoneDead, Checking, AtTasks
    <2>8. Active' = Active /\ Doomed' = Doomed
      BY <2>1, <2>5 DEF Active, Doomed
    <2>9. Supplied'
      BY <1>4, <2>1, <2>5, <2>8 DEF Supplied
    <2>10. QED
      BY <2>6, <2>7, <2>9
  <1>14. ASSUME FinishStart PROVE Lively' /\ NoneDead' /\ Supplied'
    <2>1. /\ rec.pc = "start" /\ rec.cur \in Ids /\ Cardinality(rec.held) = NTasks
          /\ alloc' = [alloc EXCEPT ![rec.cur].state = "Running"]
          /\ entries' = entries \cup {rec.cur}
          /\ running' = [running EXCEPT ![rec.cur] = rec.held]
          /\ EndStart /\ UNCHANGED <<job, alive>>
      BY <1>14 DEF FinishStart, Shape, Position
    <2>2. PICK c \in Ids : c = rec.cur
      BY <2>1
    <2>3. /\ rec'.pc = "create" /\ rec'.creates = rec.creates
          /\ rec'.victims = rec.victims /\ rec'.pass = rec.pass
      BY <2>1, PlanEffect
    <2>4. /\ running'[c] = rec.held /\ alloc'[c].state = "Running"
          /\ \A b \in Ids \ {c} : running'[b] = running[b] /\ alloc'[b] = alloc[b]
      BY <1>0, <2>1, <2>2 DEF AllocationRecord
    <2>5. alloc[c].state = "Pending" /\ rec.held = {<<c, t, 1>> : t \in Tasks}
      BY <1>5, <2>1, <2>2 DEF InHand, Tasks
    <2>6. Intact(c)'
      <3>1. rec.held \subseteq alive
        BY <1>4, <2>1 DEF NoneDead
      <3>2. QED
        BY <2>1, <2>2, <2>4, <2>5, <3>1 DEF Intact
    <2>7. Active' = Active
      BY <2>4, <2>5 DEF Active
    <2>8. Lively'
      <3>1. SUFFICES ASSUME NEW a \in Active, a # c PROVE Intact(a)'
        BY <2>6, <2>7 DEF Lively
      <3>2. Intact(a) /\ a \in Ids
        BY <1>4, <1>a, <2>2, <3>1 DEF Lively
      <3>3. QED
        BY <2>1, <2>4, <3>1, <3>2 DEF Intact
    <2>9. Doomed' = Doomed
      BY <2>1, <2>3 DEF Doomed
    <2>10. Supplied'
      BY <1>4, <2>1, <2>3, <2>7, <2>9 DEF Supplied
    <2>11. QED
      BY <1>n, <2>3, <2>8, <2>10 DEF Checking
  <1>15. ASSUME NEW a \in Ids, StopTasks(a) PROVE Lively' /\ NoneDead' /\ Supplied'
    <2>1. /\ rec.pc = "create" /\ rec'.pc = "mark" /\ rec'.cur = a
          /\ entries' = entries \ {a} /\ running' = [running EXCEPT ![a] = {}]
          /\ alive' = alive \ running[a] /\ UNCHANGED alloc
      BY <1>4, <1>15, StopTasksEffect
    <2>2. /\ a \in rec.victims /\ rec.creates = 0 /\ rec'.creates = 0
          /\ rec'.pass = rec.pass /\ rec'.victims = rec.victims \ {a} /\ UNCHANGED job
      BY <1>15, PlanEffect DEF StopTasks
    <2>3. Active' = Active /\ Doomed = rec.victims /\ Doomed' = rec.victims
      BY <2>1, <2>2 DEF Active, Doomed
    <2>4. Lively'
      <3>1. SUFFICES ASSUME NEW b \in Active, b # a PROVE Intact(b)'
        BY <2>1, <2>3 DEF Lively
      <3>2. Intact(b) /\ b \in Ids
        BY <1>4, <1>a, <2>1, <3>1 DEF Lively
      <3>3. running'[b] = running[b]
        BY <1>0, <2>1, <3>1, <3>2
      <3>4. running[b] \cap running[a] = {}
        BY <1>5, <3>1, <3>2 DEF Births
      <3>5. running[b] \subseteq alive'
        BY <2>1, <3>2, <3>4 DEF Intact
      <3>6. QED
        BY <2>1, <3>1, <3>2, <3>3, <3>5 DEF Intact
    <2>5. Supplied'
      BY <1>4, <2>1, <2>2, <2>3 DEF Supplied
    <2>6. QED
      BY <1>n, <2>1, <2>4, <2>5 DEF Checking
  <1>16. ASSUME MarkComplete PROVE Lively' /\ NoneDead' /\ Supplied'
    <2>1. /\ rec.pc = "mark" /\ rec'.pc = "create" /\ rec.cur \in Ids
          /\ alloc' = [alloc EXCEPT ![rec.cur].state = "Complete"]
          /\ UNCHANGED <<entries, running, alive>>
      BY <1>16, MarkCompleteEffect
    <2>2. /\ rec'.creates = rec.creates /\ rec'.victims = rec.victims
          /\ rec'.pass = rec.pass /\ UNCHANGED job
      BY <1>16, PlanEffect DEF MarkComplete
    <2>3. PICK c \in Ids : c = rec.cur
      BY <2>1
    <2>4. alloc'[c].state = "Complete" /\ \A b \in Ids \ {c} : alloc'[b] = alloc[b]
      BY <1>0, <2>1, <2>3 DEF AllocationRecord
    <2>5. Active' = Active \ {c}
      BY <2>4 DEF Active
    <2>6. Doomed = rec.victims \cup {c} /\ Doomed' = rec.victims
      BY <2>1, <2>2, <2>3 DEF Doomed
    <2>7. Active' \ Doomed' = Active \ Doomed
      BY <2>5, <2>6
    <2>e. Active = {} => Active' = {}
      BY <2>5
    <2>8. Supplied'
      <3>1. rec'.pc \notin {"start", "mark"} /\ rec'.pc = "create"
        BY <2>1
      <3>2. \/ /\ Active' \ Doomed' = {} /\ rec'.creates = 0
               /\ rec'.pass = "nodeless" \/ Active' = {}
            \/ \E k \in Counts : Cardinality(Active' \ Doomed') + rec'.creates >= k
        BY <1>4, <2>1, <2>2, <2>7, <2>e DEF Supplied
      <3>3. QED
        BY <3>1, <3>2 DEF Supplied
    <2>9. Lively'
      BY <1>4, <1>a, <2>1, <2>3, <2>4, <2>5 DEF Lively, Intact
    <2>10. QED
      BY <1>n, <2>1, <2>8, <2>9 DEF Checking
  <1>17. ASSUME EndPass PROVE Lively' /\ NoneDead' /\ Supplied'
    <2>1. /\ rec.pc = "create" /\ rec.creates = 0 /\ rec.victims = {}
          /\ UNCHANGED <<job, alloc, entries, running, alive>>
      BY <1>17 DEF EndPass, Replaced
    <2>2. rec'.pc = IF rec.pass = "count" THEN "drift" ELSE "idle"
      BY <1>17, IdleType DEF EndPass, IdleTick
    <2>3. Active \ Doomed = Active /\ Active' = Active
      BY <2>1 DEF Doomed, Active
    <2>4. Active = {} \/ \E c \in Counts : Cardinality(Active) + 0 >= c
      BY <1>4, <2>1, <2>3 DEF Supplied
    <2>5. Cardinality(Active) \in Nat
      BY <1>a, IdSets
    <2>6. Supplied'
      BY <2>1, <2>2, <2>3, <2>4, <2>5 DEF Supplied, Stocked
    <2>7. QED
      BY <1>l, <1>n, <2>1, <2>2, <2>6 DEF Checking
  <1>18. ASSUME NoDrift PROVE Lively' /\ NoneDead' /\ Supplied'
    <2>1. rec.pc = "drift" /\ UNCHANGED <<alloc, entries, running, alive>> /\ rec'.pc = "idle"
      BY <1>18, IdleType DEF NoDrift
    <2>2. QED
      BY <1>l, <1>n, <1>s, <2>1 DEF Checking
  <1>19. ASSUME RollingUpdate PROVE Lively' /\ NoneDead' /\ Supplied'
    <2>1. UNCHANGED <<alloc, entries, running, alive>>
      BY <1>19 DEF RollingUpdate
    <2>2. /\ rec.pc = "drift" /\ rec'.pc = "create" /\ rec'.pass = "drift"
          /\ Cardinality(Active \ rec'.victims) + rec'.creates = Cardinality(Active)
      BY <1>19, UpdatePlan
    <2>3. Doomed' = rec'.victims /\ Active' = Active
      BY <2>1, <2>2 DEF Doomed, Active
    <2>4. Stocked
      BY <1>4, <2>2 DEF Supplied
    <2>5. ASSUME Active = {} PROVE Supplied'
      <3>1. rec'.victims = {} /\ rec'.creates = Cardinality({})
        BY <1>19, <2>5, UpdatePlan
      <3>2. rec'.creates = 0
        BY <3>1, FS_EmptySet
      <3>3. QED
        BY <2>2, <2>3, <2>5, <3>2 DEF Supplied
    <2>6. ASSUME Active # {} PROVE Supplied'
      <3>1. PICK c \in Counts : Cardinality(Active) >= c
        BY <2>4, <2>6 DEF Stocked
      <3>2. Cardinality(Active' \ Doomed') + rec'.creates >= c
        BY <2>2, <2>3, <3>1
      <3>3. QED
        BY <2>2, <3>2 DEF Supplied
    <2>7. QED
      BY <1>l, <1>n, <2>1, <2>2, <2>5, <2>6 DEF Checking
  \* Without a node every active allocation is of an earlier version.
  <1>n19. ASSUME UpdateWithoutNode PROVE Lively' /\ NoneDead' /\ Supplied'
    <2>1. /\ rec.pc = "drift" /\ rec'.pc = "create" /\ rec'.pass = "nodeless"
          /\ rec'.creates = 0 /\ rec'.victims = Old
          /\ UNCHANGED <<alloc, entries, running, alive>>
      BY <1>n19 DEF UpdateWithoutNode, IdleTick
    <2>2. Doomed' = rec'.victims /\ Active' = Active
      BY <2>1 DEF Doomed, Active
    <2>3. Active \ Old = {}
      <3>1. job.version \in Nat /\ job'.version = job.version + 1
        BY <1>n19 DEF Shape, TypeOK, UpdateWithoutNode, UpdateJob
      <3>2. SUFFICES ASSUME NEW a \in Active PROVE alloc[a].version < job'.version
        BY DEF Old
      <3>3. a \in Ids /\ alloc[a].version \in Nat
        BY <1>0, <1>a DEF AllocationRecord
      <3>4. alloc[a].version <= job.version
        BY <3>3 DEF Whole, Versions
      <3>5. QED
        BY <3>1, <3>3, <3>4
    <2>4. Supplied'
      BY <2>1, <2>2, <2>3 DEF Supplied
    <2>5. QED
      BY <1>l, <1>n, <2>1, <2>4 DEF Checking
  <1>20. ASSUME Outside PROVE Lively' /\ NoneDead' /\ Supplied'
    <2>1. UNCHANGED <<job, alloc, entries, running, alive, rec>>
      BY <1>20 DEF Outside, EditFlake, NodeReady, NodeDrains, vars
    <2>2. Active' = Active /\ Doomed' = Doomed
      BY <2>1 DEF Active, Doomed
    <2>3. Lively'
      BY <1>4, <2>1, <2>2 DEF Lively, Intact
    <2>4. NoneDead'
      BY <1>4, <2>1 DEF NoneDead, Checking, AtTasks
    <2>5. Supplied'
      BY <1>4, <2>1, <2>2 DEF Supplied, Stocked
    <2>6. QED
      BY <2>3, <2>4, <2>5
  <1>21. QED
    BY <1>3, <1>4, <1>6, <1>7, <1>8, <1>9, <1>10, <1>11, <1>12, <1>13, <1>14, <1>15, <1>16,
       <1>17, <1>18, <1>19, <1>20, <1>n11, <1>n19
    DEF ReconcilerNext


\* A calm step leaves every allocation up, or stops one while those that stay
\* are up and as many as some count of the flake.
LEMMA CapacityStep ==
    ASSUME Shape, Shape', Books, NoStray, Whole, Whole', [Next]_vars, Calm',
           rec.pass # "nodeless"
    PROVE  \/ Up \subseteq Up'
           \/ /\ Active \ Doomed \subseteq Up'
              /\ \E c \in Counts : Cardinality(Active \ Doomed) >= c
  <1>0. /\ alloc \in [Ids -> AllocationRecord] /\ entries \subseteq Ids
        /\ running \in [Ids -> SUBSET Instances] /\ alive \subseteq Instances
        /\ rec.creates \in Nat
    BY Fields DEF Shape, TypeOK
  <1>3. /\ Calm /\ hurt' = hurt
        /\ ReconcilerNext \/ Outside
    BY CalmStep
  <1>4. hurt = {} /\ Lively /\ NoneDead /\ Supplied /\ Lively'
    BY <1>3 DEF Whole
  <1>5. Numbered /\ Births /\ InHealth /\ InHand /\ Chosen
    BY DEF Books
  <1>6. Judged
    BY <1>4 DEF NoStray
  <1>k. ASSUME alive \subseteq alive', alive' \subseteq Instances,
               \A a \in Up : alloc'[a].state = "Running"
        PROVE  Up \subseteq Up'
    <2>1. SUFFICES ASSUME NEW a \in Up PROVE Tasks = TaskNames({i \in alive' : i[1] = a})
      BY <1>k DEF Up
    <2>2. TaskNames({i \in alive : i[1] = a}) = Tasks
      BY DEF Up
    <2>3. TaskNames({i \in alive : i[1] = a}) \subseteq TaskNames({i \in alive' : i[1] = a})
      BY <1>k DEF TaskNames
    <2>4. TaskNames({i \in alive' : i[1] = a}) \subseteq Tasks
      BY <1>k DEF TaskNames, Instances
    <2>5. QED
      BY <2>2, <2>3, <2>4
  <1>b. alive' \subseteq Instances
    BY DEF Shape, TypeOK
  <1>u. \A a \in Up : a \in Ids /\ alloc[a].state = "Running"
    BY DEF Up
  <1>7. ASSUME UNCHANGED <<alloc, alive>> PROVE Up \subseteq Up'
    BY <1>b, <1>k, <1>u, <1>7
  <1>8. ASSUME \/ BeginTick \/ (\E a \in Ids : BeginAllocation(a))
               \/ ReconcileCount \/ NoReadyNode \/ EndPass \/ NoDrift \/ RollingUpdate
               \/ UpdateWithoutNode \/ Outside
        PROVE  Up \subseteq Up'
    <2>1. UNCHANGED <<alloc, alive>>
      BY <1>8 DEF BeginTick, BeginAllocation, ReconcileCount, NoReadyNode, EndPass, NoDrift,
                  RollingUpdate, UpdateWithoutNode, Outside, EditFlake, NodeReady,
                  NodeDrains, vars
    <2>2. QED
      BY <1>7, <2>1
  <1>9. ASSUME (\E t \in Tasks : RestartTask(t)) \/ RestartStarts \/ RecordRestart PROVE FALSE
    <2>1. AtTasks /\ (rec.left # {} \/ rec.pc # "tasks")
      BY <1>9 DEF RestartTask, RestartStarts, RecordRestart, AtTasks
    <2>2. QED
      BY <1>4, <2>1 DEF NoneDead
  <1>10. ASSUME EndAllocation PROVE Up \subseteq Up'
    <2>1. rec.pc = "tasks" /\ (alloc' = alloc \/ rec.allDead) /\ UNCHANGED alive
      BY <1>10, EndAllocationEffect
    <2>2. UNCHANGED alloc
      BY <1>4, <2>1 DEF NoneDead, AtTasks
    <2>3. QED
      BY <1>7, <2>1, <2>2
  <1>11. ASSUME PutAllocation PROVE Up \subseteq Up'
    <2>1. NextId \in Ids /\ Put /\ UNCHANGED alive
      BY <1>11, PutAllocationEffect
    <2>2. PICK c \in Ids : c = NextId
      BY <2>1
    <2>3. alloc[c].state = "None" /\ \A a \in Ids \ {c} : alloc'[a] = alloc[a]
      BY <1>5, <2>1, <2>2, PutEffect
    <2>4. \A a \in Up : alloc'[a].state = "Running"
      BY <1>u, <2>3
    <2>5. QED
      BY <1>b, <1>k, <2>1, <2>4
  <1>12. ASSUME StartTask PROVE Up \subseteq Up'
    <2>1. alive \subseteq alive' /\ UNCHANGED alloc
      BY <1>12 DEF StartTask, Launch
    <2>2. QED
      BY <1>b, <1>k, <1>u, <2>1
  <1>13. ASSUME FinishStart PROVE Up \subseteq Up'
    <2>1. alloc' = [alloc EXCEPT ![rec.cur].state = "Running"] /\ UNCHANGED alive
      BY <1>13 DEF FinishStart
    <2>2. \A a \in Ids : alloc[a].state = "Running" => alloc'[a].state = "Running"
      BY <1>0, <2>1 DEF AllocationRecord
    <2>3. QED
      BY <1>b, <1>k, <1>u, <2>1, <2>2
  <1>14. ASSUME MarkComplete PROVE Up \subseteq Up'
    <2>1. /\ rec.pc = "mark" /\ UNCHANGED alive
          /\ alloc' = [alloc EXCEPT ![rec.cur].state = "Complete"]
      BY <1>14, MarkCompleteEffect
    <2>2. \A i \in alive : i[1] # rec.cur
      BY <1>6, <2>1 DEF Judged
    <2>3. rec.cur \notin Up
      <3>1. SUFFICES ASSUME rec.cur \in Up PROVE FALSE
        OBVIOUS
      <3>2. {i \in alive : i[1] = rec.cur} = {}
        BY <2>2
      <3>3. TaskNames({}) = {}
        BY DEF TaskNames
      <3>4. 1 \in Tasks
        BY Constants DEF Tasks
      <3>5. QED
        BY <3>1, <3>2, <3>3, <3>4 DEF Up
    <2>4. \A a \in Ids : a # rec.cur => alloc'[a] = alloc[a]
      BY <1>0, <2>1
    <2>5. QED
      BY <1>b, <1>k, <1>u, <2>1, <2>3, <2>4
  <1>15. ASSUME NEW a \in Ids, StopTasks(a)
         PROVE  \/ Up \subseteq Up'
                \/ /\ Active \ Doomed \subseteq Up'
                   /\ \E c \in Counts : Cardinality(Active \ Doomed) >= c
    <2>1. /\ rec.pc = "create" /\ rec'.pc = "mark" /\ rec'.cur = a /\ UNCHANGED alloc
      BY <1>15, StopTasksEffect
    <2>2. a \in rec.victims /\ rec.creates = 0
      BY <1>15, PlanEffect
    <2>3. Active' = Active /\ Doomed = rec.victims /\ Active \subseteq Ids
      BY <2>1 DEF Active, Doomed
    <2>4. ASSUME NEW b \in Active \ Doomed PROVE b \in Up'
      <3>1. b \in Ids /\ Intact(b)'
        BY <1>4, <2>1, <2>2, <2>3 DEF Lively
      <3>2. Tasks \subseteq TaskNames({i \in alive' : i[1] = b})
        <4>1. ASSUME NEW t \in Tasks PROVE t \in TaskNames({i \in alive' : i[1] = b})
          <5>1. <<b, t, 1>> \in alive'
            BY <3>1 DEF Intact
          <5>2. QED
            BY <5>1 DEF TaskNames
        <4>2. QED
          BY <4>1
      <3>3. TaskNames({i \in alive' : i[1] = b}) \subseteq Tasks
        BY <1>b DEF TaskNames, Instances
      <3>4. alloc'[b].state = "Running"
        BY <3>1 DEF Intact
      <3>5. QED
        BY <3>1, <3>2, <3>3, <3>4 DEF Up
    <2>5. CASE Active = {}
      BY <2>5 DEF Up, Active
    <2>6. CASE Active # {}
      <3>1. PICK c \in Counts : Cardinality(Active \ Doomed) + rec.creates >= c
        BY <1>4, <2>1, <2>6 DEF Supplied
      <3>2. Cardinality(Active \ Doomed) \in Nat
        BY <2>3, IdSets
      <3>3. Cardinality(Active \ Doomed) >= c
        BY <2>2, <3>1, <3>2
      <3>4. QED
        BY <2>4, <3>3
    <2>7. QED
      BY <2>5, <2>6
  <1>16. QED
    BY <1>3, <1>8, <1>9, <1>10, <1>11, <1>12, <1>13, <1>14, <1>15 DEF ReconcilerNext

\* While no task exits and no call fails, no step takes the allocations that
\* run all their tasks below the smallest count that the flake gives, but for
\* those of an update that finds no ready node; whatever the node did before.
THEOREM CapacityIsKept == Spec => CapacityKept
  <1>1. Init => Shape /\ Books /\ NoStray /\ Whole
    <2>1. Init => NoStray
      BY IdleType DEF Init, NoStray, AtWork, Tended, Judged, Checking, AtTasks
    <2>2. Init => Whole
      <3>1. SUFFICES ASSUME Init PROVE Whole
        OBVIOUS
      <3>2. Active = {}
        BY <3>1 DEF Init, Active, NoAllocation
      <3>3. rec.pc = "idle"
        BY <3>1, IdleType DEF Init
      <3>4. Lively /\ NoneDead /\ Supplied
        BY <3>2, <3>3 DEF Lively, NoneDead, Supplied, Stocked, Checking, AtTasks
      <3>5. job.count \in Counts /\ hurt = {} /\ Versions
        BY <3>1 DEF Init, Versions, NoAllocation
      <3>6. QED
        BY <3>4, <3>5 DEF Whole
    <2>3. QED
      BY <2>1, <2>2, InitShape, InitBooks
  <1>2. Shape /\ [Next]_vars => Shape'
    BY NextShape
  <1>3. Shape /\ Shape' /\ Books /\ [Next]_vars => Books'
    BY NextBooks
  <1>4. Shape /\ Shape' /\ Books /\ NoStray /\ [Next]_vars => NoStray'
    BY NextNoStray
  <1>5. Shape /\ Shape' /\ Books /\ Whole /\ [Next]_vars => Whole'
    BY NextWhole
  <1>6. ASSUME Shape, Shape', Books, NoStray, Whole, Whole', [Next]_vars,
               budget'.exits + budget'.faults = 0, rec.pass # "nodeless"
        PROVE  Cardinality(Up') >= Min({Cardinality(Up)} \cup Counts)
    <2>1. budget'.exits \in Nat /\ budget'.faults \in Nat
      BY <1>6 DEF Shape, TypeOK
    <2>2. Calm'
      BY <1>6, <2>1 DEF Calm
    <2>3. PICK U \in SUBSET Ids, V \in SUBSET Ids, W \in SUBSET Ids :
                  U = Up /\ V = Up' /\ W = Active \ Doomed
      BY DEF Up, Active
    <2>4. /\ Cardinality(U) \in Nat /\ Cardinality(V) \in Nat /\ Cardinality(W) \in Nat
      BY IdSets
    <2>5. PICK S \in SUBSET Nat : S = {Cardinality(U)} \cup Counts
      BY <2>4, Constants
    <2>6. \A m \in S : Min(S) \in Nat /\ Min(S) <= m
      BY <2>5, MinBound
    <2>7. \E m \in S : Cardinality(V) >= m
      <3>1. CASE U \subseteq V
        <4>1. Cardinality(U) <= Cardinality(V)
          BY <3>1, CountMonotone
        <4>2. QED
          BY <2>4, <2>5, <4>1
      <3>2. CASE W \subseteq V /\ \E c \in Counts : Cardinality(W) >= c
        <4>1. Cardinality(W) <= Cardinality(V)
          BY <3>2, CountMonotone
        <4>2. PICK c \in Counts : Cardinality(W) >= c
          BY <3>2
        <4>3. Cardinality(V) >= c /\ c \in S
          BY <2>4, <2>5, <4>1, <4>2, Constants
        <4>4. QED
          BY <4>3
      <3>3. QED
        BY <1>6, <2>2, <2>3, <3>1, <3>2, CapacityStep
    <2>8. Cardinality(V) >= Min(S)
      BY <2>4, <2>5, <2>6, <2>7
    <2>9. QED
      BY <2>3, <2>5, <2>8
  <1>7. Shape /\ Shape' /\ Books /\ NoStray /\ Whole /\ Whole' /\ [Next]_vars =>
           [budget'.exits + budget'.faults = 0 /\ rec.pass # "nodeless" =>
               Cardinality(Up') >= Min({Cardinality(Up)} \cup Counts)]_vars
    BY <1>6
  <1>8. QED
    BY <1>1, <1>2, <1>3, <1>4, <1>5, <1>7, PTL DEF Spec, CapacityKept
=============================================================================
