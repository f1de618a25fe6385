---------------------- MODULE ClusterSchedulingProofs ----------------------
(***************************************************************************)
(* Theorems about ClusterScheduling, for any cluster, any jobs and any     *)
(* number of operations and faults.                                        *)
(***************************************************************************)
EXTENDS ClusterScheduling, FiniteSetTheorems, TLAPS

-----------------------------------------------------------------------------
(* Induction.  The library's theorem takes a predicate as its parameter;   *)
(* this one takes the set of the numbers that satisfy it, and rests on the *)
(* well-foundedness of inclusion between the sets 0..n.                    *)

\* A set with 0 that is closed under successor contains every number.
LEMMA NatSetInduction ==
    ASSUME NEW S, 0 \in S, \A n \in Nat : n \in S => n + 1 \in S
    PROVE  Nat \subseteq S
  <1>1. SUFFICES ASSUME NEW m \in Nat, m \notin S PROVE FALSE
    OBVIOUS
  <1> DEFINE T == {0..n : n \in Nat \ S}
             R == StrictSubsetOrdering(Nat)
  <1>2. T \subseteq FiniteSubsetsOf(Nat)
    <2>1. SUFFICES ASSUME NEW n \in Nat PROVE 0..n \in FiniteSubsetsOf(Nat)
      OBVIOUS
    <2>2. IsFiniteSet(0..n)
      BY FS_Interval
    <2>3. QED
      BY <2>2 DEF FiniteSubsetsOf
  <1>3. T # {}
    BY <1>1
  <1>4. IsWellFoundedOn(R, FiniteSubsetsOf(Nat))
    BY FS_StrictSubsetOrderingWellFounded
  <1>5. PICK x \in T : \A y \in T : ~(<<y, x>> \in R)
    <2> HIDE DEF T, R
    <2>1. QED
      BY <1>2, <1>3, <1>4, WFMin
  <1>6. PICK n \in Nat \ S : x = 0..n
    OBVIOUS
  <1>7. n # 0 /\ n - 1 \in Nat
    BY <1>6
  <1>8. n - 1 \notin S
    BY <1>6, <1>7
  <1>9. 0..(n - 1) \in T
    BY <1>7, <1>8
  <1>10. <<0..(n - 1), x>> \in R
    <2>1. 0..(n - 1) \subseteq Nat /\ x \subseteq Nat
      BY <1>6
    <2>2. 0..(n - 1) \subseteq x
      BY <1>6
    <2>3. n \in x /\ n \notin 0..(n - 1)
      BY <1>6
    <2>4. QED
      BY <2>1, <2>2, <2>3 DEF StrictSubsetOrdering
  <1>11. QED
    BY <1>5, <1>9, <1>10

-----------------------------------------------------------------------------
(* Replay.                                                                 *)

\* The recursive definition of the states along the first n entries of s.
Along(h, s, n) ==
    h = [i \in 0..n |-> IF i = 0 THEN EmptyState ELSE ApplyCommand(h[i - 1], s[i])]

\* ReplayOf is the last of them.
LEMMA ReplayChoice ==
    ASSUME NEW s, NEW n
    PROVE  ReplayOf(s, n) = (CHOOSE h : Along(h, s, n))[n]
  BY DEF ReplayOf, Along

\* They exist.
LEMMA AlongExists ==
    ASSUME NEW s, NEW n \in Nat
    PROVE  \E h : Along(h, s, n)
  <1> DEFINE S == {m \in Nat : \E h : Along(h, s, m)}
  <1>1. 0 \in S
    <2>1. Along([i \in 0..0 |-> EmptyState], s, 0)
      BY DEF Along
    <2>2. QED
      BY <2>1
  <1>2. ASSUME NEW m \in Nat, m \in S PROVE m + 1 \in S
    <2>1. PICK h : Along(h, s, m)
      BY <1>2
    <2> DEFINE g == [i \in 0..(m + 1) |->
                        IF i = m + 1 THEN ApplyCommand(h[m], s[m + 1]) ELSE h[i]]
    <2>2. ASSUME NEW i \in 0..(m + 1)
          PROVE  g[i] = IF i = 0 THEN EmptyState ELSE ApplyCommand(g[i - 1], s[i])
      <3>1. CASE i = 0
        BY <2>1, <3>1 DEF Along
      <3>2. CASE i = m + 1
        BY <3>2
      <3>3. CASE i \in 1..m
        <4>1. g[i] = h[i] /\ g[i - 1] = h[i - 1]
          BY <3>3
        <4>2. h[i] = ApplyCommand(h[i - 1], s[i])
          BY <2>1, <3>3 DEF Along
        <4>3. QED
          BY <3>3, <4>1, <4>2
      <3>4. QED
        BY <3>1, <3>2, <3>3
    <2>3. Along(g, s, m + 1)
      BY <2>2 DEF Along
    <2>4. QED
      BY <2>3
  <1>3. Nat \subseteq S
    <2> HIDE DEF S
    <2>1. QED
      BY <1>1, <1>2, NatSetInduction
  <1>4. QED
    BY <1>3

\* Two of them agree as far as their entries do.
LEMMA AlongAgree ==
    ASSUME NEW s, NEW t, NEW m \in Nat, NEW n \in Nat, NEW g, NEW h,
           Along(g, s, m), Along(h, t, n), m <= n,
           \A i \in 1..m : s[i] = t[i]
    PROVE  \A i \in 0..m : g[i] = h[i]
  <1> DEFINE S == {i \in Nat : i <= m => g[i] = h[i]}
  <1>1. 0 \in S
    BY DEF Along
  <1>2. ASSUME NEW i \in Nat, i \in S PROVE i + 1 \in S
    <2>1. SUFFICES ASSUME i + 1 <= m PROVE g[i + 1] = h[i + 1]
      OBVIOUS
    <2>2. g[i] = h[i] /\ s[i + 1] = t[i + 1]
      BY <1>2, <2>1
    <2>3. g[i + 1] = ApplyCommand(g[i], s[i + 1])
      BY <2>1 DEF Along
    <2>4. h[i + 1] = ApplyCommand(h[i], t[i + 1])
      BY <2>1 DEF Along
    <2>5. QED
      BY <2>2, <2>3, <2>4
  <1>3. Nat \subseteq S
    <2> HIDE DEF S
    <2>1. QED
      BY <1>1, <1>2, NatSetInduction
  <1>4. QED
    BY <1>3

\* Replay depends on the entries it replays only.
LEMMA ReplayPrefix ==
    ASSUME NEW s, NEW t, NEW n \in Nat, \A i \in 1..n : s[i] = t[i]
    PROVE  ReplayOf(s, n) = ReplayOf(t, n)
  <1> DEFINE g == CHOOSE h : Along(h, s, n)
             k == CHOOSE h : Along(h, t, n)
  <1>1. Along(g, s, n) /\ Along(k, t, n)
    BY AlongExists
  <1>2. g[n] = k[n]
    <2> HIDE DEF g, k
    <2>1. QED
      BY <1>1, AlongAgree
  <1>3. QED
    BY <1>2, ReplayChoice

\* Nothing replayed is the empty state; one entry more is one command more.
LEMMA ReplayStep ==
    /\ \A s : ReplayOf(s, 0) = EmptyState
    /\ \A s : \A n \in Nat :
          ReplayOf(s, n + 1) = ApplyCommand(ReplayOf(s, n), s[n + 1])
  <1>1. ASSUME NEW s PROVE ReplayOf(s, 0) = EmptyState
    <2> DEFINE g == CHOOSE h : Along(h, s, 0)
    <2>1. Along(g, s, 0)
      BY AlongExists
    <2>2. g[0] = EmptyState
      <3> HIDE DEF g
      <3>1. QED
        BY <2>1 DEF Along
    <2>3. QED
      BY <2>2, ReplayChoice
  <1>2. ASSUME NEW s, NEW n \in Nat
        PROVE  ReplayOf(s, n + 1) = ApplyCommand(ReplayOf(s, n), s[n + 1])
    <2> DEFINE g == CHOOSE h : Along(h, s, n)
               k == CHOOSE h : Along(h, s, n + 1)
    <2>1. Along(g, s, n) /\ Along(k, s, n + 1)
      BY AlongExists
    <2>2. g[n] = k[n] /\ k[n + 1] = ApplyCommand(k[n], s[n + 1])
      <3> HIDE DEF g, k
      <3>1. g[n] = k[n]
        BY <2>1, AlongAgree
      <3>2. QED
        BY <2>1, <3>1 DEF Along
    <2>3. QED
      BY <2>2, ReplayChoice
  <1>3. QED
    BY <1>1, <1>2

-----------------------------------------------------------------------------
(* The inductive invariant.                                                *)

SchedulerState(m) ==
    [pc : {"idle", "confirmed", "place", "marked"}, todo : SUBSET Jobs,
     job : Jobs \cup {None}, left : 0..Count, placed : BOOLEAN, wait : 0..m]

\* A log store ends no earlier than what was purged from it or applied from it.
Ordered == \A n \in Nodes : purged[n] <= stored[n] /\ applied[n] <= stored[n]

\* A scheduler that writes is at a job that it will not come to again.
InTurn == \A n \in Nodes :
    sched[n].pc \in {"place", "marked"} => sched[n].job \in Jobs \ sched[n].todo

\* What TypeOK needs to be inductive.
Shape == TypeOK /\ Ordered /\ InTurn

\* The facts about the constants, one by one.
LEMMA Constants ==
    /\ IsFiniteSet(Nodes) /\ Nodes # {}
    /\ Fits \subseteq Jobs /\ None \notin Nodes /\ None \notin Jobs
    /\ Count \in Nat /\ Count > 0
    /\ SnapshotEvery \in Nat /\ SnapshotEvery > 0
    /\ MaxOps \in Nat /\ MaxFaults \in Nat
  BY ClusterSchedulingAssumption DEF ClusterSchedulingAssumption

\* apply_command keeps a state a state.
LEMMA ApplyType ==
    ASSUME NEW state \in ClusterState, NEW c \in Command
    PROVE  ApplyCommand(state, c) \in ClusterState
  <1>1. /\ c.job \in Jobs
        /\ state.status \in [Jobs -> Statuses] /\ state.allocs \in [Jobs -> Nat]
    BY DEF ClusterState, Command
  <1>2. ASSUME NEW v \in Statuses
        PROVE  [state EXCEPT !.status[c.job] = v] \in ClusterState
    BY <1>1 DEF ClusterState
  <1>3. [state EXCEPT !.allocs[c.job] = @ + 1] \in ClusterState
    BY <1>1 DEF ClusterState
  <1>4. c.op \in {"Running", "Dead"} => c.op \in Statuses
    BY DEF Statuses
  <1>5. "Pending" \in Statuses
    BY DEF Statuses
  <1>6. QED
    BY <1>2, <1>3, <1>4, <1>5 DEF ApplyCommand

\* A command that is committed is the next entry of the log, and nodes store
\* no less than before.
LEMMA CommitEffect ==
    ASSUME TypeOK, NEW c \in Command, Commit(c)
    PROVE  /\ log' \in Seq(Command)
           /\ Len(log') = Len(log) + 1
           /\ \A i \in 1..Len(log) : log'[i] = log[i]
           /\ log'[Len(log) + 1] = c
           /\ stored' \in [Nodes -> 0..Len(log')]
           /\ \A n \in Nodes : stored[n] <= stored'[n]
  <1>1. log \in Seq(Command) /\ stored \in [Nodes -> 0..Len(log)] /\ Len(log) \in Nat
    BY DEF TypeOK
  <1>2. log' = Append(log, c)
    BY DEF Commit
  <1>3. /\ log' \in Seq(Command)
        /\ Len(log') = Len(log) + 1
        /\ \A i \in 1..Len(log) : log'[i] = log[i]
        /\ log'[Len(log) + 1] = c
    BY <1>1, <1>2
  <1>4. PICK Q \in SUBSET Nodes :
            stored' = [n \in Nodes |-> IF n \in Q THEN Len(log) + 1 ELSE stored[n]]
    BY DEF Commit
  <1>5. ASSUME NEW n \in Nodes
        PROVE  stored'[n] \in 0..(Len(log) + 1) /\ stored[n] <= stored'[n]
    BY <1>1, <1>4
  <1>6. stored' \in [Nodes -> 0..Len(log')]
    BY <1>3, <1>4, <1>5
  <1>7. QED
    BY <1>3, <1>5, <1>6

\* Between two jobs an evaluation ends, or it takes up a job that it still has
\* to do; no job comes in addition.
LEMMA TurnType ==
    ASSUME NEW n \in Nodes, sched \in [Nodes -> SchedulerState(Len(log))],
           Len(log) \in Nat, NEW todo \in SUBSET Jobs,
           NextTurn(n, todo, FALSE) \/ NextTurn(n, todo, TRUE)
    PROVE  \E turn \in SchedulerState(Len(log)) :
              /\ sched' = [sched EXCEPT ![n] = turn]
              /\ turn.pc \in {"idle", "place"}
              /\ turn.pc = "place" => turn.job \in todo \ turn.todo
              /\ turn.todo \subseteq todo
  <1> DEFINE Taken(j, placed) ==
        \E left \in 0..Count, skipped \in SUBSET todo :
           sched' = [sched EXCEPT ![n] =
                       Turn(j, left, todo \ (skipped \cup {j}), placed)]
  <1>0. ASSUME NEW j PROVE Placements(j) \subseteq 0..Count
    BY Constants DEF Placements
  <1>1. CASE sched' = [sched EXCEPT ![n] = IdleScheduler]
    <2>1. /\ IdleScheduler \in SchedulerState(Len(log))
          /\ IdleScheduler.pc = "idle" /\ IdleScheduler.todo = {}
      BY Constants DEF IdleScheduler, SchedulerState
    <2>2. QED
      BY <1>1, <2>1
  <1>2. CASE sched' # [sched EXCEPT ![n] = IdleScheduler]
    <2>0. \E j \in todo : \E placed \in BOOLEAN : Taken(j, placed)
      <3>1. CASE NextTurn(n, todo, FALSE)
        <4>1. \E j \in todo : Taken(j, FALSE)
          BY <1>0, <1>2, <3>1, Zenon DEF NextTurn, Writing
        <4>2. QED
          BY <4>1, Zenon
      <3>2. CASE NextTurn(n, todo, TRUE)
        <4>1. \E j \in todo : Taken(j, TRUE)
          BY <1>0, <1>2, <3>2, Zenon DEF NextTurn, Writing
        <4>2. QED
          BY <4>1, Zenon
      <3>3. QED
        BY <3>1, <3>2
    <2>1. PICK j \in todo : \E placed \in BOOLEAN : Taken(j, placed)
      BY <2>0
    <2>2. PICK left \in 0..Count, skipped \in SUBSET todo, placed \in BOOLEAN :
              sched' = [sched EXCEPT ![n] =
                          Turn(j, left, todo \ (skipped \cup {j}), placed)]
      BY <2>1, Zenon
    <2> DEFINE rest == todo \ (skipped \cup {j})
               turn == Turn(j, left, rest, placed)
    <2>3. j \in todo /\ rest \in SUBSET todo /\ j \notin rest
      BY DEF Writing
    <2>4. /\ turn \in SchedulerState(Len(log))
          /\ turn.pc = "place" /\ turn.job = j /\ turn.todo = rest
      BY <2>3, Constants DEF Turn, SchedulerState
    <2>5. sched' = [sched EXCEPT ![n] = turn]
      BY <2>2
    <2> HIDE DEF turn, rest
    <2>6. QED
      BY <2>3, <2>4, <2>5
  <1>3. QED
    BY <1>1, <1>2

\* The type invariant, with the scheduler's states under their name.
LEMMA Typed ==
    TypeOK <=>
      /\ log \in Seq(Command) /\ Len(log) \in Nat
      /\ stored \in [Nodes -> 0..Len(log)]
      /\ purged \in [Nodes -> 0..Len(log)]
      /\ applied \in [Nodes -> 0..Len(log)]
      /\ sm \in [Nodes -> ClusterState]
      /\ leader \in Nodes \cup {None}
      /\ sched \in [Nodes -> SchedulerState(Len(log))]
      /\ ops \in Nat /\ faults \in Nat
  BY DEF TypeOK, SchedulerState

\* A longer log keeps schedulers well typed.
LEMMA SchedulerGrows ==
    ASSUME NEW m \in Nat, NEW k \in Nat, m <= k
    PROVE  SchedulerState(m) \subseteq SchedulerState(k)
  <1>1. 0..m \subseteq 0..k
    OBVIOUS
  <1>2. QED
    BY <1>1 DEF SchedulerState

\* What the two writes of an evaluation do to the schedulers.
LEMMA PlacedTurn ==
    ASSUME NEW m \in Nat, NEW n \in Nodes, sched \in [Nodes -> SchedulerState(m)],
           sched[n].left > 0,
           sched' = [sched EXCEPT ![n].left = @ - 1, ![n].placed = TRUE,
                                  ![n].wait = m + 1]
    PROVE  /\ sched' \in [Nodes -> SchedulerState(m + 1)]
           /\ sched'[n].pc = sched[n].pc /\ sched'[n].todo = sched[n].todo
           /\ sched'[n].job = sched[n].job /\ sched'[n].left = sched[n].left - 1
           /\ \A k \in Nodes \ {n} : sched'[k] = sched[k]
  BY Constants DEF SchedulerState

\* The status write keeps the job and the list of the evaluation.
LEMMA MarkedTurn ==
    ASSUME NEW m \in Nat, NEW n \in Nodes, sched \in [Nodes -> SchedulerState(m)],
           sched' = [sched EXCEPT ![n].pc = "marked", ![n].wait = m + 1]
    PROVE  /\ sched' \in [Nodes -> SchedulerState(m + 1)]
           /\ sched'[n].pc = "marked" /\ sched'[n].todo = sched[n].todo
           /\ sched'[n].job = sched[n].job
           /\ \A k \in Nodes \ {n} : sched'[k] = sched[k]
  BY DEF SchedulerState

\* A write keeps the invariant.
LEMMA WriteShape ==
    ASSUME Shape, NEW c \in Command, Commit(c),
           sched' \in [Nodes -> SchedulerState(Len(log) + 1)], InTurn',
           UNCHANGED <<purged, sm, applied, leader>>,
           ops' \in Nat, faults' \in Nat
    PROVE  Shape'
  <1>1. /\ log' \in Seq(Command) /\ Len(log) \in Nat /\ Len(log') = Len(log) + 1
        /\ stored' \in [Nodes -> 0..Len(log')]
        /\ \A k \in Nodes : stored[k] <= stored'[k]
    BY CommitEffect, Typed DEF Shape
  <1>2. 0..Len(log) \subseteq 0..Len(log')
    BY <1>1
  <1>3. sched' \in [Nodes -> SchedulerState(Len(log'))]
    BY <1>1
  <1>4. /\ purged' \in [Nodes -> 0..Len(log')] /\ applied' \in [Nodes -> 0..Len(log')]
        /\ sm' \in [Nodes -> ClusterState] /\ leader' \in Nodes \cup {None}
    <2>1. /\ purged \in [Nodes -> 0..Len(log)] /\ applied \in [Nodes -> 0..Len(log)]
          /\ sm \in [Nodes -> ClusterState] /\ leader \in Nodes \cup {None}
      BY Typed DEF Shape
    <2>2. QED
      BY <1>2, <2>1
  <1>5. TypeOK'
    BY <1>1, <1>3, <1>4 DEF TypeOK, SchedulerState
  <1>6. Ordered'
    <2>1. SUFFICES ASSUME NEW k \in Nodes
                   PROVE  purged[k] <= stored'[k] /\ applied[k] <= stored'[k]
      BY DEF Ordered
    <2>2. purged[k] <= stored[k] /\ applied[k] <= stored[k] /\ stored[k] <= stored'[k]
      BY <1>1 DEF Shape, Ordered
    <2>3. /\ purged[k] \in Int /\ applied[k] \in Int /\ stored[k] \in Int
          /\ stored'[k] \in Int
      BY <1>1, Typed DEF Shape
    <2>4. QED
      BY <2>2, <2>3
  <1>7. QED
    BY <1>5, <1>6 DEF Shape

\* A step of scheduler n that writes nothing keeps the invariant.
LEMMA StepShape ==
    ASSUME Shape, NEW n \in Nodes, NEW turn \in SchedulerState(Len(log)),
           sched' = [sched EXCEPT ![n] = turn],
           turn.pc \in {"place", "marked"} => turn.job \in Jobs \ turn.todo,
           UNCHANGED <<log, stored, purged, sm, applied, leader>>,
           ops' \in Nat, faults' \in Nat
    PROVE  Shape'
  <1>1. sched' \in [Nodes -> SchedulerState(Len(log))]
    BY Typed DEF Shape
  <1>2. TypeOK'
    BY <1>1, Typed DEF Shape, TypeOK, SchedulerState
  <1>3. Ordered'
    BY DEF Shape, Ordered
  <1>4. InTurn'
    BY Typed DEF Shape, InTurn
  <1>5. QED
    BY <1>2, <1>3, <1>4 DEF Shape

\* The invariant holds initially.
LEMMA InitShape == Init => Shape
  <1>1. SUFFICES ASSUME Init PROVE Shape
    OBVIOUS
  <1>2. EmptyState \in ClusterState
    BY DEF EmptyState, ClusterState, Statuses
  <1>3. IdleScheduler \in SchedulerState(0) /\ IdleScheduler.pc = "idle"
    BY Constants DEF IdleScheduler, SchedulerState
  <1>4. log \in Seq(Command) /\ Len(log) = 0
    BY <1>1 DEF Init
  <1>5. leader \in Nodes
    BY <1>1, Constants DEF Init
  <1>6. TypeOK
    BY <1>1, <1>2, <1>3, <1>4, <1>5, Typed DEF Init
  <1>7. Ordered /\ InTurn
    BY <1>1, <1>3 DEF Init, Ordered, InTurn
  <1>8. QED
    BY <1>6, <1>7 DEF Shape

\* Every step keeps it.
LEMMA NextShape ==
    ASSUME Shape, [Next]_vars
    PROVE  Shape'
  <1>0. /\ log \in Seq(Command) /\ Len(log) \in Nat
        /\ stored \in [Nodes -> 0..Len(log)] /\ purged \in [Nodes -> 0..Len(log)]
        /\ applied \in [Nodes -> 0..Len(log)] /\ sm \in [Nodes -> ClusterState]
        /\ leader \in Nodes \cup {None}
        /\ sched \in [Nodes -> SchedulerState(Len(log))]
        /\ ops \in Nat /\ faults \in Nat
        /\ \A n \in Nodes : purged[n] <= stored[n] /\ applied[n] <= stored[n]
    BY Typed DEF Shape, Ordered
  <1>i. IdleScheduler \in SchedulerState(Len(log)) /\ IdleScheduler.pc = "idle"
    BY <1>0, Constants DEF IdleScheduler, SchedulerState
  <1>f. Fault => faults' \in Nat
    BY <1>0 DEF Fault
  <1>1. ASSUME NEW n \in Nodes, Replicate(n) PROVE Shape'
    <2>1. stored[n] + 1 \in 0..Len(log)
      BY <1>0, <1>1 DEF Replicate
    <2>2. stored' \in [Nodes -> 0..Len(log)]
      BY <1>0, <1>1, <2>1 DEF Replicate
    <2>3. \A k \in Nodes : stored[k] <= stored'[k]
      BY <1>0, <1>1 DEF Replicate
    <2>4. QED
      BY <1>0, <1>1, <2>2, <2>3 DEF Replicate, Shape, TypeOK, Ordered, InTurn
  <1>2. ASSUME NEW n \in Nodes, Apply(n) PROVE Shape'
    <2>1. applied[n] + 1 \in 0..Len(log) /\ applied[n] + 1 <= stored[n]
      BY <1>0, <1>2 DEF Apply
    <2>2. log[applied[n] + 1] \in Command
      BY <1>0, <2>1
    <2>3. ApplyCommand(sm[n], log[applied[n] + 1]) \in ClusterState
      BY <1>0, <2>2, ApplyType
    <2>4. /\ applied' \in [Nodes -> 0..Len(log)] /\ sm' \in [Nodes -> ClusterState]
          /\ \A k \in Nodes : applied'[k] <= stored[k]
      BY <1>0, <1>2, <2>1, <2>3 DEF Apply
    <2>5. QED
      BY <1>0, <1>2, <2>4 DEF Apply, Shape, TypeOK, Ordered, InTurn
  <1>3. ASSUME NEW n \in Nodes, Purge(n) PROVE Shape'
    <2>1. /\ purged' \in [Nodes -> 0..Len(log)]
          /\ \A k \in Nodes : purged'[k] <= stored[k]
      BY <1>0, <1>3 DEF Purge, PurgePoint
    <2>2. QED
      BY <1>0, <1>3, <2>1 DEF Purge, Shape, TypeOK, Ordered, InTurn
  <1>4. ASSUME NEW n \in Nodes, InstallSnapshot(n) PROVE Shape'
    <2>1. leader \in Nodes /\ applied[leader] \in 0..Len(log)
      BY <1>0, <1>4 DEF InstallSnapshot
    <2>2. /\ sm' \in [Nodes -> ClusterState]
          /\ applied' \in [Nodes -> 0..Len(log)] /\ stored' \in [Nodes -> 0..Len(log)]
          /\ purged' \in [Nodes -> 0..Len(log)]
          /\ \A k \in Nodes : purged'[k] <= stored'[k] /\ applied'[k] <= stored'[k]
      BY <1>0, <1>4, <2>1 DEF InstallSnapshot, InstalledIndex
    <2>3. QED
      BY <1>0, <1>4, <2>2 DEF InstallSnapshot, Shape, TypeOK, Ordered, InTurn
  <1>5. ASSUME NEW n \in Nodes, Elect(n) PROVE Shape'
    BY <1>0, <1>5, <1>f DEF Elect, Shape, TypeOK, Ordered, InTurn
  <1>6. ASSUME NEW n \in Nodes, Crash(n) PROVE Shape'
    <2>1. EmptyState \in ClusterState
      BY DEF EmptyState, ClusterState, Statuses
    <2>2. /\ sm' \in [Nodes -> ClusterState] /\ leader' \in Nodes \cup {None}
          /\ applied' \in [Nodes -> 0..Len(log)]
          /\ \A k \in Nodes : applied'[k] <= stored[k]
          /\ sched' \in [Nodes -> SchedulerState(Len(log))]
      BY <1>0, <1>i, <1>6, <2>1 DEF Crash
    <2>3. TypeOK'
      BY <1>0, <1>f, <1>6, <2>2 DEF Crash, TypeOK, SchedulerState
    <2>4. Ordered' /\ InTurn'
      BY <1>0, <1>i, <1>6, <2>2 DEF Crash, Shape, Ordered, InTurn
    <2>5. QED
      BY <2>3, <2>4 DEF Shape
  <1>7. ASSUME NEW n \in Nodes, ConfirmLeader(n) PROVE Shape'
    <2> DEFINE turn == [sched[n] EXCEPT !.pc = "confirmed"]
    <2>1. sched[n] \in SchedulerState(Len(log))
      BY <1>0
    <2>2. turn \in SchedulerState(Len(log)) /\ turn.pc = "confirmed"
      BY <2>1 DEF SchedulerState
    <2>3. sched' = [sched EXCEPT ![n] = turn]
      BY <1>7 DEF ConfirmLeader
    <2> HIDE DEF turn
    <2>4. QED
      BY <1>0, <1>7, <2>2, <2>3, StepShape DEF ConfirmLeader
  <1>8. ASSUME NEW n \in Nodes, ListJobs(n) PROVE Shape'
    <2>1. PendingJobs(n) \in SUBSET Jobs
      BY DEF PendingJobs
    <2>2. PICK turn \in SchedulerState(Len(log)) :
              /\ sched' = [sched EXCEPT ![n] = turn]
              /\ turn.pc = "place" => turn.job \in PendingJobs(n) \ turn.todo
              /\ turn.pc \in {"idle", "place"}
      BY <1>0, <1>8, <2>1, TurnType DEF ListJobs
    <2>3. QED
      BY <1>0, <1>8, <2>1, <2>2, StepShape DEF ListJobs
  <1>9. ASSUME NEW n \in Nodes, PlaceAllocation(n) PROVE Shape'
    <2>1. sched[n].job \in Jobs \ sched[n].todo
      BY <1>9 DEF PlaceAllocation, At, Shape, InTurn
    <2>2. Cmd("PutAllocation", sched[n].job) \in Command
      BY <2>1 DEF Cmd, Command
    <2>3. /\ sched' \in [Nodes -> SchedulerState(Len(log) + 1)]
          /\ sched'[n].job = sched[n].job /\ sched'[n].todo = sched[n].todo
          /\ \A k \in Nodes \ {n} : sched'[k] = sched[k]
      BY <1>0, <1>9, PlacedTurn DEF PlaceAllocation
    <2>4. InTurn'
      BY <2>1, <2>3 DEF Shape, InTurn
    <2>5. QED
      BY <1>0, <1>9, <2>2, <2>3, <2>4, WriteShape DEF PlaceAllocation
  <1>10. ASSUME NEW n \in Nodes, MarkRunning(n) PROVE Shape'
    <2>1. sched[n].job \in Jobs \ sched[n].todo
      BY <1>10 DEF MarkRunning, At, Shape, InTurn
    <2>2. Cmd("Running", sched[n].job) \in Command
      BY <2>1 DEF Cmd, Command
    <2>3. Commit(Cmd("Running", sched[n].job))
      BY <1>10 DEF MarkRunning, StatusWrite
    <2>4. Len(log') = Len(log) + 1
      BY <2>2, <2>3, CommitEffect DEF Shape
    <2>5. sched' = [sched EXCEPT ![n].pc = "marked", ![n].wait = Len(log) + 1]
      BY <1>10, <2>4 DEF MarkRunning
    <2>6. /\ sched' \in [Nodes -> SchedulerState(Len(log) + 1)]
          /\ sched'[n].job = sched[n].job /\ sched'[n].todo = sched[n].todo
          /\ \A k \in Nodes \ {n} : sched'[k] = sched[k]
      BY <1>0, <2>5, MarkedTurn
    <2>7. InTurn'
      BY <2>1, <2>6 DEF Shape, InTurn
    <2>8. QED
      BY <1>0, <1>10, <2>2, <2>3, <2>6, <2>7, WriteShape DEF MarkRunning
  <1>11. ASSUME NEW n \in Nodes, NextJob(n) PROVE Shape'
    <2>1. sched[n].todo \in SUBSET Jobs
      BY <1>0 DEF SchedulerState
    <2>2. PICK todo \in SUBSET Jobs : todo = sched[n].todo
      BY <2>1
    <2>3. sched \in [Nodes -> SchedulerState(Len(log))] /\ Len(log) \in Nat
      BY <1>0
    <2>4. NextTurn(n, todo, TRUE)
      BY <1>11, <2>2 DEF NextJob
    <2>5. PICK turn \in SchedulerState(Len(log)) :
              /\ sched' = [sched EXCEPT ![n] = turn]
              /\ turn.pc \in {"idle", "place"}
              /\ turn.pc = "place" => turn.job \in todo \ turn.todo
              /\ turn.todo \subseteq todo
      BY <2>3, <2>4, TurnType
    <2>6. turn.pc \in {"place", "marked"} => turn.job \in Jobs \ turn.todo
      BY <2>1, <2>5
    <2>7. UNCHANGED <<log, stored, purged, sm, applied, leader, ops, faults>>
      BY <1>11 DEF NextJob
    <2>8. QED
      BY <1>0, <2>5, <2>6, <2>7, StepShape
  <1>12. ASSUME NEW n \in Nodes, WriteFails(n) PROVE Shape'
    BY <1>0, <1>i, <1>f, <1>12, StepShape DEF WriteFails
  <1>13. ASSUME NEW c \in Command, Operation(c) PROVE Shape'
    <2>1. SchedulerState(Len(log)) \subseteq SchedulerState(Len(log) + 1)
      BY <1>0, SchedulerGrows
    <2>2. sched' \in [Nodes -> SchedulerState(Len(log) + 1)] /\ InTurn'
      BY <1>0, <1>13, <2>1 DEF Operation, Shape, InTurn
    <2>3. QED
      BY <1>0, <1>13, <2>2, WriteShape DEF Operation
  <1>14. ASSUME NEW j \in Jobs, SubmitJob(j) \/ StopJob(j) \/ RollbackJob(j)
         PROVE  Shape'
    <2>1. ASSUME NEW op \in {"PutJob", "Dead", "RollbackJob", "RollbackLost"}
          PROVE  Cmd(op, j) \in Command
      BY DEF Cmd, Command
    <2>2. QED
      BY <1>13, <1>14, <2>1 DEF SubmitJob, StopJob, RollbackJob
  <1>15. CASE UNCHANGED vars
    BY <1>0, <1>15 DEF vars, Shape, TypeOK, Ordered, InTurn
  <1>16. QED
    BY <1>1, <1>2, <1>3, <1>4, <1>5, <1>6, <1>7, <1>8, <1>9, <1>10, <1>11, <1>12,
       <1>14, <1>15 DEF Next, RaftNext, SchedulerNext

\* The log, the log stores, the state machines and the schedulers are well
\* typed: no index passes the end of the log and no scheduler waits for an
\* entry that is not there.
THEOREM TypeCorrect == Spec => []TypeOK
  <1>1. Init => Shape
    BY InitShape
  <1>2. Shape /\ [Next]_vars => Shape'
    BY NextShape
  <1>3. Shape => TypeOK
    BY DEF Shape
  <1>4. QED
    BY <1>1, <1>2, <1>3, PTL DEF Spec

-----------------------------------------------------------------------------
(* The replicas.                                                           *)

\* A write through Raft: it reaches the log and no memory yet.
Written == \E c \in Command :
    Commit(c) /\ UNCHANGED <<purged, sm, applied, leader, faults>>

\* What a step is to the store: the steps of the schedulers and of the API
\* are writes, or they leave it alone.
LEMMA StepKinds ==
    ASSUME Shape, [Next]_vars
    PROVE  \/ \E n \in Nodes : RaftNext(n) \/ Crash(n)
           \/ Written
           \/ /\ UNCHANGED <<log, stored, purged, sm, applied>>
              /\ faults' \in Nat /\ faults <= faults'
  <1>0. faults \in Nat
    BY DEF Shape, TypeOK
  <1>1. ASSUME NEW n \in Nodes, PlaceAllocation(n) PROVE Written
    <2>1. sched[n].job \in Jobs
      BY <1>1 DEF PlaceAllocation, At, Shape, InTurn
    <2>2. Cmd("PutAllocation", sched[n].job) \in Command
      BY <2>1 DEF Cmd, Command
    <2>3. QED
      BY <1>1, <2>2 DEF PlaceAllocation, Written
  <1>2. ASSUME NEW n \in Nodes, MarkRunning(n) PROVE Written
    <2>1. sched[n].job \in Jobs
      BY <1>2 DEF MarkRunning, At, Shape, InTurn
    <2>2. Cmd("Running", sched[n].job) \in Command
      BY <2>1 DEF Cmd, Command
    <2>3. QED
      BY <1>2, <2>2 DEF MarkRunning, StatusWrite, Written
  <1>3. ASSUME NEW c \in Command, Operation(c) PROVE Written
    BY <1>3 DEF Operation, Written
  <1>4. ASSUME NEW j \in Jobs, SubmitJob(j) \/ StopJob(j) \/ RollbackJob(j)
        PROVE  Written
    <2>1. ASSUME NEW op \in {"PutJob", "Dead", "RollbackJob", "RollbackLost"}
          PROVE  Cmd(op, j) \in Command
      BY DEF Cmd, Command
    <2>2. QED
      BY <1>3, <1>4, <2>1 DEF SubmitJob, StopJob, RollbackJob
  <1>5. ASSUME NEW n \in Nodes, Elect(n) \/ WriteFails(n)
        PROVE  /\ UNCHANGED <<log, stored, purged, sm, applied>>
               /\ faults' \in Nat /\ faults <= faults'
    BY <1>0, <1>5 DEF Elect, WriteFails, Fault
  <1>6. ASSUME NEW n \in Nodes, ConfirmLeader(n) \/ ListJobs(n) \/ NextJob(n)
        PROVE  /\ UNCHANGED <<log, stored, purged, sm, applied>>
               /\ faults' \in Nat /\ faults <= faults'
    <2>1. UNCHANGED <<log, stored, purged, sm, applied, leader, ops, faults>>
      BY <1>6, Zenon DEF ConfirmLeader, ListJobs, NextJob
    <2>2. QED
      BY <1>0, <2>1
  <1>7. CASE UNCHANGED vars
    BY <1>0, <1>7 DEF vars
  <1>8. QED
    BY <1>1, <1>2, <1>4, <1>5, <1>6, <1>7 DEF Next, SchedulerNext

\* A commit adds one command to what the log amounts to, and leaves what its
\* prefixes amount to.
LEMMA ReplayKept ==
    ASSUME TypeOK, NEW c \in Command, Commit(c)
    PROVE  /\ \A k \in 0..Len(log) : ReplayOf(log', k) = ReplayOf(log, k)
           /\ ReplayOf(log', Len(log')) = ApplyCommand(ReplayOf(log, Len(log)), c)
  <1>1. /\ Len(log) \in Nat /\ Len(log') = Len(log) + 1
        /\ \A i \in 1..Len(log) : log'[i] = log[i]
        /\ log'[Len(log) + 1] = c
    BY CommitEffect, Typed
  <1>2. ASSUME NEW k \in 0..Len(log) PROVE ReplayOf(log', k) = ReplayOf(log, k)
    BY <1>1, ReplayPrefix
  <1>3. ReplayOf(log', Len(log) + 1) = ApplyCommand(ReplayOf(log', Len(log)), c)
    BY <1>1, ReplayStep
  <1>4. QED
    BY <1>1, <1>2, <1>3

\* Every step keeps every replica at what its prefix of the log amounts to.
LEMMA NextReplicas ==
    ASSUME Shape, ReplicasAgree, [Next]_vars
    PROVE  ReplicasAgree'
  <1>0. /\ Len(log) \in Nat /\ applied \in [Nodes -> 0..Len(log)]
        /\ sm \in [Nodes -> ClusterState]
    BY Typed DEF Shape
  <1>1. SUFFICES ASSUME NEW m \in Nodes PROVE sm'[m] = ReplayOf(log', applied'[m])
    BY DEF ReplicasAgree, Replay
  <1>2. sm[m] = ReplayOf(log, applied[m])
    BY DEF ReplicasAgree, Replay
  <1>3. ASSUME NEW n \in Nodes, Apply(n) PROVE sm'[m] = ReplayOf(log', applied'[m])
    <2>1. CASE m = n
      <3>1. ReplayOf(log, applied[m] + 1) =
                ApplyCommand(ReplayOf(log, applied[m]), log[applied[m] + 1])
        BY <1>0, ReplayStep
      <3>2. sm'[m] = ApplyCommand(sm[m], log[applied[m] + 1]) /\ log' = log
        BY <1>0, <1>3, <2>1 DEF Apply
      <3>3. applied'[m] = applied[m] + 1
        BY <1>0, <1>3, <2>1 DEF Apply
      <3>4. QED
        BY <1>2, <3>1, <3>2, <3>3
    <2>2. CASE m # n
      BY <1>0, <1>2, <1>3, <2>2 DEF Apply
    <2>3. QED
      BY <2>1, <2>2
  <1>4. ASSUME NEW n \in Nodes, InstallSnapshot(n)
        PROVE  sm'[m] = ReplayOf(log', applied'[m])
    <2>1. leader \in Nodes
      BY <1>4, Typed DEF InstallSnapshot, Shape
    <2>2. sm[leader] = ReplayOf(log, applied[leader])
      BY <2>1 DEF ReplicasAgree, Replay
    <2>3. QED
      BY <1>0, <1>2, <1>4, <2>2 DEF InstallSnapshot, InstalledIndex
  <1>5. ASSUME NEW n \in Nodes, Crash(n) PROVE sm'[m] = ReplayOf(log', applied'[m])
    BY <1>0, <1>2, <1>5, ReplayStep DEF Crash
  <1>6. ASSUME NEW n \in Nodes, Replicate(n) \/ Purge(n)
        PROVE  sm'[m] = ReplayOf(log', applied'[m])
    BY <1>2, <1>6 DEF Replicate, Purge
  <1>7. ASSUME Written PROVE sm'[m] = ReplayOf(log', applied'[m])
    <2>1. PICK c \in Command : Commit(c) /\ UNCHANGED <<sm, applied>>
      BY <1>7 DEF Written
    <2>2. applied[m] \in 0..Len(log)
      BY <1>0
    <2>3. ReplayOf(log', applied[m]) = ReplayOf(log, applied[m])
      BY <2>1, <2>2, ReplayKept DEF Shape
    <2>4. QED
      BY <1>2, <2>1, <2>3
  <1>8. CASE UNCHANGED <<log, stored, purged, sm, applied>>
    BY <1>2, <1>8
  <1>9. QED
    BY <1>3, <1>4, <1>5, <1>6, <1>7, <1>8, StepKinds DEF RaftNext

\* The memory of every node is the replay of the prefix it has applied,
\* whatever it applied, installed, purged or lost in a restart.
THEOREM ReplicasAreReplays == Spec => []ReplicasAgree
  <1>1. Init => Shape /\ ReplicasAgree
    <2>1. Init => ReplicasAgree
      BY ReplayStep DEF Init, ReplicasAgree, Replay
    <2>2. QED
      BY <2>1, InitShape
  <1>2. Shape /\ ReplicasAgree /\ [Next]_vars => (Shape /\ ReplicasAgree)'
    BY NextShape, NextReplicas
  <1>3. QED
    BY <1>1, <1>2, PTL DEF Spec

-----------------------------------------------------------------------------
(* Durability.                                                             *)

\* The nodes that have had entry i, and those that cannot replay their log.
Stores(i) == {n \in Nodes : stored[n] >= i}
Lost == {n \in Nodes : Stranded(n)}

\* Every entry was stored by a majority, and a node only loses its memory to
\* a fault.
OnMajority == \A i \in DOMAIN log : 2 * Cardinality(Stores(i)) > Cardinality(Nodes)
FewLost == Cardinality(Lost) <= faults
Kept == OnMajority /\ FewLost

\* Cardinalities of sets of nodes are numbers and grow with the set.
LEMMA NodeSets ==
    ASSUME NEW A \in SUBSET Nodes, NEW B \in SUBSET A
    PROVE  /\ IsFiniteSet(A) /\ IsFiniteSet(B)
           /\ Cardinality(A) \in Nat /\ Cardinality(B) \in Nat
           /\ Cardinality(B) <= Cardinality(A)
  <1>1. IsFiniteSet(A)
    BY Constants, FS_Subset
  <1>2. QED
    BY <1>1, FS_Subset, FS_CardinalityType

\* No step makes a log store shorter.
LEMMA StoresGrow ==
    ASSUME Shape, [Next]_vars
    PROVE  \A n \in Nodes : stored[n] <= stored'[n]
  <1>0. /\ stored \in [Nodes -> 0..Len(log)] /\ purged \in [Nodes -> 0..Len(log)]
        /\ applied \in [Nodes -> 0..Len(log)] /\ leader \in Nodes \cup {None}
        /\ Len(log) \in Nat
    BY Typed DEF Shape
  <1>1. SUFFICES ASSUME NEW m \in Nodes PROVE stored[m] <= stored'[m]
    OBVIOUS
  <1>2. ASSUME NEW n \in Nodes, InstallSnapshot(n) PROVE stored[m] <= stored'[m]
    <2>1. leader \in Nodes /\ stored[n] < applied[leader]
      BY <1>0, <1>2 DEF InstallSnapshot, Stranded
    <2>2. QED
      BY <1>0, <1>2, <2>1 DEF InstallSnapshot
  <1>3. ASSUME NEW n \in Nodes, Replicate(n) PROVE stored[m] <= stored'[m]
    BY <1>0, <1>3 DEF Replicate
  <1>4. ASSUME NEW n \in Nodes, Apply(n) \/ Purge(n) \/ Crash(n)
        PROVE  stored[m] <= stored'[m]
    BY <1>0, <1>4 DEF Apply, Purge, Crash
  <1>5. ASSUME Written PROVE stored[m] <= stored'[m]
    BY <1>5, CommitEffect DEF Written, Shape
  <1>6. CASE UNCHANGED <<log, stored, purged, sm, applied>>
    BY <1>0, <1>6
  <1>7. QED
    BY <1>2, <1>3, <1>4, <1>5, <1>6, StepKinds DEF RaftNext

\* Every step keeps every entry on a majority.
LEMMA NextOnMajority ==
    ASSUME Shape, OnMajority, [Next]_vars
    PROVE  OnMajority'
  <1>0. /\ log \in Seq(Command) /\ Len(log) \in Nat
        /\ stored \in [Nodes -> 0..Len(log)]
    BY Typed DEF Shape
  <1>1. Shape'
    BY NextShape
  <1>2. log' \in Seq(Command) /\ stored' \in [Nodes -> 0..Len(log')]
    BY <1>1 DEF Shape, TypeOK
  <1>3. ASSUME NEW i \in DOMAIN log
        PROVE  2 * Cardinality({n \in Nodes : stored'[n] >= i}) > Cardinality(Nodes)
    <2>1. Stores(i) \subseteq {n \in Nodes : stored'[n] >= i}
      <3>1. ASSUME NEW n \in Nodes, stored[n] >= i PROVE stored'[n] >= i
        <4>1. stored[n] <= stored'[n]
          BY StoresGrow
        <4>2. stored[n] \in Int /\ stored'[n] \in Int /\ i \in Int
          BY <1>0, <1>2
        <4>3. QED
          BY <3>1, <4>1, <4>2
      <3>2. QED
        BY <3>1 DEF Stores
    <2>2. 2 * Cardinality(Stores(i)) > Cardinality(Nodes)
      BY DEF OnMajority
    <2> DEFINE A == {n \in Nodes : stored'[n] >= i}
    <2>3. /\ Cardinality(A) \in Nat /\ Cardinality(Stores(i)) \in Nat
          /\ Cardinality(Stores(i)) <= Cardinality(A)
          /\ Cardinality(Nodes) \in Nat
      <3>1. A \in SUBSET Nodes /\ Stores(i) \in SUBSET A /\ Nodes \in SUBSET Nodes
        BY <2>1
      <3> HIDE DEF A
      <3>2. QED
        BY <3>1, NodeSets
    <2> HIDE DEF A
    <2>4. 2 * Cardinality(A) > Cardinality(Nodes)
      BY <2>2, <2>3
    <2>5. QED
      BY <2>4 DEF A
  <1>4. CASE DOMAIN log' = DOMAIN log
    BY <1>3, <1>4 DEF OnMajority, Stores
  <1>5. CASE Written
    <2>1. PICK c \in Command : Commit(c)
      BY <1>5 DEF Written
    <2>2. Len(log') = Len(log) + 1
      BY <2>1, CommitEffect DEF Shape
    <2>3. PICK Q \in SUBSET Nodes :
              /\ 2 * Cardinality(Q) > Cardinality(Nodes)
              /\ stored' = [n \in Nodes |-> IF n \in Q THEN Len(log) + 1 ELSE stored[n]]
      BY <2>1 DEF Commit
    <2> DEFINE A == {n \in Nodes : stored'[n] >= Len(log) + 1}
    <2>4. A \in SUBSET Nodes /\ Q \in SUBSET A /\ Nodes \in SUBSET Nodes
      BY <1>0, <2>3
    <2> HIDE DEF A
    <2>5. /\ Cardinality(A) \in Nat /\ Cardinality(Q) \in Nat
          /\ Cardinality(Q) <= Cardinality(A) /\ Cardinality(Nodes) \in Nat
      BY <2>4, NodeSets
    <2>6. 2 * Cardinality(A) > Cardinality(Nodes)
      BY <2>3, <2>5
    <2>7. \A i \in DOMAIN log' : i \in DOMAIN log \/ i = Len(log) + 1
      BY <1>0, <1>2, <2>2
    <2>8. QED
      BY <1>3, <2>6, <2>7 DEF OnMajority, Stores, A
  <1>6. QED
    BY <1>4, <1>5, StepKinds
    DEF RaftNext, Replicate, Apply, Purge, InstallSnapshot, Crash

\* Every step keeps the number of nodes that cannot replay their log within
\* the number of faults.
LEMMA NextFewLost ==
    ASSUME Shape, FewLost, [Next]_vars
    PROVE  FewLost'
  <1>0. /\ purged \in [Nodes -> 0..Len(log)] /\ applied \in [Nodes -> 0..Len(log)]
        /\ leader \in Nodes \cup {None} /\ Len(log) \in Nat /\ faults \in Nat
    BY Typed DEF Shape
  <1> DEFINE L == {n \in Nodes : applied'[n] < purged'[n]}
  <1>1. SUFFICES Cardinality(L) <= faults'
    BY DEF FewLost, Lost, Stranded
  <1>2. Cardinality(Lost) <= faults
    BY DEF FewLost
  <1>3. ASSUME L \subseteq Lost, faults' \in Nat, faults <= faults'
        PROVE  Cardinality(L) <= faults'
    <2>1. Lost \in SUBSET Nodes /\ L \in SUBSET Lost
      BY <1>3 DEF Lost
    <2> HIDE DEF L
    <2>2. /\ Cardinality(L) \in Nat /\ Cardinality(Lost) \in Nat
          /\ Cardinality(L) <= Cardinality(Lost)
      BY <2>1, NodeSets
    <2>3. QED
      BY <1>0, <1>2, <1>3, <2>2
  <1>4. ASSUME NEW n \in Nodes, Apply(n) PROVE L \subseteq Lost /\ faults' = faults
    BY <1>0, <1>4 DEF Apply, Lost, Stranded
  <1>5. ASSUME NEW n \in Nodes, Purge(n) PROVE L \subseteq Lost /\ faults' = faults
    BY <1>0, <1>5 DEF Purge, PurgePoint, Lost, Stranded
  <1>6. ASSUME NEW n \in Nodes, InstallSnapshot(n)
        PROVE  L \subseteq Lost /\ faults' = faults
    <2>1. leader \in Nodes /\ applied[leader] \in Int
      BY <1>0, <1>6 DEF InstallSnapshot
    <2>2. QED
      BY <1>0, <1>6, <2>1 DEF InstallSnapshot, InstalledIndex, Lost, Stranded
  <1>7. ASSUME NEW n \in Nodes, Replicate(n) PROVE L \subseteq Lost /\ faults' = faults
    BY <1>0, <1>7 DEF Replicate, Lost, Stranded
  <1>8. ASSUME NEW n \in Nodes, Crash(n) PROVE Cardinality(L) <= faults'
    <2>1. L \subseteq Lost \cup {n} /\ faults' = faults + 1
      BY <1>0, <1>8 DEF Crash, Fault, Lost, Stranded
    <2>2. Lost \cup {n} \in SUBSET Nodes /\ Lost \in SUBSET Nodes
      BY DEF Lost
    <2> HIDE DEF L
    <2>3. IsFiniteSet(Lost) /\ Cardinality(Lost) \in Nat
      BY <2>2, NodeSets
    <2>4. Cardinality(Lost \cup {n}) <= Cardinality(Lost) + 1
      <3>1. \/ Cardinality(Lost \cup {n}) = Cardinality(Lost)
            \/ Cardinality(Lost \cup {n}) = Cardinality(Lost) + 1
        BY <2>3, FS_AddElement, Zenon
      <3>2. QED
        BY <2>3, <3>1
    <2>5. /\ Cardinality(L) \in Nat /\ Cardinality(Lost \cup {n}) \in Nat
          /\ Cardinality(L) <= Cardinality(Lost \cup {n})
      BY <2>1, <2>2, NodeSets
    <2>6. QED
      BY <1>0, <1>2, <2>1, <2>3, <2>4, <2>5
  <1>9. ASSUME Written PROVE L \subseteq Lost /\ faults' = faults
    BY <1>9 DEF Written, Lost, Stranded
  <1>10. ASSUME UNCHANGED <<log, stored, purged, sm, applied>> PROVE L \subseteq Lost
    BY <1>10 DEF Lost, Stranded
  <1> HIDE DEF L
  <1>11. QED
    BY <1>0, <1>3, <1>4, <1>5, <1>6, <1>7, <1>8, <1>9, <1>10, StepKinds DEF RaftNext

\* What is on a majority outlives the loss of a minority's memories.
LEMMA KeptDurable ==
    ASSUME Shape, Kept
    PROVE  Durable
  <1>0. /\ stored \in [Nodes -> 0..Len(log)] /\ purged \in [Nodes -> 0..Len(log)]
        /\ applied \in [Nodes -> 0..Len(log)] /\ log \in Seq(Command)
        /\ Len(log) \in Nat /\ faults \in Nat
    BY Typed DEF Shape
  <1>1. SUFFICES ASSUME 2 * faults < Cardinality(Nodes), NEW i \in DOMAIN log
                 PROVE  \E n \in Nodes : Holds(n, i)
    BY DEF Durable
  <1>2. /\ Lost \in SUBSET Nodes /\ Stores(i) \in SUBSET Nodes
        /\ Nodes \ Lost \in SUBSET Nodes /\ Nodes \cap Lost = Lost
    BY DEF Lost, Stores
  <1>3. /\ Cardinality(Lost) \in Nat /\ Cardinality(Stores(i)) \in Nat
        /\ Cardinality(Nodes) \in Nat
    BY <1>2, NodeSets
  <1>4. Cardinality(Nodes \ Lost) = Cardinality(Nodes) - Cardinality(Lost)
    BY <1>2, Constants, FS_Difference
  <1>5. Cardinality(Lost) <= faults /\ 2 * Cardinality(Stores(i)) > Cardinality(Nodes)
    BY DEF Kept, FewLost, OnMajority
  <1>6. Cardinality(Stores(i)) + Cardinality(Nodes \ Lost) > Cardinality(Nodes)
    BY <1>0, <1>1, <1>3, <1>4, <1>5
  <1>7. Stores(i) \cap (Nodes \ Lost) # {}
    BY <1>2, <1>6, Constants, FS_MajoritiesIntersect
  <1>8. PICK n \in Nodes : stored[n] >= i /\ ~(applied[n] < purged[n])
    BY <1>7 DEF Stores, Lost, Stranded
  <1>9. /\ i \in Nat /\ i >= 1 /\ stored[n] \in Nat /\ applied[n] \in Nat
        /\ purged[n] \in Nat
    BY <1>0
  <1>10. Holds(n, i)
    BY <1>8, <1>9 DEF Holds
  <1>11. QED
    BY <1>10

\* A committed write outlives the restarts of a minority: a snapshot or the
\* log of some node has it, whatever was purged and wiped.
THEOREM CommittedIsDurable == Spec => []Durable
  <1>1. Init => Shape /\ Kept
    <2>1. SUFFICES ASSUME Init PROVE Kept
      BY InitShape
    <2>2. DOMAIN log = {}
      BY <2>1 DEF Init
    <2>3. Lost = {}
      BY <2>1 DEF Init, Lost, Stranded
    <2>4. Cardinality(Lost) = 0 /\ faults = 0
      BY <2>1, <2>3, FS_EmptySet DEF Init
    <2>5. QED
      BY <2>2, <2>4 DEF Kept, OnMajority, FewLost
  <1>2. Shape /\ Kept /\ [Next]_vars => (Shape /\ Kept)'
    BY NextShape, NextOnMajority, NextFewLost DEF Kept
  <1>3. Shape /\ Kept => Durable
    BY KeptDurable
  <1>4. QED
    BY <1>1, <1>2, <1>3, PTL DEF Spec

-----------------------------------------------------------------------------
(* Placement.                                                              *)

\* The commands that make job j Pending.
Causing(j) == {Cmd("PutJob", j), Cmd("RollbackJob", j)}
EpisodesOf(s, j) == Cardinality({i \in DOMAIN s : s[i] \in Causing(j)})

\* A replay is a state of the state machine.
LEMMA ReplayType ==
    ASSUME NEW s \in Seq(Command), NEW n \in 0..Len(s)
    PROVE  ReplayOf(s, n) \in ClusterState
  <1> DEFINE S == {m \in Nat : m <= Len(s) => ReplayOf(s, m) \in ClusterState}
  <1>1. 0 \in S
    <2>1. EmptyState \in ClusterState
      BY DEF EmptyState, ClusterState, Statuses
    <2>2. QED
      BY <2>1, ReplayStep
  <1>2. ASSUME NEW m \in Nat, m \in S PROVE m + 1 \in S
    <2>1. SUFFICES ASSUME m + 1 <= Len(s) PROVE ReplayOf(s, m + 1) \in ClusterState
      OBVIOUS
    <2>2. ReplayOf(s, m) \in ClusterState /\ s[m + 1] \in Command
      BY <1>2, <2>1
    <2>3. QED
      BY <2>2, ReplayStep, ApplyType
  <1>3. Nat \subseteq S
    <2> HIDE DEF S
    <2>1. QED
      BY <1>1, <1>2, NatSetInduction
  <1>4. QED
    BY <1>3

\* What a command does to one job.
LEMMA ApplyEffect ==
    ASSUME NEW state \in ClusterState, NEW c \in Command, NEW j \in Jobs
    PROVE  /\ ApplyCommand(state, c).allocs[j] =
                 IF c = Cmd("PutAllocation", j) THEN state.allocs[j] + 1
                                                ELSE state.allocs[j]
           /\ c \notin Causing(j) /\ ApplyCommand(state, c).status[j] = "Pending"
                 => state.status[j] = "Pending"
           /\ c = Cmd("Running", j) => ApplyCommand(state, c).status[j] # "Pending"
  <1>1. /\ c.job \in Jobs /\ c = [op |-> c.op, job |-> c.job]
        /\ c.op \in {"PutJob", "RollbackJob", "RollbackLost", "PutAllocation",
                    "Running", "Dead"}
        /\ state.status \in [Jobs -> Statuses] /\ state.allocs \in [Jobs -> Nat]
        /\ state = [status |-> state.status, allocs |-> state.allocs]
    BY DEF ClusterState, Command
  <1>2. ASSUME NEW op PROVE c = Cmd(op, j) <=> c.op = op /\ c.job = j
    BY <1>1 DEF Cmd
  <1>3. ASSUME NEW v, ApplyCommand(state, c) = [state EXCEPT !.status[c.job] = v]
        PROVE  /\ ApplyCommand(state, c).allocs[j] = state.allocs[j]
               /\ ApplyCommand(state, c).status[j] =
                     IF c.job = j THEN v ELSE state.status[j]
    BY <1>1, <1>3
  <1>4. CASE c.op = "PutJob"
    <2>1. ApplyCommand(state, c) = [state EXCEPT !.status[c.job] = "Pending"]
      BY <1>4 DEF ApplyCommand
    <2>2. QED
      BY <1>2, <1>3, <1>4, <2>1 DEF Causing
  <1>5. CASE c.op = "RollbackJob"
    <2>1. \/ ApplyCommand(state, c) = [state EXCEPT !.status[c.job] = "Pending"]
          \/ ApplyCommand(state, c) = state
      BY <1>5 DEF ApplyCommand
    <2>2. QED
      BY <1>2, <1>3, <1>5, <2>1 DEF Causing
  <1>6. CASE c.op = "PutAllocation"
    <2>1. ApplyCommand(state, c) = [state EXCEPT !.allocs[c.job] = @ + 1]
      BY <1>6 DEF ApplyCommand
    <2>2. /\ ApplyCommand(state, c).status = state.status
          /\ ApplyCommand(state, c).allocs[j] =
                IF c.job = j THEN state.allocs[j] + 1 ELSE state.allocs[j]
      BY <1>1, <2>1
    <2>3. QED
      BY <1>2, <1>6, <2>2
  <1>7. CASE c.op \in {"Running", "Dead"}
    <2>1. \/ ApplyCommand(state, c) = [state EXCEPT !.status[c.job] = c.op]
          \/ ApplyCommand(state, c) = state /\ state.status[c.job] = "None"
      BY <1>7 DEF ApplyCommand
    <2>2. QED
      BY <1>2, <1>3, <1>7, <2>1
  <1>8. CASE c.op = "RollbackLost"
    <2>1. ApplyCommand(state, c) = state
      BY <1>8 DEF ApplyCommand
    <2>2. QED
      BY <1>2, <1>8, <2>1
  <1>9. QED
    BY <1>1, <1>4, <1>5, <1>6, <1>7, <1>8

\* One entry more is one episode more, or none.
LEMMA EpisodesStep ==
    ASSUME NEW s \in Seq(Command), NEW t \in Seq(Command), Len(t) = Len(s) + 1,
           \A i \in 1..Len(s) : t[i] = s[i], NEW j
    PROVE  /\ EpisodesOf(s, j) \in Nat
           /\ EpisodesOf(t, j) =
                 EpisodesOf(s, j) + IF t[Len(s) + 1] \in Causing(j) THEN 1 ELSE 0
  <1> DEFINE A == {i \in DOMAIN s : s[i] \in Causing(j)}
             B == {i \in DOMAIN t : t[i] \in Causing(j)}
             m == Len(s) + 1
  <1>1. /\ Len(s) \in Nat /\ DOMAIN s = 1..Len(s) /\ DOMAIN t = 1..(Len(s) + 1)
        /\ 1 \in Int
    OBVIOUS
  <1>2. IsFiniteSet(1..Len(s))
    BY <1>1, FS_Interval
  <1>3. A \in SUBSET (1..Len(s)) /\ m \notin A
    BY <1>1
  <1>4. t[m] \in Causing(j) => B = A \cup {m}
    BY <1>1
  <1>5. t[m] \notin Causing(j) => B = A
    BY <1>1
  <1> HIDE DEF A, B, m
  <1>6. IsFiniteSet(A) /\ Cardinality(A) \in Nat
    BY <1>2, <1>3, FS_Subset, FS_CardinalityType
  <1>7. Cardinality(A \cup {m}) = Cardinality(A) + 1
    BY <1>3, <1>6, FS_AddElement
  <1>8. EpisodesOf(s, j) = Cardinality(A) /\ EpisodesOf(t, j) = Cardinality(B)
    BY DEF EpisodesOf, A, B
  <1>9. CASE t[m] \in Causing(j)
    <2>1. Cardinality(B) = Cardinality(A) + 1
      BY <1>4, <1>7, <1>9
    <2>2. QED
      BY <1>6, <1>8, <1>9, <2>1 DEF m
  <1>10. CASE t[m] \notin Causing(j)
    <2>1. Cardinality(B) = Cardinality(A)
      BY <1>5, <1>10
    <2>2. QED
      BY <1>6, <1>8, <1>10, <2>1 DEF m
  <1>11. QED
    BY <1>9, <1>10

\* Episodes are counted by a number.
LEMMA EpisodesNat ==
    ASSUME NEW s \in Seq(Command), NEW j
    PROVE  EpisodesOf(s, j) \in Nat
  <1> DEFINE A == {i \in DOMAIN s : s[i] \in Causing(j)}
  <1>1. A \in SUBSET (1..Len(s)) /\ Len(s) \in Nat /\ 1 \in Int
    OBVIOUS
  <1> HIDE DEF A
  <1>2. IsFiniteSet(1..Len(s))
    BY <1>1, FS_Interval
  <1>3. Cardinality(A) \in Nat
    BY <1>1, <1>2, FS_Subset, FS_CardinalityType
  <1>4. QED
    BY <1>3 DEF EpisodesOf, A

\* What was placed for job j, what has caused it, and whether j is Pending.
Spent(j) == Committed.allocs[j]
Causes(j) == Episodes(j) + faults
Pends(j) == Committed.status[j] = "Pending"

\* A scheduler may come to place allocations for job j: it has listed it, it
\* will list it from a memory that lags, or the job is Pending.
MayPlace(n, j) ==
    \/ sched[n].pc \in {"place", "marked"} /\ j \in sched[n].todo
    \/ /\ sched[n].pc = "confirmed"
       /\ \E k \in applied[n]..Len(log) : Replay(k).status[j] = "Pending"
    \/ Pends(j)

\* The allocations the leader may still place for j before another cause.
Need(n, j) ==
    IF sched[n].pc = "place" /\ sched[n].job = j THEN sched[n].left
    ELSE IF MayPlace(n, j) THEN Count ELSE 0
Due(j) == IF leader = None THEN Count ELSE Need(leader, j)

\* What was placed and what may still be is covered by the causes so far.
CreditOf(j) == Spent(j) + Due(j) <= Count * Causes(j)
Credit == \A j \in Jobs : CreditOf(j)

\* These are numbers.
Numbers == \A j \in Jobs :
    /\ Spent(j) \in Nat /\ Causes(j) \in Nat
    /\ Due(j) \in Nat /\ Due(j) <= Count

\* The shape of the state makes them so.
LEMMA ShapeNumbers == Shape => Numbers
  <1>1. SUFFICES ASSUME Shape, NEW j \in Jobs
                 PROVE  /\ Spent(j) \in Nat /\ Causes(j) \in Nat
                        /\ Due(j) \in Nat /\ Due(j) <= Count
    BY DEF Numbers
  <1>0. /\ log \in Seq(Command) /\ Len(log) \in Nat /\ faults \in Nat
        /\ leader \in Nodes \cup {None} /\ sched \in [Nodes -> SchedulerState(Len(log))]
    BY <1>1, Typed DEF Shape
  <1>2. Spent(j) \in Nat
    <2>1. ReplayOf(log, Len(log)) \in ClusterState
      BY <1>0, ReplayType
    <2>2. QED
      BY <2>1 DEF Spent, Committed, Replay, ClusterState
  <1>3. Causes(j) \in Nat
    <2>1. EpisodesOf(log, j) \in Nat
      BY <1>0, EpisodesNat
    <2>2. Causes(j) = EpisodesOf(log, j) + faults
      BY DEF Causes, Episodes, EpisodesOf, Causing
    <2>3. QED
      BY <1>0, <2>1, <2>2
  <1>4. ASSUME NEW n \in Nodes PROVE Need(n, j) \in Nat /\ Need(n, j) <= Count
    <2>1. sched[n].left \in 0..Count
      BY <1>0 DEF SchedulerState
    <2>2. QED
      BY <2>1, Constants DEF Need
  <1>5. Due(j) \in Nat /\ Due(j) <= Count
    BY <1>0, <1>4, Constants DEF Due
  <1>6. QED
    BY <1>2, <1>3, <1>5

\* What a write does to the account of one job.
LEMMA WriteEffect ==
    ASSUME Shape, NEW c \in Command, Commit(c), UNCHANGED faults, NEW j \in Jobs
    PROVE  /\ Spent(j)' = IF c = Cmd("PutAllocation", j) THEN Spent(j) + 1 ELSE Spent(j)
           /\ Causes(j)' = Causes(j) + IF c \in Causing(j) THEN 1 ELSE 0
           /\ c \notin Causing(j) /\ Pends(j)' => Pends(j)
           /\ c = Cmd("Running", j) => ~Pends(j)'
  <1>0. log \in Seq(Command) /\ Len(log) \in Nat /\ faults \in Nat
    BY Typed DEF Shape
  <1>1. /\ log' \in Seq(Command) /\ Len(log') = Len(log) + 1
        /\ \A i \in 1..Len(log) : log'[i] = log[i]
        /\ log'[Len(log) + 1] = c
    BY CommitEffect DEF Shape
  <1>2. ReplayOf(log', Len(log')) = ApplyCommand(ReplayOf(log, Len(log)), c)
    BY ReplayKept DEF Shape
  <1>3. ReplayOf(log, Len(log)) \in ClusterState
    BY <1>0, ReplayType
  <1>4. /\ EpisodesOf(log, j) \in Nat
        /\ EpisodesOf(log', j) = EpisodesOf(log, j) + IF c \in Causing(j) THEN 1 ELSE 0
    BY <1>0, <1>1, EpisodesStep
  <1>5. Causes(j) = EpisodesOf(log, j) + faults /\ Causes(j)' = EpisodesOf(log', j) + faults'
    BY DEF Causes, Episodes, EpisodesOf, Causing
  <1>6. /\ Spent(j) = ReplayOf(log, Len(log)).allocs[j]
        /\ Spent(j)' = ReplayOf(log', Len(log')).allocs[j]
        /\ Pends(j) <=> ReplayOf(log, Len(log)).status[j] = "Pending"
        /\ Pends(j)' <=> ReplayOf(log', Len(log')).status[j] = "Pending"
    BY DEF Spent, Pends, Committed, Replay
  <1>7. Causes(j)' = Causes(j) + IF c \in Causing(j) THEN 1 ELSE 0
    BY <1>0, <1>4, <1>5
  <1>8. QED
    BY <1>2, <1>3, <1>6, <1>7, ApplyEffect

\* A step balances the account of a job when it comes with a cause, or when
\* it places no more than it no longer may.
LEMMA Balance ==
    ASSUME Numbers, Numbers', NEW j \in Jobs, CreditOf(j),
           \/ Spent(j)' = Spent(j) /\ Causes(j)' = Causes(j) + 1
           \/ Causes(j)' = Causes(j) /\ Spent(j)' + Due(j)' <= Spent(j) + Due(j)
    PROVE  CreditOf(j)'
  <1>1. /\ Spent(j) \in Nat /\ Causes(j) \in Nat /\ Due(j) \in Nat /\ Due(j) <= Count
        /\ Spent(j)' \in Nat /\ Causes(j)' \in Nat /\ Due(j)' \in Nat /\ Due(j)' <= Count
        /\ Count \in Nat
    BY Constants DEF Numbers
  <1>2. Spent(j) + Due(j) <= Count * Causes(j)
    BY DEF CreditOf
  <1>3. Count * (Causes(j) + 1) = Count * Causes(j) + Count /\ Count * Causes(j) \in Nat
    BY <1>1
  <1>4. Spent(j)' + Due(j)' <= Count * Causes(j)'
    BY <1>1, <1>2, <1>3
  <1>5. QED
    BY <1>4 DEF CreditOf

\* A step that leaves the log and the faults alone leaves the account; so does
\* a write that concerns another job.
LEMMA SameAccount ==
    ASSUME UNCHANGED log, NEW j
    PROVE  /\ Spent(j)' = Spent(j) /\ Episodes(j)' = Episodes(j)
           /\ Pends(j)' <=> Pends(j)
  BY DEF Spent, Pends, Committed, Replay, Episodes

\* What a scheduler that has just taken up a list, or comes to its end, needs
\* is within what it needed before.
LEMMA NeedOfTurn ==
    ASSUME Shape, NEW n \in Nodes, NEW j \in Jobs, NEW todo \in SUBSET Jobs,
           NextTurn(n, todo, FALSE) \/ NextTurn(n, todo, TRUE),
           sched[n].pc # "place", UNCHANGED log,
           j \in todo => MayPlace(n, j)
    PROVE  Need(n, j)' \in Nat /\ Need(n, j)' <= Need(n, j)
  <1>0. sched \in [Nodes -> SchedulerState(Len(log))] /\ Len(log) \in Nat
    BY Typed DEF Shape
  <1>1. PICK turn \in SchedulerState(Len(log)) :
            /\ sched' = [sched EXCEPT ![n] = turn]
            /\ turn.pc \in {"idle", "place"}
            /\ turn.pc = "place" => turn.job \in todo \ turn.todo
            /\ turn.todo \subseteq todo
    BY <1>0, TurnType
  <1>2. sched'[n] = turn /\ turn.left \in 0..Count
    BY <1>0, <1>1 DEF SchedulerState
  <1>3. Need(n, j) = IF MayPlace(n, j) THEN Count ELSE 0
    BY DEF Need
  <1>4. MayPlace(n, j)' => MayPlace(n, j)
    <2>1. Pends(j) => MayPlace(n, j)
      BY DEF MayPlace
    <2>2. MayPlace(n, j)' => j \in todo \/ Pends(j)'
      BY <1>1, <1>2 DEF MayPlace
    <2>3. Pends(j)' <=> Pends(j)
      BY SameAccount
    <2>4. QED
      BY <2>1, <2>2, <2>3
  <1>5. turn.pc = "place" /\ turn.job = j => MayPlace(n, j)
    BY <1>1
  <1>6. Need(n, j)' = IF turn.pc = "place" /\ turn.job = j THEN turn.left
                      ELSE IF MayPlace(n, j)' THEN Count ELSE 0
    BY <1>2 DEF Need
  <1>7. QED
    BY <1>2, <1>3, <1>4, <1>5, <1>6, Constants

\* A step that leaves the log and the leader's scheduler alone, and has the
\* leader apply no less, needs no more.
LEMMA NeedKept ==
    ASSUME Shape, Shape', NEW n \in Nodes, NEW j \in Jobs, UNCHANGED log,
           sched'[n] = sched[n], applied[n] <= applied'[n]
    PROVE  Need(n, j)' \in Nat /\ Need(n, j)' <= Need(n, j)
  <1>0. /\ sched \in [Nodes -> SchedulerState(Len(log))] /\ Len(log) \in Nat
        /\ applied \in [Nodes -> 0..Len(log)]
    BY Typed DEF Shape
  <1>1. applied' \in [Nodes -> 0..Len(log)]
    BY DEF Shape, TypeOK
  <1>2. sched[n].left \in 0..Count
    BY <1>0 DEF SchedulerState
  <1>3. applied'[n]..Len(log) \subseteq applied[n]..Len(log)
    BY <1>0, <1>1
  <1>4. ASSUME NEW k PROVE Replay(k)' = Replay(k)
    BY DEF Replay
  <1>5. MayPlace(n, j)' => MayPlace(n, j)
    BY <1>3, <1>4, SameAccount DEF MayPlace
  <1>6. QED
    BY <1>2, <1>5, Constants DEF Need

\* Every step keeps the account of every job.
LEMMA NextCredit ==
    ASSUME Shape, Shape', Numbers, Numbers', ReplicasAgree, Credit, [Next]_vars
    PROVE  Credit'
  <1>0. /\ log \in Seq(Command) /\ Len(log) \in Nat
        /\ applied \in [Nodes -> 0..Len(log)] /\ leader \in Nodes \cup {None}
        /\ sched \in [Nodes -> SchedulerState(Len(log))] /\ faults \in Nat
        /\ None \notin Nodes /\ Count \in Nat
    BY Typed, Constants DEF Shape
  <1>1. SUFFICES ASSUME NEW j \in Jobs PROVE CreditOf(j)'
    BY DEF Credit
  <1>2. /\ CreditOf(j) /\ Spent(j) \in Nat /\ Due(j) \in Nat /\ Causes(j) \in Nat
        /\ Due(j)' \in Nat /\ Due(j)' <= Count /\ Spent(j)' \in Nat
    BY DEF Credit, Numbers
  \* A fault pays for whatever the next leader does.
  <1>3. ASSUME UNCHANGED log, faults' = faults + 1 PROVE CreditOf(j)'
    <2>1. Spent(j)' = Spent(j) /\ Episodes(j)' = Episodes(j)
      BY <1>3, SameAccount
    <2>2. Causes(j)' = Causes(j) + 1
      <3>1. Episodes(j) + faults \in Nat /\ faults' = faults + 1
        BY <1>2, <1>3 DEF Causes
      <3>2. Episodes(j) \in Nat
        BY <1>0, EpisodesNat DEF Episodes, EpisodesOf, Causing
      <3>3. QED
        BY <1>0, <1>3, <2>1, <3>2 DEF Causes
    <2>3. QED
      BY <1>2, <2>1, <2>2, Balance
  \* Without a fault, the leader must not need more.
  <1>4. ASSUME UNCHANGED <<log, faults>>, Due(j)' <= Due(j) PROVE CreditOf(j)'
    <2>1. Spent(j)' = Spent(j) /\ Causes(j)' = Causes(j)
      BY <1>4, SameAccount DEF Causes
    <2>2. Spent(j)' + Due(j)' <= Spent(j) + Due(j)
      BY <1>2, <1>4, <2>1
    <2>3. QED
      BY <1>2, <2>1, <2>2, Balance
  <1>d. ASSUME NEW m \in Nodes PROVE /\ leader = m => Due(j) = Need(m, j)
                                     /\ leader' = m => Due(j)' = Need(m, j)'
    BY <1>0 DEF Due, Need, MayPlace
  <1>5. ASSUME UNCHANGED <<log, faults, leader>>,
               \A m \in Nodes : leader = m => Need(m, j)' <= Need(m, j)
        PROVE  CreditOf(j)'
    <2>1. CASE leader = None
      <3>1. Due(j)' = Due(j)
        BY <1>5, <2>1 DEF Due
      <3>2. QED
        BY <1>2, <1>4, <1>5, <3>1
    <2>2. ASSUME NEW m \in Nodes, leader = m PROVE CreditOf(j)'
      <3>1. Due(j)' <= Due(j)
        BY <1>d, <1>5, <2>2
      <3>2. QED
        BY <1>4, <1>5, <3>1
    <2>3. QED
      BY <1>0, <2>1, <2>2
  <1>6. ASSUME UNCHANGED <<log, faults, leader>>,
               \A m \in Nodes : leader = m => sched'[m] = sched[m] /\ applied[m] <= applied'[m]
        PROVE  CreditOf(j)'
    BY <1>5, <1>6, NeedKept
  <1>7. ASSUME NEW n \in Nodes, Replicate(n) \/ Purge(n) PROVE CreditOf(j)'
    <2>1. UNCHANGED <<log, faults, leader, sched, applied>>
      BY <1>7 DEF Replicate, Purge
    <2>2. QED
      BY <1>0, <1>6, <2>1
  <1>8. ASSUME NEW n \in Nodes, Apply(n) PROVE CreditOf(j)'
    <2>1. UNCHANGED <<log, faults, leader, sched>>
      BY <1>8 DEF Apply
    <2>2. \A m \in Nodes : applied[m] <= applied'[m]
      BY <1>0, <1>8 DEF Apply
    <2>3. QED
      BY <1>6, <2>1, <2>2
  <1>9. ASSUME NEW n \in Nodes, InstallSnapshot(n) PROVE CreditOf(j)'
    <2>1. UNCHANGED <<log, faults, leader, sched>> /\ leader # n
      BY <1>9 DEF InstallSnapshot
    <2>2. \A m \in Nodes \ {n} : applied[m] <= applied'[m]
      BY <1>0, <1>9 DEF InstallSnapshot
    <2>3. QED
      BY <1>6, <2>1, <2>2
  <1>10. ASSUME NEW n \in Nodes, Elect(n) PROVE CreditOf(j)'
    <2>1. CASE leader = None
      <3>1. UNCHANGED <<log, faults>> /\ Due(j) = Count
        BY <1>10, <2>1 DEF Elect, Due
      <3>2. QED
        BY <1>2, <1>4, <3>1
    <2>2. CASE leader # None
      BY <1>3, <1>10, <2>2 DEF Elect, Fault
    <2>3. QED
      BY <2>1, <2>2
  <1>11. ASSUME NEW n \in Nodes, Crash(n) PROVE CreditOf(j)'
    BY <1>3, <1>11 DEF Crash, Fault
  <1>12. ASSUME NEW n \in Nodes, WriteFails(n) PROVE CreditOf(j)'
    <2>1. CASE leader = n
      BY <1>3, <1>12, <2>1 DEF WriteFails, Fault
    <2>2. CASE leader # n
      <3>1. UNCHANGED <<log, faults, leader, applied>>
        BY <1>12, <2>2 DEF WriteFails
      <3>2. \A m \in Nodes \ {n} : sched'[m] = sched[m]
        BY <1>0, <1>12 DEF WriteFails
      <3>3. QED
        BY <1>0, <1>6, <2>2, <3>1, <3>2
    <2>3. QED
      BY <2>1, <2>2
  <1>13. ASSUME NEW n \in Nodes, ConfirmLeader(n) PROVE CreditOf(j)'
    <2>1. UNCHANGED <<log, faults, leader, applied>> /\ leader = n
      BY <1>13 DEF ConfirmLeader
    <2>2. sched[n].pc = "idle" /\ applied[n] = Len(log) /\ sched'[n].pc = "confirmed"
      BY <1>0, <1>13 DEF ConfirmLeader, At, SchedulerState
    <2>3. \A k \in applied'[n]..Len(log') : k = Len(log)
      BY <1>0, <2>1, <2>2
    <2>4. MayPlace(n, j)' => Pends(j)
      BY <2>1, <2>2, <2>3 DEF MayPlace, Pends, Committed, Replay
    <2>5. Pends(j) => MayPlace(n, j)
      BY DEF MayPlace
    <2>6. Need(n, j)' <= Need(n, j)
      BY <1>0, <2>2, <2>4, <2>5 DEF Need
    <2>7. QED
      BY <1>5, <2>1, <2>6
  <1>14. ASSUME NEW n \in Nodes, NEW todo \in SUBSET Jobs,
                NextTurn(n, todo, FALSE) \/ NextTurn(n, todo, TRUE),
                sched[n].pc # "place", UNCHANGED <<log, applied, leader, faults>>,
                j \in todo => MayPlace(n, j)
         PROVE  CreditOf(j)'
    <2>1. CASE leader = n
      <3>1. Need(n, j)' <= Need(n, j)
        BY <1>14, NeedOfTurn
      <3>2. QED
        BY <1>5, <1>14, <2>1, <3>1
    <2>2. CASE leader # n
      <3>1. \A m \in Nodes \ {n} : sched'[m] = sched[m]
        <4>1. PICK turn \in SchedulerState(Len(log)) : sched' = [sched EXCEPT ![n] = turn]
          BY <1>0, <1>14, TurnType
        <4>2. QED
          BY <1>0, <4>1
      <3>2. QED
        BY <1>0, <1>6, <1>14, <2>2, <3>1
    <2>3. QED
      BY <2>1, <2>2
  <1>15. ASSUME NEW n \in Nodes, ListJobs(n) PROVE CreditOf(j)'
    <2>1. PICK todo \in SUBSET Jobs : todo = PendingJobs(n)
      BY DEF PendingJobs
    <2>2. sched[n].pc = "confirmed" /\ UNCHANGED <<log, applied, leader, faults>>
      BY <1>15 DEF ListJobs, At
    <2>3. NextTurn(n, todo, FALSE)
      BY <1>15, <2>1 DEF ListJobs
    <2>4. j \in todo => MayPlace(n, j)
      <3>1. SUFFICES ASSUME sm[n].status[j] = "Pending" PROVE MayPlace(n, j)
        BY <2>1 DEF PendingJobs
      <3>2. Replay(applied[n]).status[j] = "Pending"
        BY <3>1 DEF ReplicasAgree
      <3>3. applied[n] \in applied[n]..Len(log)
        BY <1>0
      <3>4. QED
        BY <2>2, <3>2, <3>3 DEF MayPlace
    <2>5. QED
      BY <1>14, <2>2, <2>3, <2>4
  <1>16. ASSUME NEW n \in Nodes, NextJob(n) PROVE CreditOf(j)'
    <2>1. PICK todo \in SUBSET Jobs : todo = sched[n].todo
      BY <1>0 DEF SchedulerState
    <2>2. sched[n].pc = "marked" /\ UNCHANGED <<log, applied, leader, faults>>
      BY <1>16 DEF NextJob, At
    <2>3. NextTurn(n, todo, TRUE)
      BY <1>16, <2>1 DEF NextJob
    <2>4. j \in todo => MayPlace(n, j)
      BY <2>1, <2>2 DEF MayPlace
    <2>5. QED
      BY <1>14, <2>2, <2>3, <2>4
  \* A write that is no cause must not let the leader need more than it places.
  <1>17. ASSUME NEW c \in Command, Commit(c), UNCHANGED faults, c \notin Causing(j),
                Spent(j)' + Due(j)' <= Spent(j) + Due(j)
         PROVE  CreditOf(j)'
    <2>1. Causes(j)' = Causes(j)
      BY <1>2, <1>17, WriteEffect
    <2>2. QED
      BY <1>2, <1>17, <2>1, Balance
  <1>18. ASSUME NEW n \in Nodes, PlaceAllocation(n) PROVE CreditOf(j)'
    <2> DEFINE job == sched[n].job
    <2>1. /\ leader = n /\ UNCHANGED <<leader, faults, applied>> /\ sched[n].pc = "place"
          /\ sched[n].left > 0 /\ Commit(Cmd("PutAllocation", job))
      BY <1>18 DEF PlaceAllocation, At
    <2>2. job \in Jobs
      BY <2>1 DEF Shape, InTurn
    <2>3. PICK c \in Command : c = Cmd("PutAllocation", job)
      BY <2>2 DEF Cmd, Command
    <2>4. c \notin Causing(j) /\ (c = Cmd("PutAllocation", j) <=> job = j)
      BY <2>3 DEF Cmd, Causing
    <2>5. /\ sched'[n].pc = sched[n].pc /\ sched'[n].todo = sched[n].todo
          /\ sched'[n].job = sched[n].job /\ sched'[n].left = sched[n].left - 1
      BY <1>0, <1>18, PlacedTurn DEF PlaceAllocation
    <2>6. sched[n].left \in Nat
      BY <1>0 DEF SchedulerState
    <2>7. Pends(j)' => Pends(j)
      BY <2>1, <2>3, <2>4, WriteEffect
    <2>8. Due(j) = Need(n, j) /\ Due(j)' = Need(n, j)'
      BY <1>d, <2>1
    <2>9. CASE job = j
      <3>1. Spent(j)' = Spent(j) + 1
        BY <2>1, <2>3, <2>4, <2>9, WriteEffect
      <3>2. Need(n, j) = sched[n].left /\ Need(n, j)' = sched[n].left - 1
        BY <2>1, <2>5, <2>9 DEF Need
      <3>3. Spent(j)' + Due(j)' <= Spent(j) + Due(j)
        BY <1>2, <2>6, <2>8, <3>1, <3>2
      <3>4. QED
        BY <1>17, <2>1, <2>3, <2>4, <3>3
    <2>10. CASE job # j
      <3>1. Spent(j)' = Spent(j)
        BY <2>1, <2>3, <2>4, <2>10, WriteEffect
      <3>2. MayPlace(n, j)' => MayPlace(n, j)
        BY <2>1, <2>5, <2>7 DEF MayPlace
      <3>3. Need(n, j)' <= Need(n, j)
        BY <1>0, <2>5, <2>10, <3>2 DEF Need
      <3>4. Spent(j)' + Due(j)' <= Spent(j) + Due(j)
        BY <1>2, <2>8, <3>1, <3>3
      <3>5. QED
        BY <1>17, <2>1, <2>3, <2>4, <3>4
    <2>11. QED
      BY <2>9, <2>10
  <1>19. ASSUME NEW n \in Nodes, MarkRunning(n) PROVE CreditOf(j)'
    <2> DEFINE job == sched[n].job
    <2>1. /\ leader = n /\ UNCHANGED <<leader, faults, applied>> /\ sched[n].pc = "place"
          /\ Commit(Cmd("Running", job))
      BY <1>19 DEF MarkRunning, At, StatusWrite
    <2>2. job \in Jobs \ sched[n].todo
      BY <2>1 DEF Shape, InTurn
    <2>3. PICK c \in Command : c = Cmd("Running", job)
      BY <2>2 DEF Cmd, Command
    <2>4. /\ c \notin Causing(j) /\ c # Cmd("PutAllocation", j)
          /\ c = Cmd("Running", j) <=> job = j
      BY <2>3 DEF Cmd, Causing
    <2>5. Len(log') = Len(log) + 1
      BY <2>1, <2>3, CommitEffect DEF Shape
    <2>6. sched' = [sched EXCEPT ![n].pc = "marked", ![n].wait = Len(log) + 1]
      BY <1>19, <2>5 DEF MarkRunning
    <2>7. sched'[n].pc = "marked" /\ sched'[n].todo = sched[n].todo
      BY <1>0, <2>6, MarkedTurn
    <2>8. Spent(j)' = Spent(j) /\ (Pends(j)' => Pends(j)) /\ (job = j => ~Pends(j)')
      BY <2>1, <2>3, <2>4, WriteEffect
    <2>9. MayPlace(n, j)' => job # j /\ MayPlace(n, j)
      BY <2>1, <2>2, <2>7, <2>8 DEF MayPlace
    <2>10. sched[n].left \in Nat
      BY <1>0 DEF SchedulerState
    <2>11. Need(n, j)' <= Need(n, j)
      BY <1>0, <2>1, <2>7, <2>9, <2>10 DEF Need
    <2>12. Spent(j)' + Due(j)' <= Spent(j) + Due(j)
      BY <1>2, <1>d, <2>1, <2>8, <2>11
    <2>13. QED
      BY <1>17, <2>1, <2>3, <2>4, <2>12
  <1>20. ASSUME NEW c \in Command, Operation(c), c # Cmd("PutAllocation", j)
         PROVE  CreditOf(j)'
    <2>1. Commit(c) /\ UNCHANGED <<sched, applied, leader, faults>> /\ leader # None
      BY <1>20 DEF Operation
    <2>2. Spent(j)' = Spent(j)
      BY <1>20, <2>1, WriteEffect
    <2>3. CASE c \in Causing(j)
      <3>1. Causes(j)' = Causes(j) + 1
        BY <2>1, <2>3, WriteEffect
      <3>2. QED
        BY <1>2, <2>2, <3>1, Balance
    <2>4. CASE c \notin Causing(j)
      <3>1. PICK m \in Nodes : m = leader
        BY <1>0, <2>1
      <3>2. Pends(j)' => Pends(j)
        BY <2>1, <2>4, WriteEffect
      <3>3. Len(log') = Len(log) + 1
        BY <2>1, CommitEffect DEF Shape
      <3>4. ASSUME NEW k \in applied[m]..Len(log'),
                   ReplayOf(log', k).status[j] = "Pending"
            PROVE  Pends(j) \/ (k \in applied[m]..Len(log) /\ Replay(k).status[j] = "Pending")
        <4>1. CASE k = Len(log')
          BY <3>2, <3>4, <4>1 DEF Pends, Committed, Replay
        <4>2. CASE k # Len(log')
          <5>1. k \in applied[m]..Len(log) /\ k \in 0..Len(log)
            BY <1>0, <3>3, <4>2
          <5>2. ReplayOf(log', k) = ReplayOf(log, k)
            BY <2>1, <5>1, ReplayKept DEF Shape
          <5>3. QED
            BY <3>4, <5>1, <5>2 DEF Replay
        <4>3. QED
          BY <4>1, <4>2
      <3>5. MayPlace(m, j)' => MayPlace(m, j)
        <4>1. MayPlace(m, j)' <=>
                 \/ sched[m].pc \in {"place", "marked"} /\ j \in sched[m].todo
                 \/ /\ sched[m].pc = "confirmed"
                    /\ \E k \in applied[m]..Len(log') : ReplayOf(log', k).status[j] = "Pending"
                 \/ Pends(j)'
          BY <2>1 DEF MayPlace, Replay
        <4>2. QED
          BY <3>2, <3>4, <4>1 DEF MayPlace
      <3>6. sched[m].left \in Nat
        BY <1>0 DEF SchedulerState
      <3>7. Need(m, j)' <= Need(m, j)
        BY <1>0, <2>1, <3>5, <3>6 DEF Need
      <3>8. Spent(j)' + Due(j)' <= Spent(j) + Due(j)
        BY <1>2, <1>d, <2>1, <2>2, <3>1, <3>7
      <3>9. QED
        BY <1>17, <2>1, <2>4, <3>8
    <2>5. QED
      BY <2>3, <2>4
  <1>21. ASSUME NEW i \in Jobs, SubmitJob(i) \/ StopJob(i) \/ RollbackJob(i)
         PROVE  CreditOf(j)'
    <2>1. ASSUME NEW op \in {"PutJob", "Dead", "RollbackJob", "RollbackLost"}
          PROVE  Cmd(op, i) \in Command /\ Cmd(op, i) # Cmd("PutAllocation", j)
      BY DEF Cmd, Command
    <2>2. QED
      BY <1>20, <1>21, <2>1 DEF SubmitJob, StopJob, RollbackJob
  <1>22. CASE UNCHANGED vars
    <2>1. UNCHANGED <<log, faults, leader, sched, applied>>
      BY <1>22 DEF vars
    <2>2. QED
      BY <1>0, <1>6, <2>1
  <1>23. QED
    BY <1>7, <1>8, <1>9, <1>10, <1>11, <1>12, <1>13, <1>15, <1>16, <1>18, <1>19,
       <1>21, <1>22 DEF Next, RaftNext, SchedulerNext

\* The credit covers what was placed.
LEMMA CreditCovers ==
    ASSUME Shape, Credit
    PROVE  PlacementsCaused
  <1>1. SUFFICES ASSUME NEW j \in Jobs PROVE Spent(j) <= Count * Causes(j)
    BY DEF PlacementsCaused, Spent, Causes
  <1>2. Spent(j) \in Nat /\ Due(j) \in Nat /\ Causes(j) \in Nat /\ Count \in Nat
    BY ShapeNumbers, Constants DEF Numbers
  <1>3. Spent(j) + Due(j) <= Count * Causes(j) /\ Count * Causes(j) \in Nat
    BY <1>2 DEF Credit, CreditOf
  <1>4. QED
    BY <1>2, <1>3

\* No allocation is placed without a cause: submissions, rollbacks and faults
\* account for all of them, Count for each.
THEOREM PlacementsAreCaused == Spec => []PlacementsCaused
  <1>1. Init => Shape /\ ReplicasAgree /\ Credit
    <2>1. SUFFICES ASSUME Init PROVE ReplicasAgree /\ Credit
      BY InitShape
    <2>2. ReplicasAgree
      BY <2>1, ReplayStep DEF Init, ReplicasAgree, Replay
    <2>3. ASSUME NEW j \in Jobs PROVE CreditOf(j)
      <3>1. /\ log = <<>> /\ faults = 0 /\ leader \in Nodes /\ leader # None
            /\ sched = [n \in Nodes |-> IdleScheduler] /\ Len(log) = 0
        BY <2>1, Constants DEF Init
      <3>2. Committed = EmptyState
        BY <3>1, ReplayStep DEF Committed, Replay
      <3>3. Spent(j) = 0 /\ ~Pends(j)
        BY <3>2 DEF Spent, Pends, EmptyState
      <3>4. Due(j) = 0
        BY <3>1, <3>3 DEF Due, Need, MayPlace, IdleScheduler
      <3>5. {i \in DOMAIN log : log[i] \in {Cmd("PutJob", j), Cmd("RollbackJob", j)}} = {}
        BY <3>1
      <3>6. Causes(j) = 0
        BY <3>1, <3>5, FS_EmptySet DEF Causes, Episodes
      <3>7. QED
        BY <3>3, <3>4, <3>6, Constants DEF CreditOf
    <2>4. QED
      BY <2>2, <2>3 DEF Credit
  <1>2. Shape => Numbers
    BY ShapeNumbers
  <1>3. Shape /\ [Next]_vars => Shape'
    BY NextShape
  <1>4. Shape /\ ReplicasAgree /\ [Next]_vars => ReplicasAgree'
    BY NextReplicas
  <1>5. /\ Shape /\ Shape' /\ Numbers /\ Numbers' /\ ReplicasAgree /\ Credit
        /\ [Next]_vars
        => Credit'
    BY NextCredit
  <1>6. Shape /\ Credit => PlacementsCaused
    BY CreditCovers
  <1>7. QED
    BY <1>1, <1>2, <1>3, <1>4, <1>5, <1>6, PTL DEF Spec
=============================================================================
