---------------------------- MODULE StableClaims ----------------------------
(***************************************************************************)
(* The stable-name registry of tatara-reconciler.  A Process that sets     *)
(* stable_name_claim wants the short DNS name of each app it serves.  Two  *)
(* controllers share the registry ProcessTable.status.claims:              *)
(*                                                                         *)
(*   - the ProcessTable controller (table_controller::reconcile) lists all *)
(*     Processes, reads the table, decides every name with                 *)
(*     claim::decide_claim_for and writes the registry back;               *)
(*   - the Process controller, in handle_execing only, reads the registry  *)
(*     and renders the stable edges of a Process that it finds there.      *)
(*                                                                         *)
(* Each API call is an action.  Processes come, re-render and go between   *)
(* any two of them, as ProcessReconciler moves them.  The time stamp of a  *)
(* claim is left out: nothing decides on it.                               *)
(***************************************************************************)
EXTENDS Integers, FiniteSets

CONSTANTS
    Procs,      \* Processes with stable_name_claim, by <namespace>/<name>
    Keys,       \* registry keys <cluster>/<app>
    Apps,       \* [Procs -> SUBSET Keys], the keys of spec.routing.hostnames
    Priorities, \* values users give spec.routing.priority
    RefOrder,   \* [Procs -> Nat], ASCII order of <namespace>/<name>
    MaxOps,     \* bound on creations, edits, re-renders, exits and removals
    MaxFaults   \* bound on failed calls and restarts

ASSUME StableClaimsAssumption ==
    /\ IsFiniteSet(Procs)
    /\ Apps \in [Procs -> SUBSET Keys]
    /\ Priorities \subseteq Int /\ 0 \in Priorities
    /\ RefOrder \in [Procs -> Nat]
    /\ \A p, q \in Procs : RefOrder[p] = RefOrder[q] => p = q
    /\ {MaxOps, MaxFaults} \subseteq Nat

VARIABLES
    obj,      \* [Procs -> ProcessObject], the Processes in the API server
    clock,    \* the API server's clock, as creationTimestamp shows it
    nextPid,  \* ProcessTable.spec.nextSequence
    claims,   \* [Keys -> ClaimRecord or NoClaim], status.claims
    arbiter,  \* the ProcessTable reconcile under way
    exec,     \* [Procs -> ExecStates], each handle_execing under way
    edges,    \* [Procs -> SUBSET Keys], stable edges in the cluster
    ops, faults

vars == <<obj, clock, nextPid, claims, arbiter, exec, edges, ops, faults>>

-----------------------------------------------------------------------------
Absent == "Absent"

\* "Execing" stands for every phase on the way to Running, Reconverging
\* included, and "Exiting" for every phase from which no Process comes back.
Phases == {"Execing", "Running", "Attested", "Exiting", Absent}

\* served is a history variable: the Process has been Running.
ProcessObject == [phase : Phases, pid : Nat, created : Nat,
                  priority : Priorities, served : BOOLEAN]
NoProcess == [phase |-> Absent, pid |-> 0, created |-> 0, priority |-> 0,
              served |-> FALSE]

ClaimRecord == [holder : Procs, pid : Nat, priority : Priorities]
NoClaim     == [vacant |-> TRUE]
Registry    == [Keys -> ClaimRecord \cup {NoClaim}]

ExecStates == {"idle", "held", "unheld", "applied"}

-----------------------------------------------------------------------------
(* claim.rs: the decision for one key.                                     *)

\* Mutant: a Process that is still being rendered counts as live.
IsLive_Starting(o) == o.phase \in {"Execing", "Running", "Attested"}

\* LIVE_PHASES_FOR_CLAIM
IsLive(o) == o.phase \in {"Running", "Attested"}

\* The order of best_candidate: priority, then age, then name.
Outranks(list, p, q) ==
    \/ list[p].priority > list[q].priority
    \/ /\ list[p].priority = list[q].priority
       /\ \/ list[p].created < list[q].created
          \/ /\ list[p].created = list[q].created
             /\ RefOrder[p] < RefOrder[q]

LiveCandidates(list, k) == {p \in Procs : k \in Apps[p] /\ IsLive(list[p])}

\* Mutant: age is not looked at.
BestCandidate_Ageless(list, live) ==
    CHOOSE p \in live : \A q \in live :
        \/ list[p].priority > list[q].priority
        \/ list[p].priority = list[q].priority /\ RefOrder[p] <= RefOrder[q]

BestCandidate(list, live) ==
    CHOOSE p \in live : \A q \in live : q = p \/ Outranks(list, p, q)

MatchesHolder(list, p, c) ==
    c # NoClaim /\ c.holder = p /\ c.pid = list[p].pid

\* Mutant: the record outbids every candidate of the winner's priority.
Transfer_Outbids(list, p) ==
    [holder |-> p, pid |-> list[p].pid, priority |-> list[p].priority + 1]

Transfer(list, p) ==
    [holder |-> p, pid |-> list[p].pid, priority |-> list[p].priority]

\* Mutant: a name without live candidates is left as it is.
DecideClaimFor_KeepsDead(list, k, current) ==
    LET live   == LiveCandidates(list, k)
        winner == BestCandidate(list, live)
    IN  IF live = {} \/ MatchesHolder(list, winner, current) THEN current
        ELSE Transfer(list, winner)

\* decide_claim_for: Vacate, Hold or Transfer.
DecideClaimFor(list, k, current) ==
    LET live   == LiveCandidates(list, k)
        winner == BestCandidate(list, live)
    IN  IF live = {} THEN NoClaim
        ELSE IF MatchesHolder(list, winner, current) THEN current
        ELSE Transfer(list, winner)

-----------------------------------------------------------------------------
NoClaims    == [k \in Keys |-> NoClaim]
IdleArbiter == [step |-> "idle", list |-> [p \in Procs |-> NoProcess],
                new |-> NoClaims]

Init ==
    /\ obj = [p \in Procs |-> NoProcess]
    /\ clock = 0
    /\ nextPid = 1
    /\ claims = NoClaims
    /\ arbiter = IdleArbiter
    /\ exec = [p \in Procs |-> "idle"]
    /\ edges = [p \in Procs |-> {}]
    /\ ops = 0
    /\ faults = 0

-----------------------------------------------------------------------------
(* The ProcessTable controller.                                            *)

\* List every Process cluster-wide.
ListProcesses ==
    /\ arbiter.step = "idle"
    /\ arbiter' = [arbiter EXCEPT !.step = "listed", !.list = obj]
    /\ UNCHANGED <<obj, clock, nextPid, claims, exec, edges, ops, faults>>

\* Decide every key against the registry that was read; the reconcile is
\* over when nothing changes.
DecideAgainst(current) ==
    LET new == [k \in Keys |-> DecideClaimFor(arbiter.list, k, current[k])]
    IN  arbiter' = IF new = current THEN IdleArbiter
                   ELSE [arbiter EXCEPT !.step = "decided", !.new = new]

ReadTable ==
    /\ arbiter.step = "listed"
    /\ DecideAgainst(claims)
    /\ UNCHANGED <<obj, clock, nextPid, claims, exec, edges, ops, faults>>

\* A failed read of the table counts as an empty registry.
ReadTableFails ==
    /\ arbiter.step = "listed"
    /\ faults < MaxFaults
    /\ faults' = faults + 1
    /\ DecideAgainst(NoClaims)
    /\ UNCHANGED <<obj, clock, nextPid, claims, exec, edges, ops>>

\* Server-side apply of the whole map: keys left out are removed.  The body
\* has neither apiVersion nor kind, for which a real API server refuses it and
\* every write is lost as in LoseArbiter; it is taken to succeed here, so that
\* what the arbiter decides is checked at all.
PatchClaims ==
    /\ arbiter.step = "decided"
    /\ claims' = arbiter.new
    /\ arbiter' = IdleArbiter
    /\ UNCHANGED <<obj, clock, nextPid, exec, edges, ops, faults>>

\* The patch fails and is only logged, or the controller restarts.
LoseArbiter ==
    /\ arbiter.step # "idle"
    /\ faults < MaxFaults
    /\ faults' = faults + 1
    /\ arbiter' = IdleArbiter
    /\ UNCHANGED <<obj, clock, nextPid, claims, exec, edges, ops>>

-----------------------------------------------------------------------------
(* handle_execing: the stable edges of a Process that holds a claim.       *)

\* process_holds_any_claim: any key, and the name only, not the PID.
HoldsAnyClaim(p) == \E k \in Keys : claims[k] # NoClaim /\ claims[k].holder = p

ReadClaim(p) ==
    /\ obj[p].phase = "Execing"
    /\ exec[p] = "idle"
    /\ exec' = [exec EXCEPT ![p] = IF HoldsAnyClaim(p) THEN "held" ELSE "unheld"]
    /\ UNCHANGED <<obj, clock, nextPid, claims, arbiter, edges, ops, faults>>

ReadClaimFails(p) ==
    /\ obj[p].phase = "Execing"
    /\ exec[p] = "idle"
    /\ faults < MaxFaults
    /\ faults' = faults + 1
    /\ exec' = [exec EXCEPT ![p] = "unheld"]
    /\ UNCHANGED <<obj, clock, nextPid, claims, arbiter, edges, ops>>

\* render_routing and apply_owned: every app of the Process, or none.
ApplyRoutes(p) ==
    /\ exec[p] \in {"held", "unheld"}
    /\ edges' = IF exec[p] = "held" THEN [edges EXCEPT ![p] = Apps[p]] ELSE edges
    /\ exec' = [exec EXCEPT ![p] = "applied"]
    /\ UNCHANGED <<obj, clock, nextPid, claims, arbiter, ops, faults>>

PatchRunning(p) ==
    /\ exec[p] = "applied"
    /\ obj' = [obj EXCEPT ![p].phase = "Running", ![p].served = TRUE]
    /\ exec' = [exec EXCEPT ![p] = "idle"]
    /\ UNCHANGED <<clock, nextPid, claims, arbiter, edges, ops, faults>>

\* A call of handle_execing fails; the next reconcile starts it over.
LoseExec(p) ==
    /\ exec[p] # "idle"
    /\ faults < MaxFaults
    /\ faults' = faults + 1
    /\ exec' = [exec EXCEPT ![p] = "idle"]
    /\ UNCHANGED <<obj, clock, nextPid, claims, arbiter, edges, ops>>

-----------------------------------------------------------------------------
(* The rest of a Process's life, as far as the registry sees it.           *)

Operation == ops < MaxOps /\ ops' = ops + 1

\* Two Processes may be created within one second.  handle_forking gives the
\* PID before anything here looks at the Process; that no two get the same one
\* is taken from the API server here, though two reconciles at once can break
\* it (UniquePids in ProcessReconciler).  Apps stands for hostnames that are not
\* edited.
Create(p) ==
    /\ Operation
    /\ obj[p].phase = Absent
    /\ \E now \in {clock, clock + 1} :
          /\ clock' = now
          /\ obj' = [obj EXCEPT ![p] = [NoProcess EXCEPT !.phase = "Execing",
                                                         !.pid = nextPid,
                                                         !.created = now]]
    /\ nextPid' = nextPid + 1
    /\ UNCHANGED <<claims, arbiter, exec, edges, faults>>

\* The user edits spec.routing.priority.
Reprioritise(p) ==
    /\ Operation
    /\ obj[p].phase # Absent
    /\ \E n \in Priorities \ {obj[p].priority} :
          obj' = [obj EXCEPT ![p].priority = n]
    /\ UNCHANGED <<clock, nextPid, claims, arbiter, exec, edges, faults>>

Attest(p) ==
    /\ obj[p].phase = "Running"
    /\ obj' = [obj EXCEPT ![p].phase = "Attested"]
    /\ UNCHANGED <<clock, nextPid, claims, arbiter, exec, edges, ops, faults>>

\* SIGHUP or drift: the Process is rendered again.
Reconverge(p) ==
    /\ Operation
    /\ IsLive(obj[p])
    /\ obj' = [obj EXCEPT ![p].phase = "Execing"]
    /\ UNCHANGED <<clock, nextPid, claims, arbiter, exec, edges, faults>>

\* A signal, a failure or a delete ends the Process.
Leave(p) ==
    /\ Operation
    /\ obj[p].phase \notin {"Exiting", Absent}
    /\ exec[p] = "idle"
    /\ obj' = [obj EXCEPT ![p].phase = "Exiting"]
    /\ UNCHANGED <<clock, nextPid, claims, arbiter, exec, edges, faults>>

\* The object is removed; its edges go with their owner.
Remove(p) ==
    /\ Operation
    /\ obj[p].phase = "Exiting"
    /\ obj' = [obj EXCEPT ![p] = NoProcess]
    /\ edges' = [edges EXCEPT ![p] = {}]
    /\ UNCHANGED <<clock, nextPid, claims, arbiter, exec, faults>>

-----------------------------------------------------------------------------
ArbiterNext == ListProcesses \/ ReadTable \/ ReadTableFails \/ PatchClaims
                 \/ LoseArbiter

ProcessNext(p) ==
    \/ ReadClaim(p) \/ ReadClaimFails(p) \/ ApplyRoutes(p) \/ PatchRunning(p)
    \/ LoseExec(p) \/ Create(p) \/ Reprioritise(p) \/ Attest(p) \/ Reconverge(p)
    \/ Leave(p) \/ Remove(p)

Next == ArbiterNext \/ \E p \in Procs : ProcessNext(p)

Spec == Init /\ [][Next]_vars

-----------------------------------------------------------------------------
(* What makes the registry correct.                                        *)

\* Type invariant of the registry, the Processes and both controllers.
TypeOK ==
    /\ obj \in [Procs -> ProcessObject]
    /\ clock \in Nat
    /\ nextPid \in Nat
    /\ claims \in Registry
    /\ arbiter \in [step : {"idle", "listed", "decided"},
                    list : [Procs -> ProcessObject], new : Registry]
    /\ exec \in [Procs -> ExecStates]
    /\ edges \in [Procs -> SUBSET Keys]
    /\ ops \in Nat
    /\ faults \in Nat

\* A name is granted to what has answered: the holder of a claim declares
\* the app, and while it is the same incarnation (the same PID) it has been
\* Running.  "traffic must not be routed to a Process that isn't answering
\* yet" (claim.rs), whatever happened since the Processes were listed.
ClaimsGrounded ==
    \A k \in Keys :
        claims[k] # NoClaim =>
            /\ k \in Apps[claims[k].holder]
            /\ claims[k].pid = obj[claims[k].holder].pid
                 => obj[claims[k].holder].served

\* A holder that was live when the round listed the Processes loses its name
\* only to a live Process of higher priority, or of the same priority and
\* older, or of the same age and first by name; so names do not flap.
Ousted(k, p) ==
    /\ MatchesHolder(arbiter.list, p, claims[k])
    /\ claims'[k] # claims[k]
OustedForCause ==
    [][\A k \in Keys : \A p \in Procs :
          Ousted(k, p) /\ p \in LiveCandidates(arbiter.list, k) =>
              /\ claims'[k] # NoClaim
              /\ claims'[k].holder \in LiveCandidates(arbiter.list, k)
              /\ ~Outranks(arbiter.list, p, claims'[k].holder)]_vars

\* Whatever the registry held and whether or not it could be read, a write of
\* it leaves no name with a Process that was not live, or was another
\* incarnation, when the round listed the Processes: a dead holder goes, and
\* its successor under the same name does not inherit its record.
DeadNamesLeave ==
    [][claims' # claims =>
          \A k \in Keys : claims'[k] # NoClaim =>
              \E p \in LiveCandidates(arbiter.list, k) :
                  MatchesHolder(arbiter.list, p, claims'[k])]_vars

-----------------------------------------------------------------------------
(* What the documentation says and the code does not do.                   *)

\* "at most one Process per (cluster, app) holds the stable-form DNS name at
\* any moment" (claim.rs): no two Processes have stable edges for one key.
StableNameExclusive ==
    \A p, q \in Procs : p # q => edges[p] \cap edges[q] = {}
=============================================================================
