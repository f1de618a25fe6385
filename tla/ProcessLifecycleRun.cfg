\* One ephemeral Process, every signal, deletes, outside failures, faults.
SPECIFICATION Spec
CONSTANTS
    r1 = r1
    r2 = r2
    n1 = n1
    Procs = {r1}
    Names = {n1}
    IdentityName <- MCIdentityName
    Roots = {r1}
    Lifetime <- MCAlways
    Exports <- MCBothExports
    Sighup <- MCReconverge
    DependsOn <- MCNoDepends
    Renderable = {r1}
    UserSignals = {"SIGHUP", "SIGTERM", "SIGKILL", "SIGUSR1", "SIGUSR2", "SIGSTOP", "SIGCONT", "unknown signal"}
    UserDeletes = TRUE
    ExternalFailures = TRUE
    Refused = {}
    MaxSeq = 3
    MaxGen = 3
    MaxOps = 3
    MaxFaults = 1
INVARIANTS TypeOK PidGuarded ReconcilesInFlight
PROPERTIES NoResurrection PidStable AttestationChain ReleaseGateFaithful
CHECK_DEADLOCK FALSE
