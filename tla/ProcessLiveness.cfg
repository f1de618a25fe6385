\* Fair runs of one ephemeral Process: signals drain through faults and other signals, leaves are reaped.
SPECIFICATION FairSpec
CONSTANTS
    r1 = r1
    r2 = r2
    n1 = n1
    Procs = {r1}
    Names = {n1}
    IdentityName <- MCIdentityName
    Roots = {r1}
    Lifetime <- MCAlways
    Exports <- MCOneExport
    Sighup <- MCReconverge
    DependsOn <- MCNoDepends
    Renderable = {r1}
    UserSignals = {"SIGTERM", "SIGUSR1", "SIGSTOP"}
    UserDeletes = FALSE
    ExternalFailures = FALSE
    Refused = {"stamp", "jobs"}
    MaxSeq = 5
    MaxGen = 2
    MaxOps = 2
    MaxFaults = 2
PROPERTIES SigtermHonoured LeafDrains
CHECK_DEADLOCK FALSE
