\* A root and a child that depends on it: cascades, concurrent reconciles, faults.
SPECIFICATION Spec
CONSTANTS
    r1 = r1
    r2 = r2
    n1 = n1
    Procs = {r1, r2}
    Names = {n1}
    IdentityName <- MCIdentityName
    Roots = {r1}
    Lifetime <- MCPermanent
    Exports <- MCNoExports
    Sighup <- MCReconverge
    DependsOn <- MCChildNeedsRoot
    Renderable = {r1, r2}
    UserSignals = {"SIGTERM"}
    UserDeletes = TRUE
    ExternalFailures = TRUE
    Refused = {"stamp", "jobs"}
    MaxSeq = 3
    MaxGen = 1
    MaxOps = 2
    MaxFaults = 1
PROPERTIES RefinesLifecycle
CHECK_DEADLOCK FALSE
