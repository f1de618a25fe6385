\* kubectl delete of a Process, with fair reconciles.
SPECIFICATION FairSpec
CONSTANTS
    r1 = r1
    r2 = r2
    n1 = n1
    Procs = {r1}
    Names = {n1}
    IdentityName <- MCIdentityName
    Roots = {r1}
    Lifetime <- MCPermanent
    Exports <- MCNoExports
    Sighup <- MCReconverge
    DependsOn <- MCNoDepends
    Renderable = {r1}
    UserSignals = {}
    UserDeletes = TRUE
    ExternalFailures = FALSE
    Refused = {"stamp", "jobs"}
    MaxSeq = 3
    MaxGen = 1
    MaxOps = 1
    MaxFaults = 0
PROPERTY DeletionCompletes
CHECK_DEADLOCK FALSE
