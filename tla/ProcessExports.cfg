\* An ephemeral Process with exports, against an API server that refuses the stamp and the Jobs.
SPECIFICATION FairSpec
CONSTANTS
    r1 = r1
    r2 = r2
    n1 = n1
    Procs = {r1}
    Names = {n1}
    IdentityName <- MCIdentityName
    Roots = {r1}
    Lifetime <- MCAlways
    Exports <- MCOneExport
    Sighup <- MCReconverge
    DependsOn <- MCNoDepends
    Renderable = {r1}
    UserSignals = {}
    UserDeletes = FALSE
    ExternalFailures = FALSE
    Refused = {"stamp", "jobs"}
    MaxSeq = 3
    MaxGen = 2
    MaxOps = 0
    MaxFaults = 0
PROPERTY ExpiryReleases
CHECK_DEADLOCK FALSE
