\* Three nodes, a job that can be placed and one that cannot, one fault.
SPECIFICATION FairSpec
CONSTANTS
    n1 = n1
    n2 = n2
    n3 = n3
    j1 = j1
    j2 = j2
    None = None
    Nodes = {n1, n2, n3}
    Jobs = {j1, j2}
    Fits = {j1}
    Count = 1
    SnapshotEvery = 4
    MaxOps = 2
    MaxFaults = 1
INVARIANTS TypeOK ReplicasAgree Durable PlacementsCaused
PROPERTY JobsPlaced
