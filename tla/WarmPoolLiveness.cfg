\* Fair controllers, allocation-driven sizing, one fault: a request is served,
\* the pool settles and drains, exited members are recycled.  Three slots: one
\* bound, one that never finishes exiting, one to replace it.
SPECIFICATION FairSpec
CONSTANTS
    a1 = a1
    NameOrder <- MCNameOrder
    Slots = {0, 1, 2}
    Allocs = {a1}
    Matched = {a1}
    DesiredSize = 1
    MinSize = 0
    MaxSize = 0
    DesiredCounts = {0}
    ReplacementPolicy = "ReplaceImmediate"
    PoolDeletes = TRUE
    AllocDeletes = FALSE
    MaxFaults = 1
PROPERTIES AllocationsServed PoolSettles PoolDrains ExitedRecycled
CHECK_DEADLOCK FALSE
