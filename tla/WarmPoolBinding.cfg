\* Both sizing modes with a floor and a ceiling: failures, drift, lost calls,
\* restarts, a lagging Allocation cache, expiry and deletion of the Allocation.
SPECIFICATION Spec
CONSTANTS
    a1 = a1
    NameOrder <- MCNameOrder
    Slots = {0, 1}
    Allocs = {a1}
    Matched = {a1}
    DesiredSize = 1
    MinSize = 1
    MaxSize = 1
    DesiredCounts = {0, 1}
    ReplacementPolicy = "ReplaceImmediate"
    PoolDeletes = FALSE
    AllocDeletes = TRUE
    MaxFaults = 1
INVARIANTS TypeOK SupplyBounded OneMemberEach
PROPERTY BindingStable
CHECK_DEADLOCK FALSE
