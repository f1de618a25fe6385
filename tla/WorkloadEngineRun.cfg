\* A group of two tasks that scales between one and two allocations.
SPECIFICATION FairSpec
CONSTANTS
    NTasks = 2
    Detected = {1, 2}
    Mode = "OnFailure"
    Attempts = 1
    Counts = {1, 2}
    MaxAllocs = 5
    MaxExits = 2
    MaxEdits = 1
    MaxDrains = 1
    MaxFaults = 1
INVARIANTS TypeOK StartsBounded OneLiveCopy Accounted
PROPERTIES CapacityKept CountConverges
