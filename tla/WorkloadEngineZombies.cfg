\* A task of a driver that forgets its child exits, and nothing else goes wrong.
SPECIFICATION FairSpec
CONSTANTS
    NTasks = 1
    Detected = {}
    Mode = "OnFailure"
    Attempts = 1
    Counts = {1}
    MaxAllocs = 3
    MaxExits = 1
    MaxEdits = 0
    MaxDrains = 0
    MaxFaults = 0
PROPERTY CountConverges
