\* One service of each policy and one switched off; PIDs are scarce and are given out again.
SPECIFICATION FairSpec
CONSTANTS
    NServices = 4
    Enabled = {1, 2, 3}
    Policy <- MCPolicy
    Pids = {2, 3, 4, 5}
    MaxExits = 3
    MaxForks = 1
    MaxFaults = 1
INVARIANTS TypeOK TrackingTrue OneInstance
PROPERTIES StaysDown ComesBack Reaped
CHECK_DEADLOCK FALSE
