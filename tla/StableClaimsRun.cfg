\* Two claimants of one name, one of them also of a second: edits, failed reads and patches.
SPECIFICATION Spec
CONSTANTS
    p1 = p1
    p2 = p2
    k1 = k1
    k2 = k2
    Procs = {p1, p2}
    Keys = {k1, k2}
    Apps <- MCApps
    Priorities = {0, 1}
    RefOrder <- MCRefOrder
    MaxOps = 4
    MaxFaults = 1
INVARIANTS TypeOK ClaimsGrounded
PROPERTIES OustedForCause DeadNamesLeave
CHECK_DEADLOCK FALSE
