SPECIFICATION Spec
CONSTANTS
    NoTurn = NoTurn
    NoFile = NoFile
    Gone = Gone
    Turns = {t1, t2}
    Kept = 3
    Checkpoint = 2
    MaxText = 2
    MaxFaults = 1
    MaxCrashes = 1
INVARIANTS
    ActiveHasThread
CHECK_DEADLOCK FALSE
