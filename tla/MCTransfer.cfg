SPECIFICATION Spec
CONSTANTS
    Absent = Absent
    Old = Old
    Bundles = {"b1", "b2"}
    Units = {"compact", "quality", "wheels"}
    Swaps <- MCSwaps
    Activates <- MCActivates
    Locked = {"compact", "quality"}
    Fresh = {"quality"}
    WithVenv = {TRUE, FALSE}
    MaxAttempts = 3
    MaxKills = 1
INVARIANTS
    FailureRestores
    SuccessInstalls
    CopyKept
CHECK_DEADLOCK FALSE
