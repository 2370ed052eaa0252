SPECIFICATION Spec
CONSTANTS
    NoOne = NoOne
    Turns = {t1}
    Speaks = {s1, s2}
    Ops = {}
    MaxPending = 2
    LateControl = TRUE
    Unlocked = {}
    Overrun = FALSE
INVARIANTS
    NoOverlap
CHECK_DEADLOCK FALSE
