SPECIFICATION Spec
CONSTANTS
    NoOne = NoOne
    Turns = {t1}
    Speaks = {s1}
    Ops = {}
    MaxPending = 1
    LateControl = FALSE
    Unlocked = {}
    Overrun = FALSE
INVARIANTS
    NoSelfBlock
CHECK_DEADLOCK FALSE
