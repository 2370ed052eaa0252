SPECIFICATION Spec
CONSTANTS
    NoOne = NoOne
    Turns = {t1, t2}
    Speaks = {s1}
    Ops = {}
    MaxPending = 1
    LateControl = FALSE
    Unlocked = {}
    Overrun = FALSE
INVARIANTS
    ProbeRebinds
CHECK_DEADLOCK FALSE
