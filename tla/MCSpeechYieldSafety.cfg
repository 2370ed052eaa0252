SPECIFICATION Spec
CONSTANTS
    NoOne = NoOne
    Turns = {t1, t2}
    Speaks = {s1, s2}
    Ops = {o1}
    MaxPending = 1
    LateControl = FALSE
    Unlocked = {s1, s2}
    Overrun = FALSE
SYMMETRY Symmetry
INVARIANTS
    QueueIsHonest
PROPERTIES
    ImplementsGpuUse
CHECK_DEADLOCK FALSE
