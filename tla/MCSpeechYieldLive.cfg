SPECIFICATION FairSpec
CONSTANTS
    NoOne = NoOne
    Turns = {t1, t2}
    Speaks = {s1}
    Ops = {}
    MaxPending = 2
    LateControl = TRUE
    Unlocked = {}
    Overrun = TRUE
PROPERTIES
    ParkedIsReleased
    TurnEndsUnlessSelfBlocked
    SpeakEnds
CHECK_DEADLOCK FALSE
