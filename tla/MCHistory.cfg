SPECIFICATION FairSpec
CONSTANTS
    NoTurn = NoTurn
    NoFile = NoFile
    Gone = Gone
    Turns = {t1, t2}
    Kept = 2
    Checkpoint = 2
    MaxText = 2
    MaxFaults = 1
    MaxCrashes = 1
INVARIANTS
    ReaderIsFaithful
    SelectionSurvives
    LossIsBounded
    DoneIsDurable
PROPERTIES
    CancelledStaysSilent
    ReaderLearnsEnd
CHECK_DEADLOCK FALSE
