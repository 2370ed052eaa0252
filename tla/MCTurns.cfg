SPECIFICATION FairSpec
CONSTANTS
    NoOne = NoOne
    Prompts = {"first"}
    Controls = {"click", "again"}
    ActionId <- MCActionId
    Cid <- MCCid
    MaxStartFailures = 1
    MaxFaults = 1
INVARIANTS
    ActionOnce
    BusyIsReal
    QuietGpu
PROPERTIES
    CancelEnds
    CancelledIsStopped
CHECK_DEADLOCK FALSE
