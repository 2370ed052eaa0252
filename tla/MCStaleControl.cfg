SPECIFICATION Spec
CONSTANTS
    NoOne = NoOne
    Prompts = {"first", "second"}
    Controls = {"click"}
    ActionId <- MCActionId
    Cid <- MCCid
    MaxStartFailures = 0
    MaxFaults = 0
PROPERTIES
    ControlIsCurrent
CHECK_DEADLOCK FALSE
