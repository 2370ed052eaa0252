SPECIFICATION Spec
CONSTANTS
    Streams = {s1, s2}
    Buffers = {b1, b2}
    Ring = 1
    Producers = {}
    Drains = {}
    Shared = TRUE
    MaxSubmits = 3
    MaxSignals = 1
    MaxRefusals = 0
INVARIANTS
    NoLiveReuse
CHECK_DEADLOCK FALSE
