SPECIFICATION FairSpec
CONSTANTS
    Streams = {s1, s2}
    Buffers = {b1}
    Ring = 1
    Producers = {s1}
    Drains = {s1}
    Shared = FALSE
    MaxSubmits = 3
    MaxSignals = 1
    MaxRefusals = 1
INVARIANTS
    NoLiveReuse
    ConsumerAfterProducer
PROPERTIES
    CaughtUp
CHECK_DEADLOCK FALSE
