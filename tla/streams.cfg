SPECIFICATION StreamsSpec
CONSTANTS
    v1 = v1
    v2 = v2
    Refine = Refine
    Variation = {v1, v2}
    Concurrency = 1
    ReconnectAttempts = 1
    Shown = {v1}
    Cancels = TRUE
    BufferSize = 2
    MaxDrops = 1
    MaxFetches = 1
INVARIANT EveryVariationHeard
PROPERTIES AcceptedCancelSilences MergeEnds NeverReopens PageHearsTheEnd
CHECK_DEADLOCK FALSE
