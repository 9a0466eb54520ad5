SPECIFICATION Spec
CONSTANTS
    Key = {k1, k2}
    Process = {p1, p2}
    Attempts = 2
    TimesOut = TRUE
    Backoff = TRUE
    Concurrency = 1
    MaxStalled = 1
    MaxCancels = 1
    MaxDeaths = 1
    MaxAccepts = 3
INVARIANTS OneAwaited RefusedNeverRuns
PROPERTIES EveryJobEnds KeepsContract
CHECK_DEADLOCK FALSE
