SPECIFICATION Spec
CONSTANTS
    LaneCount = 2
    MaxConcurrent <- OneSlotEach
    Weight <- EqualWeights
    s1 = s1
    s2 = s2
    s3 = s3
    r1 = r1
    Stream = {s1, s2}
    Refines = {s1}
    Request = {r1}
    RequestOf <- OneRequest
    LaneRetryAttempts = 1
    StateStore = "file"
    MkdirMayFail = TRUE
    SaveMayFail = TRUE
    MaxRestarts = 2
INVARIANTS LeaseInvariant AckedStreamsDurable AckedCancelSticks

CHECK_DEADLOCK FALSE
