SPECIFICATION Spec
CONSTANTS
    LaneCount = 2
    MaxConcurrent <- OneSlotEach
    Weight <- EqualWeights
    s1 = s1
    s2 = s2
    s3 = s3
    r1 = r1
    Stream = {s1, s2, s3}
    Refines = {}
    Request = {}
    RequestOf <- NoRequests
    LaneRetryAttempts = 1
    StateStore = "noop"
    MkdirMayFail = FALSE
    SaveMayFail = FALSE
    MaxRestarts = 1
SYMMETRY StreamSymmetry
INVARIANTS TypeOK CapacityRespected SlotAccounting
PROPERTIES ImplementsLeasePool
