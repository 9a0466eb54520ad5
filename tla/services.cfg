SPECIFICATION MCSpec
CONSTANTS
    q1 = q1
    q2 = q2
    v1 = v1
    v2 = v2
    l1 = l1
    l2 = l2
    d1 = d1
    Refine = Refine
    NoUnit = NoUnit
    Request = {q1, q2}
    MaxPatch = 3
    MaxRaces = 1
    MaxArtifacts = 2
    MaxContextJobs = 2
    Delivery = {d1}
    Variation = {v1, v2}
    Concurrency = 1
    MaxCancels = 1
    OAuthProvider = {"google", "github"}
    MaxUsers = 2
    MaxFailures = 2
    Module = {1, 2, 3}
    PlannerInput <- PlannerInputs
    AnyInput <- FirstInput
    Call = {d1}
    MaxUpsets = 1
    Seeded = d1
    Found = {v1, v2}
    MaxModelChanges = 4
    MaxModelOverlaps = 1
    MaxStarts = 1
    Title = {"one", "two"}
    MaxSessionJobs = 2
    MaxRuntime = 3
    MaxSessionChanges = 4
    MaxSessionOverlaps = 2
    Process = {v1, v2}
    Plugin = {d1}
    Pack = {1, 2, 3}
    Score <- Suits
    Selection <- Jobs
    MaxSelected = 2
    MaxChanges = 2
    Lane = {l1, l2}
    RootOf <- OwnWorkspace
    LaneRetries = 1
    CapacityRetries = 1
    MaxDrafts <- Drafts
SYMMETRY ServicesSymmetry
INVARIANTS PublishedIsReviewed ContextsAsReported
           ProcessesWatched AnsweredCanReturn
           RequestServed QuietPageSettled CancelledIsLeft OperatorsDecide LastWordStands
           VariationsRetryable DisabledStaysOut RetryRepeats
           TranscriptTruthful
CHECK_DEADLOCK FALSE
