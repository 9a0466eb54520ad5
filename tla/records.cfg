SPECIFICATION MCSpec
CONSTANTS
    w1 = w1
    w2 = w2
    q1 = q1
    api = api
    worker = worker
    NoRow = NoRow
    McpCall = {w1, w2}
    MaxRuns = 2
    MaxRaces = 1
    Writer = {w1, w2}
    ArtifactRequest = {q1}
    Stores = {"memory", "postgres"}
    MaxPages = 3
    MaxRendering = 1
    MaxTotal = 4
    MaxWrites = 3
SYMMETRY WriterSymmetry
INVARIANTS VersionsStayApart ExportsWhole ReplayIsTheAnswer SameAnswers
CHECK_DEADLOCK FALSE
