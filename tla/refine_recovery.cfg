SPECIFICATION FairSpec
CONSTANTS
    Request = {r1, r2}
    Canceller = {c1}
    Reconciler = {w1, w2}
    None = None
    Store = "postgres"
    AnyBase = FALSE
    EarlyCancel = FALSE
    SlowRefines = FALSE
    MaxCancels = 0
    MaxCrashes = 2
    r1 = r1
    r2 = r2
    c1 = c1
    w1 = w1
    w2 = w2
INVARIANTS OutcomeIsCurrent
PROPERTY OperationsSettle
CHECK_DEADLOCK FALSE
