SPECIFICATION Spec
CONSTANTS
    Request = {r1, r2}
    Canceller = {c1}
    Reconciler = {w1}
    None = None
    Store = "postgres"
    AnyBase = FALSE
    EarlyCancel = FALSE
    SlowRefines = FALSE
    MaxCancels = 1
    MaxCrashes = 0
    r1 = r1
    r2 = r2
    c1 = c1
    w1 = w1
SYMMETRY RequestSymmetry
INVARIANT CancelAnswerHolds
CHECK_DEADLOCK FALSE
