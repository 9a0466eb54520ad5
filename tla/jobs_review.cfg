SPECIFICATION Spec
CONSTANTS
    Variation = {v1, v2}
    None = None
    Store = "memory"
    Gateway = "cli-agent"
    Flaw = {"crowded"}
    MaxRepairs = 2
    LostBase = FALSE
    MaxEvents = 0
    MaxPages = 2
    MaxConfirms = 1
    MaxBusy = 1
    MaxUpsets = 0
    v1 = v1
    v2 = v2
SYMMETRY VariationSymmetry
INVARIANTS SettledWhenQuiet RepairsBounded
CHECK_DEADLOCK FALSE
