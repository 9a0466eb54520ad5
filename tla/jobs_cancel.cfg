SPECIFICATION Spec
CONSTANTS
    Variation = {v1, v2}
    None = None
    Store = "postgres"
    Gateway = "babel-o"
    Flaw = {}
    MaxRepairs = 0
    LostBase = FALSE
    MaxEvents = 1
    MaxPages = 1
    MaxConfirms = 0
    MaxBusy = 0
    MaxUpsets = 1
    v1 = v1
    v2 = v2
PROPERTY JobSettles
CHECK_DEADLOCK FALSE
