SPECIFICATION Spec
CONSTANTS
    N = 2
    Tags = {1, 2, 3}
    FirstTag = 1
    Unpullable = {}
    Crashing = {}
    AutoPause = FALSE
    HealthChecks = TRUE
    GatedUpdate = FALSE
    LowerEdits = FALSE
    EditsInFlight = TRUE
    MaxEdits = 2
    MaxLost = 1
    MaxTimeouts = 0
INVARIANTS
    NoDowngrade
CHECK_DEADLOCK FALSE
