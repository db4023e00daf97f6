\* The constants are those of part stops.  The user's edits are bounded, so the
\* behaviours end: no deadlock check.
SPECIFICATION MCSpec
CONSTANTS
    N = 2
    Tags = {1, 2, 3}
    FirstTag = 1
    Unpullable = {2}
    Crashing = {3}
    AutoPause = TRUE
    HealthChecks = TRUE
    GatedUpdate = TRUE
    LowerEdits = TRUE
    EditsInFlight = TRUE
    MaxEdits = 2
    MaxLost = 1
    MaxTimeouts = 0
INVARIANTS PartitionBehind VersionRan WalkSafe SizesFit
PROPERTIES PauseHolds WalkOwned
CHECK_DEADLOCK FALSE
