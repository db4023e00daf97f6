\* The constants are those of StorageExpansion, part grow.  The machines
\* come to rest: no deadlock check.
SPECIFICATION MCSpec
CONSTANTS
    N = 3
    Sizes = {1, 2, 3}
    LaggingRecord = FALSE
    EditsMidway = FALSE
    UnreadRevisions = TRUE
    LostMidway = FALSE
    MaxEdits = 2
    MaxRestarts = 1
    MaxLost = 1
    NoValue = NoValue
INVARIANTS KeepsRevision
PROPERTIES NoRestart SettleRespected PluginsServed MachinesEnd
CHECK_DEADLOCK FALSE
