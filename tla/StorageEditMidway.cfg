\* A second edit of the size before the held template is written back.
SPECIFICATION Spec
CONSTANTS
    N = 3
    Sizes = {1, 2, 3}
    LaggingRecord = FALSE
    EditsMidway = TRUE
    UnreadRevisions = FALSE
    LostMidway = FALSE
    MaxEdits = 2
    MaxRestarts = 0
    MaxLost = 0
INVARIANTS
    KeepsRevision
CHECK_DEADLOCK FALSE
