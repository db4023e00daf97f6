SPECIFICATION FairSpec
CONSTANTS
    Backups = {"full", "diff"}
    HistoryCap = 2
    KeptSucceeded = 2
    KeptFailed = 1
    Scenes <- AllScenes
CHECK_DEADLOCK FALSE
INVARIANTS RecordTrue
PROPERTIES RunsKept BackupsSettle
