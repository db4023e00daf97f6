\* The constants are those of RestoreJob, part restore.  What the user and the
\* environment do is bounded: no deadlock check.
SPECIFICATION MCSpec
CONSTANTS
    Restores = {"r1"}
    Specs = {"stop", "nostop", "invalid"}
    Hazards = {"staleEnding", "laggingJobs", "staleStandalone", "editsMidway",
               "deletesMidway", "endingFails", "reentryFails", "repeatsEnding"}
    MaxChanges = 1
    MaxFaults = 1
INVARIANTS CountKept NoOrphanHold
PROPERTIES DeletionFrees ServersSettle SparesServers StandaloneKept
CHECK_DEADLOCK FALSE
