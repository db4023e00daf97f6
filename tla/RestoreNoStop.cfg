\* A restore with stopCluster: false beside one that holds the standalone stopped.
SPECIFICATION Spec
CONSTANTS
    Restores = {"r1", "r2"}
    Specs = {"stop", "nostop"}
    Hazards = {}
    MaxChanges = 0
    MaxFaults = 0
INVARIANTS
    StoreExclusive
CHECK_DEADLOCK FALSE
