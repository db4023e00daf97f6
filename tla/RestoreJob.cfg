\* Two restores that stop the standalone.  The restores end: no deadlock check.
SPECIFICATION MCSpec
CONSTANTS
    Restores = {"r1", "r2"}
    Specs = {"stop"}
    Hazards = {}
    MaxChanges = 1
    MaxFaults = 1
INVARIANTS
    StoreExclusive
    CompletedRestored
PROPERTIES
    InstanceReturns
CHECK_DEADLOCK FALSE
