\* What the user asks for is bounded, so the behaviours end: no deadlock check.
SPECIFICATION MCSpec
CONSTANTS
    MaxServers = 3
    MaxGens = 2
    Sizes = {1, 2, 3}
    MinPrimaries = 1
    StaleCopies = FALSE
    StaleSts = FALSE
    AddressLoss = TRUE
    EditsWhileJoining = FALSE
    Refusals = FALSE
    MaxEdits = 2
    MaxLost = 1
    MaxHand = 1
    MaxCordons = 1
INVARIANTS CordonRecorded DrainedBeforeRemoved
PROPERTIES  StaleSafe
CHECK_DEADLOCK FALSE
