------------------------- MODULE RestoreParameters --------------------------
(* The parameters of RestoreJob, and what its theorems take of them.       *)
EXTENDS Integers, FiniteSets

CONSTANTS
    Restores,      \* Neo4jRestores of one standalone
    Specs,         \* what their specs may ask for
    Hazards,       \* what may go wrong besides restarts and failed status writes
    MaxChanges,    \* bound on the edits and deletions of the user
    MaxFaults      \* bound on the restarts and the failed writes

ASSUME RestoreAssumption ==
    /\ IsFiniteSet(Restores) /\ "nobody" \notin Restores
    /\ Specs \subseteq {"stop", "nostop", "invalid"} /\ Specs # {}
    /\ Hazards \subseteq
         {"staleEnding",     \* a pass reads a restore from before the write that ended it
          "laggingJobs",     \* a pass misses a Job created since its cache was filled
          "staleStandalone", \* the standalone controller misses the annotation
          "editsMidway",     \* the user edits a restore before its attempt ended
          "deletesMidway",   \* the user deletes a restore before its attempt ended
          "endingFails",     \* scaling the standalone back, or letting it go, fails or misses it
          "reentryFails",    \* a pass fails on an attempt whose Job exists or that holds
          "repeatsEnding"}   \* an ending is repeated while there are other restores
    /\ {MaxChanges, MaxFaults} \subseteq Nat
=============================================================================
