----------------------------- MODULE MCUpgrade -----------------------------
(* Safety of rolling upgrades, and of the memory sizes a server is given.  *)
(* part says which instance a behaviour is of:                             *)
(*   stops  - RollingUpgrade itself with the constants of the cfg: two     *)
(*            servers, edits up and down at any moment, an image that does *)
(*            not pull, one that crashes, autoPauseOnFailure, deadlines    *)
(*            that come once nothing moves any more;                       *)
(*   walk   - three servers, one edit, an image that may not pull, a lost  *)
(*            pod or an early deadline;                                    *)
(*   memory - every combination of a few sizes.                            *)
EXTENDS RollingUpgrade

VARIABLES part, wobj, wcache, wsts, wst, wpods, wstore, wop, wused
other == <<wobj, wcache, wsts, wst, wpods, wstore, wop, wused>>

Walk == INSTANCE RollingUpgrade WITH
          N <- 3, Tags <- 1 .. 2, Unpullable <- {2}, Crashing <- {},
          AutoPause <- FALSE, GatedUpdate <- FALSE, LowerEdits <- FALSE,
          EditsInFlight <- FALSE, MaxEdits <- 1, MaxTimeouts <- 1,
          obj <- wobj, cache <- wcache, sts <- wsts, st <- wst, pods <- wpods,
          store <- wstore, op <- wop, used <- wused
Sizing == INSTANCE MemorySizing WITH
          spec <- wobj, at <- wop,
          Limits <- {1024, 1536, 2048, 4096, 6144, 65536},
          Sizes <- {100, 256, 512, 3072}

Rest == wcache = 0 /\ wsts = 0 /\ wst = 0 /\ wpods = 0 /\ wstore = 0 /\ wused = 0
MCInit == /\ Init
          /\ \/ part = "stops" /\ wobj = 0 /\ wop = 0 /\ Rest
             \/ part = "walk" /\ Walk!Init
             \/ part = "memory" /\ Sizing!Init /\ Rest

LostOrEarly == wused'.lost = 0 \/ wused'.timeouts = 0
MCNext == /\ UNCHANGED part
          /\ \/ part = "stops" /\ Next /\ UNCHANGED other
             \/ part = "walk" /\ Walk!Next /\ LostOrEarly /\ UNCHANGED vars
             \/ /\ part = "memory" /\ Sizing!Next
                /\ UNCHANGED <<vars, wcache, wsts, wst, wpods, wstore, wused>>

MCSpec == MCInit /\ [][MCNext]_<<part, vars, other>>

\* No server of the walk starts below a version its store has run, none that the
\* machine has not released moves, and one is down at a time.
WalkSafe == part = "walk" => /\ Walk!NoDowngrade
                             /\ Walk!BelowPartition
                             /\ Walk!OneServerDown
\* Only the machine moves the template or the partition of a walk.
WalkOwned == [][part = "walk" => Walk!OwnedStep]_<<part, other>>

\* The sizes of a server fit the limit and each other, and the user's are used.
SizesFit == part = "memory" => /\ Sizing!WrittenSizesFit /\ Sizing!DerivedSizesFit
                               /\ Sizing!HeapCoherent /\ Sizing!HeapHonoured
                               /\ Sizing!TransactionsFitHeap
=============================================================================
