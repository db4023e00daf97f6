\* What the user and the environment do is bounded: no deadlock check.
SPECIFICATION FairSpec
INVARIANTS NothingTwice CompletedTrue
PROPERTIES NothingLost FinalStays ResourcesSettle
CHECK_DEADLOCK FALSE
