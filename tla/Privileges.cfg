\* What the user and the environment do is bounded: no deadlock check.
SPECIFICATION FairSpec
CONSTANTS
    None = None
    Unread = Unread
    Absent = Absent
PROPERTIES NothingElseRevoked OutageKeepsReady RolesSettle AccessSettle
CHECK_DEADLOCK FALSE
