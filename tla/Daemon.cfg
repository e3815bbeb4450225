SPECIFICATION Spec
CHECK_DEADLOCK FALSE
INVARIANTS
    StopsAreRecorded
    LogIsHonest
PROPERTIES
    OneServeWatched
    CancelsHold
