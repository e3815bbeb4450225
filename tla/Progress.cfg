SPECIFICATION FairSpec
CHECK_DEADLOCK FALSE
PROPERTIES
    DaemonActs
    StreamsMove
