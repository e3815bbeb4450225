SPECIFICATION FairSpec
CHECK_DEADLOCK FALSE
PROPERTIES
    MessagesAnswered
    CallersReturn
