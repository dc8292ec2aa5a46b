CONSTANTS
    Capacity = 2
    MaxEvents = 1
SPECIFICATION FairSpec
PROPERTIES StopCompletes
CHECK_DEADLOCK FALSE
