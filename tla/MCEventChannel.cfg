CONSTANTS
    Capacity = 2
    MaxEvents = 5
SPECIFICATION FairSpec
INVARIANTS InOrder NoLostWake
PROPERTIES EventsWake
CHECK_DEADLOCK FALSE
