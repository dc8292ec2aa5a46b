SPECIFICATION PollingSpec
CONSTANTS
    Capacity = 4
    Values = {a, b}
    Vacant = Vacant
INVARIANTS
    TypeOK
    SlotSafety
    LiveExactly
    BatchNeverTerminates
PROPERTIES
    FifoSpec
    EventuallyTaken
