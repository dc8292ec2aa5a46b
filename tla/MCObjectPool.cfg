CONSTANTS
    Capacity = 3
    t1 = t1  t2 = t2
    Threads = {t1, t2}
    HandleGens = 4
    MaxBulk = 2
    MaxCalls = 3
    MayThrow = TRUE
SPECIFICATION Spec
SYMMETRY Interchangeable
INVARIANTS FreeListIntact SlotsAccountedFor DestroysItsOwn
CHECK_DEADLOCK FALSE
