CONSTANTS
    p1 = p1  p2 = p2  c1 = c1  c2 = c2  k1 = k1
    s1 = s1  s2 = s2  s3 = s3  s4 = s4  r1 = r1  r2 = r2  v1 = v1
    None = None
    Capacity = 2
    Values <- Elements
    Producers = {p1, p2}
    Consumers = {c1, c2}
    Controllers = {k1}
    Topologies = {"Spsc", "Mpsc", "Spmc", "Mpmc"}
    PushOps = {s1, s2, s3}
    PopOps = {r1, r2}
    TryValues = {}
    Size <- Ones
    Limit <- OneEach
    Policy <- AllSuspend
    Retries <- NoRetries
    Stoppable = {}
    MayTryPop = FALSE
    MayAbort = FALSE
    StoreBuffers = FALSE
SPECIFICATION Spec
SYMMETRY Interchangeable
INVARIANTS OneAtATime CallsInOrder NobodyStranded StopIsFinal CellsDisjoint
PROPERTIES FifoSpec
CHECK_DEADLOCK FALSE
