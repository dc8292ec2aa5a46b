CONSTANTS
    p1 = p1  p2 = p2  c1 = c1  c2 = c2  k1 = k1
    s1 = s1  s2 = s2  s3 = s3  s4 = s4  r1 = r1  r2 = r2  v1 = v1
    None = None
    Capacity = 2
    Values <- Elements
    Producers = {p1}
    Consumers = {c1}
    Controllers = {k1}
    Topologies = {"Spsc"}
    PushOps = {s1}
    PopOps = {r1}
    TryValues = {v1}
    Size <- Filling
    Limit <- OneEach
    Policy <- AllSuspend
    Retries <- NoRetries
    Stoppable = {r1}
    MayTryPop = FALSE
    MayAbort = TRUE
    StoreBuffers = FALSE
SPECIFICATION FairSpec
INVARIANTS CompletesOnce WaitersCounted
PROPERTIES CallsReturn EndReleasesWaiters
CHECK_DEADLOCK FALSE
