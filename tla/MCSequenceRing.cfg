SPECIFICATION Spec
CONSTANTS
    Capacity = 2
    Values = {a, b}
    Vacant = Vacant
    Producers = {p1, p2}
    Consumers = {c1, c2}
    Topologies = {"Mpsc", "Spmc", "Mpmc"}
    MaxPushes = 4
SYMMETRY Interchangeable
INVARIANTS
    CellSafety
PROPERTIES
    StorageSpec
    FailuresAreReal
