CONSTANTS
    c1 = c1  c2 = c2  r1 = r1  r2 = r2  x = x  d1 = d1  d2 = d2
    NoId = NoId  Unchanged = Unchanged  None = None
    Clients = {c1, c2}
    Runtimes = {r1}
    Names = {x, 1, 2}
    Data = {d1, d2, Unchanged}
    Changes <- ChangeSets
    MaxVersion = 6
SPECIFICATION Spec
SYMMETRY Interchangeable
INVARIANTS IndexCoherent CommitUndoable
PROPERTIES NoLostUpdate HistorySpec
CHECK_DEADLOCK FALSE
