CONSTANTS
    c1 = c1  c2 = c2  r1 = r1  r2 = r2  x = x  d1 = d1  d2 = d2
    NoId = NoId  Unchanged = Unchanged  None = None
    Clients = {c1}
    Runtimes = {r1, r2}
    Names = {x, 1, 2}
    Data = {d1, d2, Unchanged}
    Changes <- Edits
    MaxVersion = 6
SPECIFICATION Spec
PROPERTY UndoKeepsLater
CHECK_DEADLOCK FALSE
