CONSTANTS
    e1 = e1  e2 = e2  o1 = o1  o2 = o2  a = a  b = b  v1 = v1  v2 = v2
    None = None
    Relations = {a, b}
    Receivers = {v1, v2}
    ReceiverOf <- Reached
    Shared = {v1}
    Priorities <- Ranks
    Budget <- Budgets
    Mask = 3
    Forever = 9
    NewBudgets = {2}
    Emitters = {e1, e2}
    Owners = {o1, o2}
    MaxEmissions = 1
    MaxCalls = 2
SPECIFICATION Spec
SYMMETRY Interchangeable
INVARIANTS BudgetRespected DeliveryOrdered NobodySkipped
PROPERTIES DisconnectIsFinal
CHECK_DEADLOCK FALSE
