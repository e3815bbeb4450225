SPECIFICATION Spec
CONSTANTS
    Reqs = {1}
    Pages = {1, 2, 3, 4}
    PoolSizes = {4}
    PageSize = 1
    Tokens = {1, 2}
    Generated = {1}
    MaxLen = 4
    ClientRequests <- SharedPrefix
    TableSlots = 2
    PrefillBudget = 2
    MaxTombstones = 3
    MaxRebuilds = 0
    MayAbort = {}
    Overlap = TRUE
VIEW Shape
CHECK_DEADLOCK FALSE
INVARIANTS
    LengthSpendsBudget
