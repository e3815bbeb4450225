SPECIFICATION Spec
CONSTANTS
    Reqs = {1, 2}
    Pages = {1, 2, 3}
    PoolSizes = {3}
    PageSize = 4
    Tokens = {1, 2}
    Generated = {1}
    MaxLen = 12
    ClientRequests <- FivePlusOne
    TableSlots = 2
    PrefillBudget = 16
    MaxTombstones = 3
    MaxRebuilds = 0
    MayAbort = {}
    Overlap = TRUE
VIEW Shape
CHECK_DEADLOCK FALSE
INVARIANTS
    AllocationNeverFails
