SPECIFICATION OneSpec
CONSTANTS
    Reqs = {1, 2, 3}
    Pages = {1, 2, 3, 4, 5}
    PoolSizes = {5}
    PageSize = 1
    Tokens = {1, 2}
    Generated = {1}
    MaxLen = 4
    ClientRequests <- Starving
    TableSlots = 2
    PrefillBudget = 1
    MaxTombstones = 3
    MaxRebuilds = 0
    MayAbort = {1}
    Overlap = TRUE
VIEW View
CHECK_DEADLOCK FALSE
INVARIANTS
    SlotsConserved
    RepliesWellFormed
    AckedHoldsNothing
    PagesSuffice
    IdleHoldsNothing
PROPERTIES
    CacheDriven
