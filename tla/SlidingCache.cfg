SPECIFICATION OneSpec
CONSTANTS
    PageSize = 1
    Reqs = {1, 2}
    MMReqs = {}
    NumPages = 6
    NumSwa = 14
    TableSlots = 2
    Window = 2
    RetainGap = 0
    Interval = 1
    AnchorReqs = {}
    Sampled = {1}
    Prompts <- LongPrompts
    Budgets = {4}
    MaxLen = 6
VIEW View
INVARIANTS
    PoolsConserved
    WindowLocksExact
    WindowSlotsSuffice
PROPERTIES
    PassesReadOwnKV
