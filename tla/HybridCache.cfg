SPECIFICATION OneSpec
CONSTANTS
    PageSize = 1
    Reqs = {1, 2}
    MMReqs = {}
    NumPages = 5
    NumSlots = 8
    TableSlots = 2
    ChunkSize = 1
    Tokens = {1, 2}
    Prompts <- ShortPrompts
    MaxLen = 4
VIEW View
INVARIANTS
    PoolsConserved
    StatesExact
PROPERTIES
    SnapshotsServe
