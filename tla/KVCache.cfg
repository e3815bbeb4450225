SPECIFICATION Spec
CONSTANTS
    PageSize = 2
    Reqs = {1, 2, 3}
    MMReqs = {3}
    Pages = {1, 2, 3, 4, 5}
    PoolSizes = {4, 5}
    Tokens = {1, 2}
    Prompts <- PagedPrompts
    MaxLen = 6
VIEW Shape
CONSTRAINT TwoActive
INVARIANTS
    TypeOK
    PagesConserved
    RowsHoldOwnKV
    TreeServesItsTokens
    RefsCountHandles
PROPERTIES
    SharedPrefixStays
