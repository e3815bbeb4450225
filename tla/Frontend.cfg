SPECIFICATION OneSpec
CONSTANTS
    u1 = u1
    u2 = u2
    u3 = u3
    Uids = {u1, u2}
    MaxTokens = 1
    MaxRebuilds = 0
    MaxStops = 1
    MayCrash = FALSE
    Reorders = TRUE
    SendFails = FALSE
    Preempts = FALSE
CHECK_DEADLOCK FALSE
SYMMETRY DrainSymmetry
INVARIANTS
    StopIsFinal
    StreamsWhole
PROPERTIES
    GateHolds
