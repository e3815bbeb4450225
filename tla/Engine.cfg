SPECIFICATION Spec
CONSTANTS
    w1 = w1
    w2 = w2
    w3 = w3
    w4 = w4
SYMMETRY WorkerSymmetry
CHECK_DEADLOCK FALSE
INVARIANTS
    ForwardReadsItsExperts
    HybridIsReference
    TasksRunOnce
    StaleIsSeen
    RebuildsHold
