SPECIFICATION Spec
CHECK_DEADLOCK FALSE
INVARIANTS
    ReasoningIsOneShot
    ClientHasText
    CallsIgnoreChunks
    CallsAreOneShot
    ClientSeesReply
