CONSTANTS
    NumBuffers = 3
    NumChunks = 2
    MaxFrames = 4
    DropStale = FALSE
    MutexTimeouts = TRUE
SPECIFICATION Spec
INVARIANTS
    HeldIsHead
CHECK_DEADLOCK FALSE
