CONSTANTS
    NumBuffers = 3
    NumChunks = 3
    MaxFrames = 5
    DropStale = TRUE
    MutexTimeouts = FALSE
SPECIFICATION FairSpec
INVARIANTS
    NoTornFrame
PROPERTIES
    SentInOrder
    ImplementsQueue
    FullRingDrains
CHECK_DEADLOCK FALSE
