SPECIFICATION FairSpec
CONSTANTS
    RxCap = 3
    QueueCap = 2
    NumCmds = 5
    MaxCmdLen = 2
INVARIANTS
    TypeOK
    NeverSpliced
    NothingLostWhenPaced
PROPERTIES
    OverflowReported
\* The sender need not send any more.
CHECK_DEADLOCK FALSE
