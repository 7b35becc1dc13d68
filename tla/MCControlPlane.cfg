SPECIFICATION FairSpec
CONSTANTS
    Emergencies = {e}
    Centerings = {c}
    NumSteps = 2
    CmdQueueCap = 1
    MaxFaults = 1
    Nobody = nobody
INVARIANTS
    OwnAnswerInTime
    OkStepsWereRun
    StopsAtFailure
PROPERTIES
    NoAnswerMissed
    EveryRequestReturns
\* The requests end; EveryRequestReturns says that none stops before.
CHECK_DEADLOCK FALSE
