SPECIFICATION FairSpec
CONSTANTS
    Motors = {m1, m2}
    MaxAngle = 2
    Center = 1
    MaxSpeed = 2
    QueueCap = 1
    I2cFails = FALSE
    SetAngles = {1}
    MaxSets = 2
INVARIANTS
    ActiveNotJogged
    OutputIsReported
PROPERTIES
    HaltedStaysPut
    NextSetWaits
    EverySetEnds
