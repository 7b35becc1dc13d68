SPECIFICATION Spec
CONSTANTS
    Emergencies = {e}
    Centerings = {c}
    NumSteps = 2
    CmdQueueCap = 2
    MaxFaults = 0
    Nobody = nobody
INVARIANTS
    OwnAnswer
