\* Unless "prompt", the service can hang: MCCctvWorker_hang.cfg.
CHECK_DEADLOCK FALSE
SPECIFICATION Spec
CONSTANTS
    Kinds <- MCKinds
    Encoded <- MCEncoded
INVARIANTS
    NothingLeftOver
    FramesAreNew
PROPERTIES
    LaunchReplacesNothing
    EveryRequestEnds
