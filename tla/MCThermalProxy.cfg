SPECIFICATION ProxySpec
\* After shutdownThermalProxy nothing runs any more.
CHECK_DEADLOCK FALSE
CONSTANTS
    c1 = c1
    c2 = c2
    Clients <- MCClients
    Signals <- MCSignals
    HotspotThreshold = 2
    BaselineEnabled = TRUE
    BaselineMargin = 2
    BaselineGuard = 2
    BaselineMinSamples = 1
    ConsecutiveFrames = 1
    ClearFrames = 2
    MaxSamples = 2
    MaxCount = 2
INVARIANTS
    NoStopUnderClient
    BaselineStaysNormal
PROPERTIES
    OneThread
    KeptAlwaysOn
    StopIsHeeded
    ServedWhenSpaced
    OneAlarmPerEpisode
    HotspotIsReported
