SPECIFICATION TeensySpec
CONSTANTS
    NumBuffers = 3
    ResetAfter = 2
    MaxFrames = 3
    NumSegments = 3
    PacketsPerSeg = 3
    SegPacket = 1
    MaxCamera = 4
    Invalid <- Repeats
    MaxLost = 2
    MaxMissed = 2
INVARIANTS
    WholeFrame
    BufferConservation
    SentFrameIntact
    PicturesInOrder
PROPERTIES
    ReadyFrameLeaves
