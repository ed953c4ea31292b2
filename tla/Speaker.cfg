\* Two of the four buffers, so that the pool runs out; the device takes more than a
\* half of a buffer at a time; any one call of the library, or a new voice, may fail.
SPECIFICATION FairSpec
CONSTANTS
    NULL = NULL
    b1 = b1
    b2 = b2
    Buffers <- MCBuffers
    buffersize = 32
    Period = 20
    MaxFaults = 1
    channelsSampleRateHz = 20
    SliceFrames = {8}
    AdjustMax = 1
    StarvedAt = 1
    WedgedMax = 2
INVARIANTS
    QueueMirrorsSource
    OverflowAssertion
PROPERTIES
    LatencyBounded
    SoundGoesOn
    CyclesComeBack
