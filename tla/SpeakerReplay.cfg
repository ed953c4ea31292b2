\* The device runs out between two calls.
SPECIFICATION Spec
CONSTANTS
    NULL = NULL
    b1 = b1
    b2 = b2
    Buffers <- MCBuffers
    buffersize = 32
    Period = 20
    MaxFaults = 0
    channelsSampleRateHz = 20
    SliceFrames = {8}
    AdjustMax = 1
    StarvedAt = 1
    WedgedMax = 2
INVARIANT PlaysFresh
