\* The four buffers of a voice, full of a little or of a lot.
SPECIFICATION PlayQueueSpec
CONSTANTS
    NULL = NULL
    b1 = b1
    b2 = b2
    b3 = b3
    b4 = b4
    Buffers <- MCBuffers
    Sizes = {1, 2}
PROPERTY IsBufferQueue
