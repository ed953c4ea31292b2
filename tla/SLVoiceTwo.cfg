\* One voice, in a ring that is no multiple of a chunk.
SPECIFICATION Spec
CONSTANTS
    speaker = speaker
    mockingboard = mockingboard
    Owners <- TwoOwners
    Watched = {mockingboard}
    bufferSize = 9
    submitSize = 2
    Writes = {5}
    MaxFill = 7
    MaxIdle = 1
    MaxFaults = 0
    Mismatch = FALSE
INVARIANTS
    TypeOK
    HeardInTurn
    PositionIsPending
    OverflowAssertion
    MixBufferIsFree
