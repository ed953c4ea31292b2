\* One voice, in a ring that is no multiple of a chunk.
SPECIFICATION FairSpec
CONSTANTS
    speaker = speaker
    mockingboard = mockingboard
    Owners <- OneOwner
    Watched = {speaker}
    bufferSize = 9
    submitSize = 2
    Writes = {5}
    MaxFill = 8
    MaxIdle = 1
    MaxFaults = 1
    Mismatch = FALSE
INVARIANTS
    HeardInTurn
    PositionIsPending
    MixBufferIsFree
PROPERTIES
    SoundGoesOn
