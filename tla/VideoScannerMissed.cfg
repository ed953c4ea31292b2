SPECIFICATION Spec
CONSTANTS
    HBL = 1  VIS = 2  RowLines = 2  MixLines = 2  VisLines = 4  VblLines = 3  FlashPeriod = 3
    Slices = {0, 1, 2, 7}
INVARIANT EveryFrameEnds
