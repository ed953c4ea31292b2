\* Seven lines of three cycles: rows of two lines, the last one cut short.
SPECIFICATION FairSpec
CONSTANTS
    HBL = 1  VIS = 2  RowLines = 2  MixLines = 2  VisLines = 4  VblLines = 3  FlashPeriod = 3
    Slices = {0, 1, 7, 20}
INVARIANTS
    BeamInOrder NoUnderflow ScanlineBuffer
PROPERTIES
    RedrawsChanges ChangesAppear
