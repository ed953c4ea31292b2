\* Two tracks of one sector, an image of either format, programs that write sectors.
SPECIFICATION DiskSpec
CONSTANTS
    dsk = dsk  nib = nib  v0 = v0  v1 = v1  NoImage = NoImage
    DskImages = {dsk}  NibImages = {nib}  Libraries = {{dsk}, {nib}}
    NumSectors = 1  MaxPhase = 2  SpinDown = 0  Values <- MCValues
    Formats = FALSE
    Reads = {2, 3, 4, 5, 8, 9, 10, 11, 12, 13, 14, 15}  Writes = {13}
    Insertions <- MCInsertions
    StateFiles <- MCStateFiles
SYMMETRY AnyValues
INVARIANTS
    ReadsWhatIsRecorded DenibblizeAssertion
PROPERTY WritesAreKept
