\* A state saved while the head steps, at the real geometry.
SPECIFICATION DiskSpec
CONSTANTS
    dsk = dsk  nib = nib  v0 = v0  v1 = v1  NoImage = NoImage
    DskImages = {dsk}  NibImages = {nib}  Libraries = {{dsk, nib}}
    NumSectors = 16  MaxPhase = 69  SpinDown = 99  Values <- MCValues
    Formats = TRUE
    Reads = {0, 1, 2, 3, 4, 5, 6, 7, 8, 9, 10, 11, 12, 13, 14, 15}  Writes = {12, 13, 15}
    Insertions <- MCInsertions
    StateFiles <- MCStateFiles
INVARIANT MagnetsRestored
