\* An image that is compressed on ejection and one that is not, each in one drive at a time;
\* any step may fail, and the process may be killed before any.
SPECIFICATION Spec
CONSTANTS
    gz = gz
    dsk = dsk
    NoFile = NoFile
    Junk = Junk
    Files = {gz, dsk}
    Compressed = {gz}
    Values = {0, 1}
    Shared = FALSE
    SeekFails = FALSE
INVARIANTS
    ImageSurvives
    MappingIsWhole
    CleanIsSaved
PROPERTY
    EjectionKeepsWrites
