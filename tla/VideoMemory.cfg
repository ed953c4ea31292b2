\* The switches that the display pages depend on, and the writes to these.
SPECIFICATION FairVideoSpec
CONSTANT
    Groups = {"paging", "mode"}
INVARIANTS
    RamPointers ScreenFollowsMemory
PROPERTY FlashingHeals
