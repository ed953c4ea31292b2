\* Chips A and B of one card.
SPECIFICATION Spec
CONSTANTS
    LowByte = 2
    HighByte = 2
    MaxSlice = 2
    Programmed = {0}
    Enabling = {0, 1}
    SavedChips <- SomeChips
    audio_isAvailable = TRUE
INVARIANTS
    LineIsOrSum
