\* Chips A and B of one card.
SPECIFICATION Spec
CONSTANTS
    LowByte = 2
    HighByte = 2
    MaxSlice = 2
    Programmed = {0}
    Enabling = {2}
    SavedChips <- SomeChips
    audio_isAvailable = TRUE
PROPERTIES
    TimerKept
