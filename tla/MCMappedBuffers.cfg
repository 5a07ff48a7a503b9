SPECIFICATION BufferSpec
CONSTANTS
    PageSize = 2
    Capacity = 4
    Window = 3
    MaxBytes = 12
INVARIANT TapeOffersWhatIsLeft
CHECK_DEADLOCK FALSE
