SPECIFICATION FairSpec
CONSTANTS
    Start = 3
    EndAt = 6
    Capacity = 2
    Memory = 2
    Sizes <- MCSizes
    Rejects = TRUE
    Stops = TRUE
INVARIANTS
    TypeOK
    CreditConservation
    MemoryConserved
    MemoryBound
    ReserveInOrder
PROPERTIES
    ImplementsWindow
    EventuallyEnded
    CancelEndsThreads
