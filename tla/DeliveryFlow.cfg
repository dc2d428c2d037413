SPECIFICATION FairSpec
CONSTANTS
    Ranks = 2
    Factor = 1
    Workers = 2
    Start = 1
    EndAt = 4
    Samples <- MCSamples
    MaxCloses = 1
    MaxInterrupts = 1
    InterruptAt = {"waiting", "took", "written"}
INVARIANTS
    CursorIsFirstUnreturned
    LossBounded
    ReturnsAdvance
PROPERTIES
    ImplementsStream
    EveryLoopEnds
