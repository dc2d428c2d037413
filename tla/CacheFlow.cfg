SPECIFICATION FairSpec
CONSTANTS
    Entries <- MCThree
    Writers = {w1, w2}
    Maintenance = {m}
    Chunk <- MCChunk
    Chunks <- MCChunks
    Plans <- MCPlan
    Ranges = {}
    Inputs <- MCInput
    Small <- MCSmall
    Failed = {}
    Limit = 2
    Jobs = 2
CHECK_DEADLOCK FALSE
INVARIANTS
    CountCovers
PROPERTIES
    EvictsUnused
    JobsEnd
