SPECIFICATION EntryFairSpec
CONSTANTS
    Downloaders = {d1, d2}
    Stores = {s}
    Evictors = {e1, e2}
    Evictions = 2
    Deaths = 1
CHECK_DEADLOCK FALSE
INVARIANTS
    LeaseHolds
PROPERTIES
    WaitsEnd
