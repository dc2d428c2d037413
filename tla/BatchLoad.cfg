SPECIFICATION LoadSpec
CONSTANTS
    Queries <- MCQueries
    Sequences = {0, 1, 4}
    ObjectSize <- MCObjectSize
    Reservation = 3
CHECK_DEADLOCK FALSE
INVARIANTS
    ServesTheQuery
    ReservedBeforeUse
