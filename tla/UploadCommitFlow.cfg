SPECIFICATION FairSpec
CONSTANTS
    a1 = a1
    a2 = a2
    Saves <- MCSaves
    NameOf <- MCOneName
    Artifacts = {}
    Scalars = {m}
    Arrays = {m}
    Replicas = {r1}
    Slots = 2
    Clock = {1, 2}
    Faults = 2
CHECK_DEADLOCK FALSE
INVARIANTS
    LaterSucceeds
    RowsHaveObjects
PROPERTIES
    ImplementsPublication
    EventuallyAnswered
