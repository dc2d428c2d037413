SPECIFICATION FairSpec
CONSTANTS
    Requests = {"r1", "r2"}
    Sequence <- MCSequence
    Repeat = TRUE
    Query <- MCQueryThree
    Need <- MCNeed
    Pool = 2
    Faults = 1
    Prunings = 1
CHECK_DEADLOCK FALSE
INVARIANTS
    ServedByOnePlanUnlessReplaced
    NeverOlder
    ReadyIsComplete
    LoadingBounded
PROPERTIES
    AsksAnsweredUnlessTorn
