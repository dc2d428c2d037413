SPECIFICATION FairSpec
CONSTANTS
    Handlers = {h1, h2}
    Sweepers = {s1}
    MaxSessions = 2
    MaxBreaks = 1
    Cancels = TRUE
CHECK_DEADLOCK FALSE
PROPERTIES
    CancelOutlivesHeartbeats
    GoneSettles
    Revived
