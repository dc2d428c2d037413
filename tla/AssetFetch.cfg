SPECIFICATION FairSpec
CONSTANTS
    d1 = d1
    d2 = d2
    d3 = d3
    h1 = h1
    h2 = h2
    x = x
    y = y
    Downloads = {d1, d2, d3}
    DaemonOf <- MCDaemonOf
    ObjectOf <- MCObjectOf
    SizeOf <- MCSizeOf
    Memory = 6
    TransferChunk = 2
    InFlight = 2
    Faults = 1
    Replacements = 1
CHECK_DEADLOCK FALSE
INVARIANTS
    WholeAndOfOneVersion
    CacheIsOfItsVersion
PROPERTIES
    DownloadsEnd
