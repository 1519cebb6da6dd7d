SPECIFICATION Spec
CONSTANTS
    c1 = c1
    c2 = c2
    Calls = {c1, c2}
    Paths <- MCPaths
    Stem <- MCStem
    TTL = 1
    MaxStores = 3
    MaxTime = 2
    MaxDeletes = 1
    MaxFaults = 1
SYMMETRY Threads
INVARIANTS
    ListingIsRecent
PROPERTY BackToBackStoresConverge
CHECK_DEADLOCK FALSE
