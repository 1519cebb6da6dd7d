SPECIFICATION FairLoadedSpec
CONSTANTS
    a = a
    b = b
    f = f
    s1 = s1
    s2 = s2
    Items = {a, b, f}
    Memory = {a, b}
    Spaces = {s1, s2}
    SpaceOf <- MCSpaceOf
    Types = {"REFERENCED"}
    Clients = {"browser"}
    Capacity = 2
    EdgeRevs = 1
    HasCursors = TRUE
    MaxWrites = 2
    MaxLinks = 1
    MaxFaults = 1
INVARIANTS
    NodesConverge
    EdgesReach
PROPERTIES
    BrowserSettles
CHECK_DEADLOCK FALSE
