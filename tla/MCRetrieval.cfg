SPECIFICATION RetrievalSpec
CONSTANTS
    a = a
    b = b
    c = c
    x = x
    y = y
    s = s
    d = d
    Items = {a, b, c}
    Contexts = {x, y}
    Prefixed <- MCPrefixed
    Within <- MCWithin
    Members = {a, c}
    Types = {s, d}
    Requests <- MCRequests
    Stores <- MCStores
    Today = 10
    Limit = 1
    Window = 2
    Strong = 1
    MaxRevs = 2
    MaxWrites = 2
    MaxFailures = 1
INVARIANTS
    AnswersInScope
    PublishedWins
    ProjectIsChecked
    NothingHidden
CHECK_DEADLOCK FALSE
