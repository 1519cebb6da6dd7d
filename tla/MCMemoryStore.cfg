SPECIFICATION Spec
CONSTANTS
    x = x
    Calls = {c1, c2}
    Items = {i}
    Labels = {x}
    Published = published
    TagLists <- MCTagLists
    Sources = {s}
    MaxFaults = 1
SYMMETRY Threads
INVARIANTS
    TypeOK
    SuccessMeansMoved
    PublishedIsComplete
    CallerTagsLand
PROPERTIES
    NothingPublishedOnItsOwn
CHECK_DEADLOCK FALSE
