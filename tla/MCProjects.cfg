SPECIFICATION Spec
CONSTANTS
    Names = {"p", "q"}
    Parents <- MCParents
    ItemNames <- MCItemNames
    Kinds = {"k", "Bundle"}
    Lower <- MCLower
    MaxProjects = 2
    MaxWrites = 4
    MaxFaults = 1
    Words = {"p", "q", "s", "a", "b", "k", "bundle", "Bundle"}
    Dashed = {}
    Numerals <- MCNone
    ZeroLed = {}
    MaxRevision = 8
    MaxSegments = 4
    TagTexts = {}
    CutAtEq <- MCNone
    Times = {}
    ArtNames = {}
INVARIANTS
    TypeOK
    SuccessMeansComplete
    FoundAgain
PROPERTY DestroyedAsShown
CHECK_DEADLOCK FALSE
