SPECIFICATION Spec
CONSTANTS
    Batch <- MCBatch
    Items <- MCItems
    Refused <- MCRefused
    Limit = 2
    Space <- MCSpace
    Older <- MCOlder
    Texts <- MCTexts
    Alike <- MCAlike
    Score <- MCScore
    MiddleBand = TRUE
    MaxSubmissions = 2
    MaxLookups = 1
    MaxFaults = 2
INVARIANTS
    AnswersAreOwn
    WrittenOnce
    CorrectionsAreRecalled
CHECK_DEADLOCK FALSE
