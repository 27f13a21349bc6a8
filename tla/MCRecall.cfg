\* Every read tool beside every writer.
SPECIFICATION RecallSpec
CONSTANTS
    a = a
    b = b
    x = x
    y = y
    Names = {a, b}
    Contents = {x, y}
    Types = {}
    Kinds = {}
    Scopes = {"global"}
    NoType = NoType
    MinObs = 2
    MaxEntities = 1
    Seeds <- StoredSeed
    MaxLag = 0
    MaxObs = 4
    MaxEvents = 1
    MaxRuns = 1
    MaxBatch = 0
    MaxTime = 1
    Queries <- SomeQueries
    Limits = {0, 2}
    IdLists <- SomeIds
    MaxLimit = 1
    Multiplier = 3
    MinPool = 2
    MaxAccess = 1
INVARIANTS ReadsTypeOK RecallFillsLimit
PROPERTIES ReadsOnlyVisible TouchedWereReturned
CHECK_DEADLOCK FALSE
