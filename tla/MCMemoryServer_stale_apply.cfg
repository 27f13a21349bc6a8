\* Reconcile apply that waited a second for the write lock.
SPECIFICATION Spec
CONSTANTS
    a = a
    b = b
    x = x
    y = y
    Names = {a, b}
    Contents = {x}
    Types = {}
    Kinds = {}
    Scopes = {"global"}
    NoType = NoType
    MinObs = 2
    MaxEntities = 1
    Seeds <- DuplicateSeeds
    MaxLag = 1
    MaxObs = 4
    MaxEvents = 1
    MaxRuns = 3
    MaxBatch = 0
    MaxTime = 1
PROPERTY SupersededByVisible
CHECK_DEADLOCK FALSE
