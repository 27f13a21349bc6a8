\* A vector written after its row was forgotten.
SPECIFICATION ReportSpec
CONSTANTS
    a = a
    b = b
    x = x
    y = y
    Names = {a, b}
    Contents = {x, y}
    Types = {}
    Kinds = {"k"}
    Scopes = {"global"}
    NoType = NoType
    MinObs = 2
    MaxEntities = 1
    Seeds <- LiveSeed
    MaxLag = 0
    MaxObs = 3
    MaxEvents = 0
    MaxRuns = 0
    MaxBatch = 0
    MaxTime = 1
    MaxCalls = 2
    MaxPerEntity = 2
INVARIANT NoVectorOfForgotten
CHECK_DEADLOCK FALSE
