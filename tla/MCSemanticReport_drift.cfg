\* Semantic reports beside every writer, on a live and on a drifted import.
SPECIFICATION ReportSpec
CONSTANTS
    a = a
    b = b
    x = x
    y = y
    Names = {a, b}
    Contents = {x, y}
    Types = {}
    Kinds = {"k"}
    Scopes = {"global"}
    NoType = NoType
    MinObs = 2
    MaxEntities = 1
    Seeds <- ReportSeeds
    MaxLag = 0
    MaxObs = 3
    MaxEvents = 0
    MaxRuns = 0
    MaxBatch = 0
    MaxTime = 1
    MaxCalls = 1
    MaxPerEntity = 2
PROPERTIES ForgetRepairsDrift OnlyReportsLeakVectors
CHECK_DEADLOCK FALSE
