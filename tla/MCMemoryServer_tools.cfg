\* The tool handlers alone, from an empty database.
SPECIFICATION Spec
CONSTANTS
    a = a
    b = b
    x = x
    y = y
    Names = {a, b}
    Contents = {x}
    Types = {"t"}
    Kinds = {"k"}
    Scopes = {"global"}
    NoType = NoType
    MinObs = 2
    MaxEntities = 1
    Seeds <- EmptySeed
    MaxLag = 1
    MaxObs = 2
    MaxEvents = 1
    MaxRuns = 0
    MaxBatch = 2
    MaxTime = 2
INVARIANTS IndexMatchesRows TombstonesHideNothing AttachedWhileActive
PROPERTIES NoNewDuplicates AcknowledgedFactsKept ImplementsGraph
CHECK_DEADLOCK FALSE
SYMMETRY NameSymmetry
