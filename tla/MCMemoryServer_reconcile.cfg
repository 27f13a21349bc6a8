\* Reconcile apply and rollback on imported databases with duplicates.
SPECIFICATION Spec
CONSTANTS
    a = a
    b = b
    x = x
    y = y
    Names = {a, b}
    Contents = {x}
    Types = {}
    Kinds = {}
    Scopes = {"global"}
    NoType = NoType
    MinObs = 2
    MaxEntities = 1
    Seeds <- DuplicateSeeds
    MaxLag = 0
    MaxObs = 4
    MaxEvents = 1
    MaxRuns = 3
    MaxBatch = 0
    MaxTime = 1
INVARIANT AuditBacksSupersession
PROPERTIES OnlyRollbackRestores SupersededByVisible RollbackIsWhole ImplementsGraph
CHECK_DEADLOCK FALSE
