\* Servers with and without commands on one central root.
SPECIFICATION Spec
CONSTANTS
    Paths = {here, there}
    Servers = {s1, s2}
    Commands = {c1, c2}
    MaxIds = 3
    MaxCalls = 1
    Crews <- SmallCrews
    NoPath = NoPath
    NoOne = NoOne
INVARIANTS TypeOK RegisteredStoreIsWhole InitializedStoreExists CallsConverge
PROPERTIES LostStoreStaysLost MemoryIsNeverDeleted
SYMMETRY Symmetry
