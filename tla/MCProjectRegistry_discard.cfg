\* What `project move -replace-empty' promises, against a server that writes
\* to the destination between the check and the rename.
SPECIFICATION Spec
CONSTANTS
    Paths = {here, there}
    Servers = {s1}
    Commands = {c1}
    MaxIds = 2
    MaxCalls = 1
    Crews <- Pair
    NoPath = NoPath
    NoOne = NoOne
PROPERTIES DiscardsOnlyEmpty
