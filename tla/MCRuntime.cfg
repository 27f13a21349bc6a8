SPECIFICATION Spec
CONSTANTS
    k1 = k1
    k2 = k2
    c1 = c1
    c2 = c2
    Keys = {k1, k2}
    Calls = {c1, c2, main}
    Handles = {h1, h2, h3, h4, h5}
    CacheMax = 1
    Main = main
    Asks <- CallsAsk
    DefaultDB = DefaultDB
    NoKey = NoKey
    NoHandle = NoHandle
    NoOne = NoOne
INVARIANTS TypeOK LeasedHandleStaysOpen RefsCountLeases OverLimitOnlyInUse HandlesAccountedFor ClosedClientIsSilent ShutdownClosesAll
PROPERTIES ShutdownEnds
CHECK_DEADLOCK FALSE
