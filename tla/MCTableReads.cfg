SPECIFICATION TableSpec
CONSTANTS
    MaxVersion = 3
    MaxInFlight = 2
    Worlds <- MCWorlds
    Keys = {k1, k2}
    Records = {r1}
    Calls = {a1}
    Ops = {o1, o2, o3}
    NoKey = NoKey
INVARIANTS
    TypeOK
    QueryIsCurrent
    ReadyIsQuiet
    ProgressEnds
CHECK_DEADLOCK FALSE
