SPECIFICATION WorldsSpec
CONSTANTS
    Sessions = {s1}
    Server = Server
    Ids = {d1}
    Fields = {}
    Values = {}
    Absent = Absent
    Keep = Keep
    Missing = Missing
    Requests = {q1}
    Keys = {1, 2}
    Actions = {"update", "delete"}
    AppendMayFail = TRUE
    FirstTime = 3
    MaxTime = 5
    MaxSyncWindow = 1
    MaxSyncAge = 2
    Skews <- ClockSkews
INVARIANTS
    TypeOK
    MissedOnlyIfBlind
PROPERTIES
    ImplementsFeed
    RunsEnd
    NeverTwice
    RunReachesPresent
CHECK_DEADLOCK FALSE
