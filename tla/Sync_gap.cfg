SPECIFICATION Spec
CONSTANTS
    Sessions = {s1}
    Server = Server
    Ids = {d1}
    Fields = {}
    Values = {}
    Absent = Absent
    Keep = Keep
    Missing = Missing
    Requests = {q1}
    Keys = {1}
    Actions = {"update"}
    AppendMayFail = FALSE
    FirstTime = 3
    MaxTime = 6
    MaxSyncWindow = 1
    MaxSyncAge = 2
    Skews = {0}
INVARIANTS
    NothingMissed
CHECK_DEADLOCK FALSE
