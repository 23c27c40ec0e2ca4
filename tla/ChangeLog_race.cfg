SPECIFICATION LogSpec
CONSTANTS
    Sessions = {}
    Server = Server
    Ids = {d1}
    Fields = {f1}
    Values = {v1, v2}
    Absent = Absent
    Keep = Keep
    Missing = Missing
    Requests = {q1, q2}
    Keys = {1, 2, 3}
    Actions = {"update"}
    AppendMayFail = FALSE
    FirstTime = 1
    MaxTime = 3
INVARIANTS
    ReplayMatchesDocs
CHECK_DEADLOCK FALSE
