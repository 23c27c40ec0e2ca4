SPECIFICATION WritePathSpec
CONSTANTS
    Sessions = {}
    Server = Server
    Ids = {d1}
    Fields = {f1, f2}
    Values = {v1}
    Absent = Absent
    Keep = Keep
    Missing = Missing
    Requests = {q1, q2}
    Keys = {1, 2, 3}
    Actions = {"insert", "update", "delete"}
    AppendMayFail = FALSE
    FirstTime = 1
    MaxTime = 3
    Adds = {c1, c2, c3}
    Retries = 3
    MaxNumber = 3
INVARIANTS
    AllTypeOK
    ReplayMatchesDocs
    NumbersAreFresh
CHECK_DEADLOCK FALSE
