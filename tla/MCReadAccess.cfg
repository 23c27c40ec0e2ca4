SPECIFICATION AllSpec
CONSTANTS
    a = a
    b = b
    null = null
    Null = null
    Arrays <- MCArrays
    Absent = Absent
    Unlimited = Unlimited
    AdminId = AdminId
    GroupId = GroupId
    NoDoc = NoDoc
    Names <- MCNames
    Paths <- MCPaths
    Values <- MCValues
    Scalars <- MCScalars
    Setups <- MCSetups
    Starts <- MCStarts
    Patches <- MCPatches
    ClientFilters <- MCClientFilters
    MaxWrites = 3
    Sources = {s1, s2}
    Others = {o1}
    LogIds = {1, 2, 3}
    MaxTime = 2
    PageSize = 2
    Callers = {c1, c2}
    Every = 2
    MaxLoad = 1
    MaxClock = 4
    MaxEdits = 3
    Broken = {2}
INVARIANTS
    AllTypeOK
    ViewIsProjection
    ListsAgreeWithLoads
    QueryAgreesWithCheck
    MergedIsUnion
    PagesAreComplete
    HookNeverSilenced
    EditsApply
PROPERTIES
    WritesStayInside
CHECK_DEADLOCK FALSE
