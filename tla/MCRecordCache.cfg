SPECIFICATION WorldsSpec
CONSTANTS
    ForeignActions = {"insert", "update", "delete"}
    OwnActions = {"insert", "update", "delete"}
    Resets = TRUE
    Logins = TRUE
    Reloads = TRUE
    Failures = TRUE
    Attempts = 3
    MaxLog = 4
    MaxResetLog = 3
INVARIANTS
    TypeOK
    ConvergesUnlessLapsed
CHECK_DEADLOCK FALSE
