SPECIFICATION Spec
CONSTANTS
    ForeignActions = {"update"}
    OwnActions = {"update"}
    Resets = FALSE
    Logins = FALSE
    Reloads = FALSE
    Failures = FALSE
    Attempts = 3
    MaxLog = 3
INVARIANTS
    ShowsStored
CHECK_DEADLOCK FALSE
