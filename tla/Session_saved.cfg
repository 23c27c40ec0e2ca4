SPECIFICATION FairSpec
CONSTANTS
    Logins = FALSE
    Logouts = FALSE
    Rotations = FALSE
    SyncErrors = FALSE
PROPERTIES
    SavedUntilRejected
CHECK_DEADLOCK FALSE
