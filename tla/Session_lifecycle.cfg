SPECIFICATION FairSpec
CONSTANTS
    Logins = TRUE
    Logouts = TRUE
    Rotations = TRUE
    SyncErrors = TRUE
INVARIANTS
    TypeOK
    QuietIsCurrent
    AuthorizedIsKnown
PROPERTIES
    AuthRunsEnd
CHECK_DEADLOCK FALSE
