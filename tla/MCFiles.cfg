SPECIFICATION FilesSpec
CONSTANTS
    Uploads = {u1, u2}
    Clients = {c1, c2}
    Files <- MCFiles
    Contents <- MCFiles
    MaxFaults = 2
    None = None
    Downloads = {d1, d2, d3}
    MaxLosses = 2
    NoDownload = NoDownload
SYMMETRY Symmetry
INVARIANTS
    TypeOK
    DownloadTypeOK
    ReadyIsWhole
    DoneIsMine
    InterruptedIsFailed
    NobodyWaits
    ResolvedIsTheFile
    DownloadsEnd
CHECK_DEADLOCK FALSE
