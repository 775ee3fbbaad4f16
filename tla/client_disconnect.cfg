\* One worker; one request may be cut short by its client disconnecting
\* or by a process crash.
SPECIFICATION FailureSpec
CONSTANTS
    WORKERS = {w1}
    CONTENT = {c1}
    IDS = {i1, i2}
    PATHS = {p1, p2}
    OPS <- UploadDelete
    FAULTS <- CutShort
    MaxFaults = 1
    NoRow = NoRow
    NoData = NoData
    Partial = Partial
    Miss = Miss
    None = None
PROPERTY ZeroRefReclaimed
