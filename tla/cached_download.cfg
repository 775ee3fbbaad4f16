\* One worker uploading and downloading, no errors: the second Download of
\* a file finds "file:<id>" set by the first.
SPECIFICATION Spec
CONSTANTS
    WORKERS = {w1}
    CONTENT = {c1}
    IDS = {i1, i2}
    PATHS = {p1, p2}
    NoRow = NoRow
    NoData = NoData
    Partial = Partial
    Miss = Miss
    None = None
    OPS <- UploadDownload
    FAULTS <- NoFaults
    MaxFaults = 0
SYMMETRY SymmetryAll
INVARIANT DownloadServesContent
