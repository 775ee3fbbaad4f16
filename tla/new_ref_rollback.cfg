\* One worker; one CreateFileReference may fail. Three ids and paths keep
\* Upload-only behaviours from using up the uuids before the rollback.
SPECIFICATION Spec
CONSTANTS
    WORKERS = {w1}
    CONTENT = {c1}
    IDS = {i1, i2, i3}
    PATHS = {p1, p2, p3}
    OPS <- UploadOnly
    FAULTS <- CreateRefFault
    MaxFaults = 1
    NoRow = NoRow
    NoData = NoData
    Partial = Partial
    Miss = Miss
    None = None
SYMMETRY SymmetryAll
INVARIANT RowsBacked
