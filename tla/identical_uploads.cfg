\* Two workers uploading one new content at once, no errors.
SPECIFICATION Spec
CONSTANTS
    WORKERS = {w1, w2}
    CONTENT = {c1}
    IDS = {i1, i2}
    PATHS = {p1, p2}
    OPS <- UploadOnly
    FAULTS <- NoFaults
    MaxFaults = 0
    NoRow = NoRow
    NoData = NoData
    Partial = Partial
    Miss = Miss
    None = None
SYMMETRY SymmetryAll
INVARIANT UploadsSucceedWithoutFaults
