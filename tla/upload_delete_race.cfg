\* Two workers uploading and deleting one content, no errors: Delete
\* racing an Upload that found the row before the count dropped to 0.
SPECIFICATION Spec
CONSTANTS
    WORKERS = {w1, w2}
    CONTENT = {c1}
    IDS = {i1, i2, i3}
    PATHS = {p1, p2, p3}
    OPS <- UploadDelete
    FAULTS <- NoFaults
    MaxFaults = 0
    NoRow = NoRow
    NoData = NoData
    Partial = Partial
    Miss = Miss
    None = None
SYMMETRY SymmetryAll
INVARIANT NoDanglingData
