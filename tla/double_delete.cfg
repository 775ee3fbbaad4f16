\* Two workers, no errors: two Deletes of the same id both pass the
\* lookup and both decrement.
SPECIFICATION Spec
CONSTANTS
    WORKERS = {w1, w2}
    CONTENT = {c1}
    IDS = {i1, i2, i3}
    PATHS = {p1, p2, p3}
    OPS <- UploadDelete
    FAULTS <- NoFaults
    MaxFaults = 0
    NoRow = NoRow
    NoData = NoData
    Partial = Partial
    Miss = Miss
    None = None
SYMMETRY SymmetryAll
INVARIANT RefCountExact
