\* Two workers issuing every request on one content, no errors: a Delete
\* stalled before its DeleteStorage removes the row an Upload re-created
\* for the same hash after the old object was deleted.
SPECIFICATION Spec
CONSTANTS
    WORKERS = {w1, w2}
    CONTENT = {c1}
    IDS = {i1, i2, i3}
    PATHS = {p1, p2, p3}
    OPS <- AllOps
    FAULTS <- NoFaults
    MaxFaults = 0
    NoRow = NoRow
    NoData = NoData
    Partial = Partial
    Miss = Miss
    None = None
SYMMETRY SymmetryAll
INVARIANT NoOrphanData
