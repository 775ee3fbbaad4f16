\* One worker, up to two errors at any call site (compensations and Redis
\* DELs included), client disconnects and process crashes: whatever fails,
\* no reference_count drops below the files that use it.
SPECIFICATION FailureSpec
CONSTANTS
    WORKERS = {w1}
    CONTENT = {c1}
    IDS = {i1, i2, i3}
    PATHS = {p1, p2, p3}
    NoRow = NoRow
    NoData = NoData
    Partial = Partial
    Miss = Miss
    None = None
    OPS <- AllOps
    FAULTS <- AllFaults
    MaxFaults = 2
SYMMETRY SymmetryAll
INVARIANT RefCountCoversFiles
