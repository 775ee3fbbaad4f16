\* Two workers uploading one content while others download and list, no
\* errors: every interleaving of the hit path with the miss path, including
\* two Uploads racing on the storage primary key.  The dedup bookkeeping
\* (counts, rows, objects) stays exact when no Delete runs.
SPECIFICATION Spec
CONSTANTS
    WORKERS = {w1, w2}
    CONTENT = {c1}
    IDS = {i1, i2, i3, i4}
    PATHS = {p1, p2, p3, p4}
    OPS <- UploadDownloadList
    FAULTS <- NoFaults
    MaxFaults = 0
    NoRow = NoRow
    NoData = NoData
    Partial = Partial
    Miss = Miss
    None = None
SYMMETRY SymmetryAll
INVARIANTS
RefCountExact
NoOrphanData
