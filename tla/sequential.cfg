\* One worker, one error at a call site whose errors the code
\* handles (lookups, increments, inserts and reads), with Redis expiring
\* entries at any time: the sequential behaviour of Upload, Delete,
\* Download and List keeps the dedup bookkeeping and the list cache exact,
\* and the service refines the abstract store.
SPECIFICATION Spec
CONSTANTS
    WORKERS = {w1}
    CONTENT = {c1, c2}
    IDS = {i1, i2, i3}
    PATHS = {p1, p2, p3}
    OPS <- AllOps
    FAULTS <- HandledFaults
    MaxFaults = 1
    NoRow = NoRow
    NoData = NoData
    Partial = Partial
    Miss = Miss
    None = None
INVARIANTS
TypeOK
NoDanglingData
RefCountExact
NoOrphanData
RowsBacked
ListCacheCoherent
PROPERTIES
ZeroRefReclaimed
RefinesDedupStore
