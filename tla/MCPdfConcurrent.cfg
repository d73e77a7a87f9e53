SPECIFICATION Spec
CONSTANTS
    Requests = {r1, r2, r3}
    Products = {p1, p2}
    Contents = {c1, c2}
    Kinds = {"upload", "restore", "scan"}
    Faults = {"rename"}
    PoolSize = 2
    MaxCancels = 1
    NoRequest = NoRequest
    NoContent = NoContent
SYMMETRY Interchangeable
INVARIANTS VersionNumbersContiguous PointerResolves NeverUnresolved OrphanTraced
PROPERTIES NoOverwrite LedgerRefinement
