SPECIFICATION Spec
CONSTANTS
    Requests = {r1, r2, r3}
    Products = {p1}
    Contents = {c1}
    Kinds = {"upload", "restore", "status", "scan", "orphans"}
    Faults = {"db", "commit_lost", "rename", "audit", "crash"}
    PoolSize = 2
    MaxCancels = 3
    NoRequest = NoRequest
    NoContent = NoContent
SYMMETRY Interchangeable
INVARIANTS TypeOK NoDanglingFile AuditMatchesLedger
    NothingHeldOnceAnswered
