SPECIFICATION FairSpec
CONSTANTS
    Requests = {r1, r2, r3}
    Products = {p1, p2}
    Contents = {c1}
    Kinds = {"upload"}
    Faults = {}
    PoolSize = 2
    MaxCancels = 1
    NoRequest = NoRequest
    NoContent = NoContent
PROPERTIES EveryRequestAnswered
