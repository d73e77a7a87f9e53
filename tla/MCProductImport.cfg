SPECIFICATION FairSpec
CONSTANTS
    A = A
    B = B
    Requests = {r1, r2}
    Codes = {A, B}
    Tokens = {t1, t2}
    Spellings = {"a", "A ", "b", "?"}
    Normal <- Normalized
    Invalid = Invalid
    Blank = Blank
    MaxLines = 2
    RetryLimit = 2
    Kinds = {"import", "create"}
    Faults = {"db", "audit"}
INVARIANTS TypeOK EveryCodeOfFileExists AuditCountsBatch
PROPERTIES EveryRequestAnswered
