SPECIFICATION Spec
CONSTANTS
    Requests = {r1, r2, r3, r4}
    Accounts = {a1, a2}
    Addresses = {i1}
    Passwords = {p1, p2}
    Kinds = {"create", "reset", "login", "change", "logout", "manage"}
    Faults = {"db"}
    FailureLimit = 2
    Window = 3
    BaseBackoff = 1
    MaxBackoff = 1
    Ttl = 1
    MaxTime = 1
    NoRequest = NoRequest
    NoPassword = NoPassword
SYMMETRY Interchangeable
INVARIANTS TypeOK SingleAdministrator OnlyCurrentCredentials AttemptsBounded
