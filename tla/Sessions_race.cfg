SPECIFICATION Spec
CONSTANTS
    DefaultId = default
    Ids = {default, u1, u2}
    Clients = {c1, c2}
    NoEntry = NoEntry
    NoClient = NoClient
    Requests = {r1, r2}
    SessionsMode = TRUE
    ServerReadonly = FALSE
    LazyPools = FALSE
CHECK_DEADLOCK TRUE
INVARIANTS ReadonlyNeverWritten
