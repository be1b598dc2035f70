SPECIFICATION Spec
CONSTANTS
    DefaultId = default
    Ids = {default}
    Clients = {c1, c2, c3}
    NoEntry = NoEntry
    NoClient = NoClient
    Requests = {r1, r2}
    SessionsMode = FALSE
    ServerReadonly = FALSE
    LazyPools = FALSE
CHECK_DEADLOCK TRUE
INVARIANTS EveryOpenClientOwned
