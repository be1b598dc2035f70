SPECIFICATION FlowSpec
CONSTANTS
    DefaultId = default
    Ids = {default, u1, u2}
    Clients = {c1, c2}
    NoEntry = NoEntry
    NoClient = NoClient
    Requests = {r1, r2}
    SessionsMode = TRUE
    ServerReadonly = FALSE
    LazyPools = FALSE
    Downloads = {d1, d2}
    Tokens = {t1}
    TTL = 0
    MaxTickets = 1
    MaxTime = 1
    NoTicket = NoTicket
    NoPayload = NoPayload
SYMMETRY Symmetry
CHECK_DEADLOCK TRUE
INVARIANTS FlowTypeOK ExportsFromIssuer EveryOpenClientOwned
