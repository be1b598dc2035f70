SPECIFICATION ServersSpec
CONSTANTS
    DefaultId = default
    Ids = {default, u1, u2}
    Clients = {c1, c2, c3}
    NoEntry = NoEntry
    NoClient = NoClient
    Requests = {r1, r2}
    SessionsMode = FALSE
    ServerReadonly = FALSE
    LazyPools = TRUE
INVARIANTS TypeOK RegisteredClientIsOpen SingleOwner ReadonlyWhileRegistered ReadonlyServerNeverWrites
PROPERTIES ContractSpec SharedDetachedIsClosed
