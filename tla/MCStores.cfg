SPECIFICATION StoresSpec
CONSTANTS
    Tokens = {t1, t2, t3, t4}
    Payloads = {q}
    TTL = 2
    MaxTickets = 2
    MaxTime = 4
    NoTicket = NoTicket
    DefaultId = default
    Literal = literal
    Words = {default, other}
    Ids = {default}
    Ctxs = {x1, x2}
    Queries = {q1}
    MaxEntries = 2
    MaxLog = 4
INVARIANTS StoresTypeOK StoreBounded MostRecentFirst LatestFirst
PROPERTIES ContractSpec
