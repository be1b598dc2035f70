SPECIFICATION HistorySpec
CONSTANTS
    DefaultId = default
    Literal = literal
    Words = {u1, u2}
    Ids = {u1, u2}
    Ctxs = {x1, x2}
    Queries = {q1, q2}
    MaxEntries = 2
    MaxLog = 3
CHECK_DEADLOCK TRUE
INVARIANTS ListsOwnQueries
