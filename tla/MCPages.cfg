SPECIFICATION PagesSpec
CONSTANTS
    MCParts = {"session", "navigation", "list", "console"}
    a = a
    b = b
    d1 = d1
    d2 = d2
    Conns = {a, b}
    MaxOpened = 1
    DefaultId = default
    Servers <- MCServers
    Dbs = {d1, d2}
    Colls = {a, b}
    NoName = NoName
    MaxEntries = 2
    MaxPending = 1
    ListColls = {l1, l2}
    Filters = {f1, f2}
    Averages = {0, 2, 9}
    Totals = {0, 9}
    Standard <- MCStandard
    Fine <- MCFine
    Threshold = 4
    MaxSkip = 2
    Unknown = Unknown
    ConsoleColls = {r1, r2}
    WipeNames = {"FLUSHALL", "FLUSHDB"}
    NoWipe = NoWipe
    Scripts <- MCScripts
    Empty = Empty
    MaxRunning = 2
SYMMETRY Symmetry
INVARIANTS PagesTypeOK PageIsHistoryEntry TypedNameConfirms ErrorsAreOfThisOpening WholePages OldRowsAreMarked WipesAreConfirmed
PROPERTIES RowsReplacedByOwn LiveSessionIsKept LargeLoadIsAgreed
