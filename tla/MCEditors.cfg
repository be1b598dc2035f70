SPECIFICATION EditorsSpec
CONSTANTS
    MCParts = {"indexes", "document", "query", "form"}
    a = a
    b = b
    x = x
    bytes = bytes
    IndexColls = {a, b}
    Keys = {k1, k2}
    Odd = {k2}
    Plain = k1
    Options = {o1, o2, collated}
    collated = collated
    Carried <- MCCarried
    NoIndex = NoIndex
    Foreign <- MCForeign
    MaxIndexes = 1
    Docs = {a, b}
    Contents = {y, z}
    Risky = {y}
    Gone = Gone
    MaxCalls = 1
    EdColls = {e1, e2}
    Sayings = {s}
    NoSaying = NoSaying
    MaxTouched = 1
    MaxAsked = 1
    FormKeys = {v1, v2}
    Strings = {x, bytes, NoString}
    NoString = NoString
    NoKey = NoKey
    Decoded <- MCDecoded
    MaxRows = 1
    MaxTtl = 1
    KeyValues <- MCKeyValues
SYMMETRY Symmetry
INVARIANTS EditorsTypeOK SavesWhatItLoaded EscapeIsForInnermost UpdateSentAsCounted
PROPERTIES SaveTouchesOwnIndex EditIsWholeOrUndone SaveKeepsWhatWasLoaded
