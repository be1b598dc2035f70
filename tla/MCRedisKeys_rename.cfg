CONSTANTS
    Texts <- MCTexts
    Rests <- MCRests
    NoPrefix <- MCNoPrefix
    Joined <- MCJoined
    NewNames <- MCNewNames
    MergeTypes <- MCMergeTypes
    Items <- MCItems
    Docs <- MCDocs
    Skips <- MCSkips
    Limits <- MCLimits
    Starts <- MCStarts
    OtherValues <- MCOtherValues
    MaxOthers = 1
    MaxRepeats = 1
SPECIFICATION Spec
INVARIANT RenameKeepsEveryKey
