CONSTANTS
    a = a
    b = b
    Files = {a, b}
    Legacy <- OneLegacy
    Recompressed = {a}
    Unknown = {}
    Pictures = {a}
    Workers = {w1, w2}
    MaxIngests = 1
    MaxFaults = 1
    None = None
SPECIFICATION FairSpec
CHECK_DEADLOCK FALSE
INVARIANTS
    TypeOK
    RecompressedPlays
    ThumbsShownExist
    DoneIsComplete
PROPERTIES
    ThumbsSettle
