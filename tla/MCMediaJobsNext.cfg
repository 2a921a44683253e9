CONSTANTS
    a = a
    b = b
    Files = {a, b}
    Legacy <- TwoLegacy
    Recompressed = {}
    Unknown = {}
    Pictures = {a, b}
    Workers = {w1}
    MaxIngests = 0
    MaxFaults = 0
    None = None
SPECIFICATION Spec
CHECK_DEADLOCK FALSE
PROPERTIES
    NextIsAnother
