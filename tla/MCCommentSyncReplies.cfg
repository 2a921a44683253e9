CONSTANTS
    Sessions = {s1, s2}
    OrgTasks = {}
    MediaFiles = {m1}
    MaxStored = 1
    MaxComments = 2
    MaxEdits = 0
    MaxCommands = 4
    None = None
SPECIFICATION Spec
SYMMETRY Symmetry
CHECK_DEADLOCK FALSE
INVARIANTS
    OnlyAskedDeletions
