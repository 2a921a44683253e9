CONSTANTS
    Sessions = {s1}
    OrgTasks = {o1}
    MediaFiles = {m1}
    Collabs = {c1}
    None = None
SPECIFICATION FairSpec
CHECK_DEADLOCK FALSE
PROPERTIES
    CloseCompletes
