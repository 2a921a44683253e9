CONSTANTS
    Sessions = {s1}
    OrgTasks = {}
    MediaFiles = {m1}
    Collabs = {c1}
    None = None
SPECIFICATION Spec
INVARIANTS
    OpenedIsViewed
