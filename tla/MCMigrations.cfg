CONSTANTS
    Releases = {2}
    Graphs <- OrganizerGraphs
    MaxFaults = 2
    None = None
    Torn = Torn
SPECIFICATION FairSpec
INVARIANTS
    TypeOK
    SolverIsRight
    ServesMigrated
    OriginalIsKept
    AllOrNothing
PROPERTIES
    AppliedInOrder
    MigratesInTheEnd
