CONSTANTS
    Sessions = {s1, s2}
    OrgTasks = {o1}
    MediaFiles = {m1, m2}
    Collabs = {c1, c2, c3}
    None = None
SPECIFICATION Spec
SYMMETRY Symmetry
CHECK_DEADLOCK FALSE
INVARIANTS
    TypeOK
    CollabAgreesOnMedia
    NoDeadSenders
    ParticipatesWhereItThinks
    NoStaleSubscription
    CollabMapBounded
PROPERTIES
    MediaFixedWhileOccupied
    FreshOpenSubscribes
    ImplementsRooms
