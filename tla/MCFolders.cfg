CONSTANTS
    user = user
    admin = admin
    a = a
    b = b
    Users = {user, admin}
    Admins = {admin}
    Files = {a, b}
    Databases <- FirstDatabases
    MaxCommands = 3
    None = None
SPECIFICATION FairSpec
INVARIANTS
    TypeOK
    OwnersAgree
PROPERTIES
    PageShowsAll
    OthersKeep
    FilesAreFound
