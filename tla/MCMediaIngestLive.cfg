CONSTANTS
    f1 = f1
    f2 = f2
    f3 = f3
    f4 = f4
    i1 = i1
    i2 = i2
    alice = alice
    bob = bob
    Incoming = {p1}
    Uploads = {}
    Elsewhere = {}
    Files = {f1, f2, f3, f4}
    Users = {alice, bob}
    Ids = {i1, i2}
    OwnerOf <- Owners
    SizeOf <- Sizes
    MediaId <- Hash
    LeftOver = {f2}
    Jobs = {j1}
    Deleters = {}
    MaxGiven = 3
    MaxCrashes = 0
    MaxFaults = 1
    None = None
SPECIFICATION FairSpec
CHECK_DEADLOCK FALSE
INVARIANTS
    NothingLost
PROPERTIES
    IncomingIsEmptied
