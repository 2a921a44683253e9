CONSTANTS
    f1 = f1
    f2 = f2
    f3 = f3
    f4 = f4
    i1 = i1
    i2 = i2
    alice = alice
    bob = bob
    Incoming = {p1}
    Uploads = {u1}
    Elsewhere = {u1}
    Files = {f1, f2, f3}
    Users = {alice, bob}
    Ids = {i1, i2}
    OwnerOf <- Owners
    SizeOf <- Twins
    MediaId <- Hash
    LeftOver = {None}
    Jobs = {j1, j2}
    Deleters = {d1}
    MaxGiven = 3
    MaxCrashes = 1
    MaxFaults = 0
    None = None
SPECIFICATION Spec
CHECK_DEADLOCK FALSE
SYMMETRY Symmetry
INVARIANTS
    TypeOK
    NothingLost
    
