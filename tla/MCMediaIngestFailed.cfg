CONSTANTS
    f1 = f1
    f2 = f2
    f3 = f3
    f4 = f4
    i1 = i1
    i2 = i2
    alice = alice
    bob = bob
    Incoming = {p1}
    Uploads = {}
    Elsewhere = {}
    Files = {f1, f2}
    Users = {alice, bob}
    Ids = {i1, i2}
    OwnerOf <- Owners
    SizeOf <- Twins
    MediaId <- Hash
    LeftOver = {None}
    Jobs = {j1}
    Deleters = {}
    MaxGiven = 1
    MaxCrashes = 0
    MaxFaults = 0
    None = None
SPECIFICATION Spec
CHECK_DEADLOCK FALSE
INVARIANTS
    FailedIsRejected
