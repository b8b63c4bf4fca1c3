SPECIFICATION Spec
CONSTANTS
    Proc = {p1, p2}
    GPU = {g1, g2}
    Owner = {"a"}
    Token = {t1, t2}
    Ttl = {1, 2}
    MaxTime = 3
    NoRecord = NoRecord
    NoToken = NoToken
    NoRequest = NoRequest
    NoProc = NoProc
SYMMETRY Symmetry
INVARIANTS
    TypeOK
    ExclusiveLease
    LeaseOnDisk
PROPERTIES
    AllOrNothing
    OnlyOwnerFrees
    ImplementsLeaseTable
