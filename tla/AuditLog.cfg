SPECIFICATION Spec
CONSTANTS
    Request = {r1, r2, r3, r4}
    Kind <- Kinds
    Capacity = 2
    MaxLines = 2
    DataDir = TRUE
    MaxTime = 1
    Limits = {0, 1, 2}
    Offsets = {0, 1, 2}
    Unset = Unset
    NoEntry = NoEntry
SYMMETRY Symmetry
INVARIANTS
    TypeOK
    DiskInOrder
    QueryExact
