SPECIFICATION Spec
CONSTANTS
    Action = {a1, a2}
    Process = {p1, p2}
    outer = outer
    inner = inner
    Root = {outer, inner}
    Outside = Outside
    ParentOf <- NestedRoots
    Inode = {1, 2, 3, 4, 5, 6, 7, 8, 9, 10}
    Tampered = {inner}
    NoInode = NoInode
    NoAction = NoAction
    NoRoot = NoRoot
SYMMETRY Symmetry
INVARIANTS
    RootIsHeld
    TypeOK
    ProvenanceIsTrue
PROPERTIES
    OnlyOwnEmptyRootRemoved
