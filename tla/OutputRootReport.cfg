SPECIFICATION Spec
CONSTANTS
    Action = {a1}
    Process = {p1}
    outer = outer
    inner = inner
    Root = {outer}
    Outside = Outside
    ParentOf <- SingleRoot
    Inode = {1, 2, 3, 4}
    Tampered = {}
    NoInode = NoInode
    NoAction = NoAction
    NoRoot = NoRoot
INVARIANTS
    CreatedIsReported
