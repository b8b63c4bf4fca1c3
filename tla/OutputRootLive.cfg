SPECIFICATION FairSpec
CONSTANTS
    Action = {a1, a2}
    Process = {p1, p2}
    outer = outer
    inner = inner
    Root = {outer}
    Outside = Outside
    ParentOf <- SingleRoot
    Inode = {1, 2, 3, 4, 5, 6, 7, 8}
    Tampered = {}
    NoInode = NoInode
    NoAction = NoAction
    NoRoot = NoRoot
PROPERTIES
    ExecuteReturns
