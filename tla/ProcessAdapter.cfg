SPECIFICATION FairSpec
CONSTANTS
    Client = {c1, c2}
    Sandbox = {s1}
    Process = {p1, p2, p3}
    NoProcess = NoProcess
    NoSandbox = NoSandbox
CHECK_DEADLOCK FALSE
INVARIANTS
    TypeOK
    StoppedIsTrueOfFirstRun
PROPERTIES
    StatusCatchesUp
