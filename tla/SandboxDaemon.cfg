SPECIFICATION VmFairSpec
CONSTANTS
    DeployRequest = {deploy1, deploy2}
    StopRequest = {stop1}
    DeleteRequest = {delete1}
    Pid = {p1}
    NoPid = NoPid
    NoRequest = NoRequest
CHECK_DEADLOCK FALSE
INVARIANTS
    VmTypeOK
    AliveIsRunning
PROPERTIES
    DeletedEnds
    RequestsReturn
