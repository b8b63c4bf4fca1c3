SPECIFICATION VmSpec
CONSTANTS
    DeployRequest = {deploy1}
    StopRequest = {stop1}
    DeleteRequest = {delete1}
    Pid = {p1}
    NoPid = NoPid
    NoRequest = NoRequest
CHECK_DEADLOCK FALSE
INVARIANTS
    DeployedStaysUp
