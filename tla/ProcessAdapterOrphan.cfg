SPECIFICATION Spec
CONSTANTS
    Client = {c1}
    Sandbox = {s1}
    Process = {p1, p2}
    NoProcess = NoProcess
    NoSandbox = NoSandbox
CHECK_DEADLOCK FALSE
INVARIANTS
    StoppedHasNoProcess
