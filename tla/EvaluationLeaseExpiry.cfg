SPECIFICATION Spec
CONSTANTS
    Action = {a1, a2}
    GPU = {g1}
    Token = {t1, t2}
    Owner = {"digest"}
    Timeout = {1}
    Ttl = {2}
    Skew = 1
    MaxTimeout = 3
    MaxTime = 4
    NoRecord = NoRecord
    NoToken = NoToken
INVARIANTS
    LeaseCoversCommand
