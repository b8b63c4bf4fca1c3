SPECIFICATION Spec
CONSTANTS
    Action = {a1, a2}
    GPU = {g1}
    Token = {t1, t2}
    Owner = {"digest"}
    Timeout = {1, 3}
    Ttl = {1, 2, 3}
    Skew = 1
    MaxTimeout = 3
    MaxTime = 4
    NoRecord = NoRecord
    NoToken = NoToken
SYMMETRY Symmetry
INVARIANTS
    ResultIsTrue
    TypeOK
    LeaseCoversPromptCommand
PROPERTIES
    FirstCodeKept
