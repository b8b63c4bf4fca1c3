SPECIFICATION FairSpec
CONSTANTS
    Proc = {p1, p2}
    GPU = {g1}
    Owner = {"a"}
    Token = {t1, t2}
    Ttl = {1}
    MaxTime = 1
    NoRecord = NoRecord
    NoToken = NoToken
    NoRequest = NoRequest
    NoProc = NoProc
PROPERTIES
    CallsEnd
