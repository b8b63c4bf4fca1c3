SPECIFICATION BreakerFairSpec
CONSTANTS
    Client = {c1, c2, c3}
    FailureThreshold = {0, 1, 2}
    SuccessThreshold = {0, 1, 2}
    ResetTimeout = 2
INVARIANTS
    BreakerTypeOK
PROPERTIES
    OpensAtThreshold
    ClosesAfterTrial
    OpenEnds
