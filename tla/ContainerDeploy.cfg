SPECIFICATION Spec
CONSTANTS
    Job = {"j1", "j2"}
    Configs <- MCConfigs
    Plans <- MCPlans
    Casts <- MCCasts
    MaxAttempts = 2
    MaxMeddle = 1
INVARIANTS
    LifecycleInv
    ListSound
PROPERTIES
    OnlyOwnTouched
    CallsReturn
CHECK_DEADLOCK FALSE
