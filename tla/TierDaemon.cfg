SPECIFICATION FairSpec
CONSTANTS
    Sandbox = {s1}
    Hosts <- MCHosts
    Embedded = {"native", "seccomp", "firecracker"}
    Configs <- MCConfigs
    Envs <- MCEnvs
    Preferred <- MCPreferred
    Numbers = {4, 5, 6, 7, 8, 9, 10, 11, 12, 13, 14, 15, 17, 18, 19, 20, 21, 25, 30}
INVARIANTS
    SelectionInv
    GuestInv
PROPERTIES
    DeployAnswered
CHECK_DEADLOCK FALSE
