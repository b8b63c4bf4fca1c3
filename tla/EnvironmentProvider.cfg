SPECIFICATION Spec
CONSTANTS
    Call = {"c1", "c2"}
    Workloads <- MCWorkloads
    Hosts <- MCHosts
    HostAbsolute <- MCHostAbsolute
    SlashAbsolute <- MCSlashAbsolute
    InstallRoot <- MCInstallRoot
    DefaultDir = "C:"
    MaxChanges = 2
INVARIANTS
    StoreInv
    ToolkitInv
    DeviceInv
CHECK_DEADLOCK FALSE
