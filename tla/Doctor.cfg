\* One shell and the deadman load and unload while doctor runs; sudo and
\* systemctl may fail.
SPECIFICATION DSpec
CONSTANTS
    Clients = {c1}
    c1 = c1
    Deadman = deadman
    Profiles <- ProfilesMC
    Allow <- AllowMC
    Rejected = {}
    TooLong = {}
    AllowCap = 2
    TTLs = {1}
    RenewTTLs = {0}
    DefaultTtl = 1
    Faults = {"sudo", "systemd", "reboot"}
    Ops = {"load", "unload"}
    Callers <- CallersMC
    Units = 2
INVARIANTS
    DoctorTypeOK
    InertIsExplained
    HalfMadeWasThere
