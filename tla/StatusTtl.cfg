\* One shell, a status beside it, and everything may fail or end.
SPECIFICATION SSpec
CONSTANTS
    Clients = {c1}
    c1 = c1
    Deadman = deadman
    Profiles <- ProfilesMC
    Allow <- AllowMC
    Rejected <- RejectedMC
    TooLong <- TooLongMC
    AllowCap = 2
    TTLs = {0, 1, 2}
    RenewTTLs = {0, 2}
    DefaultTtl = 2
    Faults = {"sudo", "io", "systemd", "kill", "reboot", "logout"}
    Ops = {"load", "unload", "renew"}
INVARIANTS
    TypeOK
    DeadmanKeepsPromise
    AllowlistFromOneProfile
    SecondsAreKept
