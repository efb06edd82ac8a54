\* One shell, no faults at all.
SPECIFICATION Spec
CONSTANTS
    Clients = {c1}
    c1 = c1
    Deadman = deadman
    Profiles <- GoodProfilesMC
    Allow <- AllowMC
    Rejected <- RejectedMC
    TooLong <- TooLongMC
    AllowCap = 2
    TTLs = {0, 1, 2}
    RenewTTLs = {0, 2}
    DefaultTtl = 2
    Faults = {}
    Ops = {"load", "unload", "renew"}
INVARIANTS
    RecordNotAheadOfTimer
