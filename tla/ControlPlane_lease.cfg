\* One shell, every arm with a TTL, and reboots.
SPECIFICATION FairSpec
CONSTANTS
    Clients = {c1}
    c1 = c1
    Deadman = deadman
    Profiles <- GoodProfilesMC
    Allow <- AllowMC
    Rejected <- RejectedMC
    TooLong <- TooLongMC
    AllowCap = 2
    TTLs = {1, 3}
    RenewTTLs = {0, 2}
    DefaultTtl = 2
    Faults = {"reboot"}
    Ops = {"load", "unload", "renew"}
INVARIANTS
    DeadmanGuardsArm
    LoadedMeansPopulated
    AuditNeverBlocks
PROPERTIES
    SelfHeals
    HeldOnLease
