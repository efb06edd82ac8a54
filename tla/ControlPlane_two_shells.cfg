\* Two shells load and renew at once, while systemd fails and commands are killed;
\* nobody unloads but the deadman.
SPECIFICATION Spec
CONSTANTS
    Clients = {c1, c2}
    c1 = c1
    c2 = c2
    Deadman = deadman
    Profiles <- GoodProfilesMC
    Allow <- AllowMC
    Rejected <- RejectedMC
    TooLong <- TooLongMC
    AllowCap = 2
    TTLs = {0, 1}
    RenewTTLs = {0}
    DefaultTtl = 2
    Faults = {"systemd", "kill"}
    Ops = {"load", "renew"}
SYMMETRY ClientSymmetry
INVARIANTS
    StrandIsReported
    LoadedMeansPopulated
