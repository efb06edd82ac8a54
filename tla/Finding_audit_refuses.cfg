\* Tasks open files under a load with --audit that has yet to write its mode.
SPECIFICATION SSpec
CONSTANTS
    t1 = t1
    t2 = t2
    Tasks = {t1, t2}
    Cpus = {t1, t2}
    CpuOf <- CpuOfMC
    Chars <- CharsMC
    Slash = "/"
    Nul = "nul"
    DirDefaults <- DirDefaultsMC
    Dev <- DevMC
    DevNames <- DevNamesMC
    MaxPrefix = 4
    Paths <- PathsMC
    Profiles <- ProfilesMC
    MaxOpens = 2
    Reports = 0
    SudoFails = TRUE
INVARIANTS
    AuditRefusesNothing
