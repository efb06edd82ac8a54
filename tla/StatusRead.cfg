\* Two tasks open files, each on a CPU of its own, while a load fills the maps,
\* an unload takes them away and status reads them.
SPECIFICATION SSpec
CONSTANTS
    t1 = t1
    t2 = t2
    Tasks = {t1, t2}
    Cpus = {t1, t2}
    CpuOf <- CpuOfMC
    Chars <- CharsMC
    Slash = "/"
    Nul = "nul"
    DirDefaults <- DirDefaultsMC
    Dev <- DevMC
    DevNames <- DevNamesMC
    MaxPrefix = 4
    Paths <- PathsMC
    Profiles <- ProfilesMC
    MaxOpens = 2
    Reports = 1
    SudoFails = TRUE
INVARIANTS
    TypeOK
    HookMirrorsPolicy
    CountsAddUp
    ReportLosesNoOpen
