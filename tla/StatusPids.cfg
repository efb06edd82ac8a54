\* Four single-threaded processes, a map for three, no PID used twice; a status
\* with at most three steps of theirs under it.
SPECIFICATION SSpec
CONSTANTS
    Pids = {p1, p2, p3, p4}
    p1 = p1
    p2 = p2
    p3 = p3
    p4 = p4
    MaxThreads = 1
    MapCap = 3
    StatCap = 1
    PidReuse = FALSE
    MaxList = 2
    SudoFails = TRUE
    MaxOverlap = 3
SYMMETRY PidSymmetry
INVARIANTS
    TypeOK
    DescendantsProtected
    NoStrayProtection
    RestrictedAreReported
PROPERTIES
    EnforceIsComplete
