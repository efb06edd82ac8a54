\* A process with two threads, and room for everybody in the map.
SPECIFICATION Spec
CONSTANTS
    Pids = {p1, p2}
    p1 = p1
    p2 = p2
    MaxThreads = 2
    MapCap = 2
    StatCap = 1
    PidReuse = FALSE
    SudoFails = FALSE
    MaxList = 1
INVARIANTS
    DescendantsProtected
