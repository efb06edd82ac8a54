\* Two builds, one command that writes the record, one reader; two logs over a
\* ring of two lines.  Nobody has to write to the trace, so it may come to rest.
SPECIFICATION MCSpec
CONSTANTS
    Builds = {b1, b2}
    b1 = b1
    b2 = b2
    Arms = {a1}
    a1 = a1
    Readers = {r1}
    r1 = r1
    Temps = {t1, t2}
    t1 = t1
    t2 = t2
    Inodes = {1, 2, 3, 4, 5}
    None = None
    Logs = {l1, l2}
    l1 = l1
    l2 = l2
    Counts = {0, 2}
    RingCap = 2
    PipeCap = 2
    MaxLines = 3
CHECK_DEADLOCK FALSE
INVARIANTS
    FilesTypeOK
    ReadersSeeWhole
    NoLitter
    LogTypeOK
    NoDenialSkipped
PROPERTIES
    ObjectIsAtomic
    RecordIsAtomic
    LogReturns
