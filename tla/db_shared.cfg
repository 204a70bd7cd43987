SPECIFICATION FairSpec
CONSTANTS
    Opts = {"a", "c", "d", "p", "z"}
    Procs = {p1, p2}
    Inodes = {f1, f2}
    NULL = NULL
    MAX_STD_ID = 2
    MAX_STD_GPA = 0
    IdArgs <- MCValidIds
    GpaArgs <- MCGpa
    HALF = 4
    IOFaults = {}
INVARIANTS RecordsInPlace
PROPERTIES OnlyDeleteRemoves Terminates
