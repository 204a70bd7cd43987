SPECIFICATION FairSpec
CONSTANTS
    Opts = {"a", "x"}
    Procs = {p1, p2}
    Inodes = {f1, f2, f3, f4, f5, f6}
    NULL = NULL
    MAX_STD_ID = 1
    MAX_STD_GPA = 0
    IdArgs <- MCFirstId
    GpaArgs <- MCGpa
    HALF = 4
    IOFaults = {}
INVARIANTS FilesDistinct
PROPERTIES Terminates
