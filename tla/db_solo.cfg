SPECIFICATION Spec
CONSTANTS
    Opts = {"a", "d", "x", "z"}
    Procs = {p1}
    Inodes = {f1, f2, f3}
    NULL = NULL
    MAX_STD_ID = 3
    MAX_STD_GPA = 0
    IdArgs <- MCThreeIds
    GpaArgs <- MCGpasAndOne
    HALF = 4
    IOFaults = {"open", "write", "rename"}
INVARIANTS TypeOK CompressPacks
PROPERTIES CompressKeepsStudents OnlyAddStores
