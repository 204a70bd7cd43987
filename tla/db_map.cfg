SPECIFICATION Spec
CONSTANTS
    Opts = {"a", "c", "d", "f", "p", "z", "h", "?", "-"}
    Procs = {p1}
    Inodes = {f1, f2}
    NULL = NULL
    MAX_STD_ID = 2
    MAX_STD_GPA = 1
    IdArgs <- MCIds
    GpaArgs <- MCGpas
    HALF = 4
    IOFaults = {}
PROPERTIES ImplementsStore
