SPECIFICATION FairSpec
CONSTANTS
    Lines <- MCLines
    CMD_MAX = 3
    CAP = 1
    NPipes = 4
    ForkFaults = TRUE
    OnTerminal = TRUE
INVARIANTS
    TypeOK
    NothingLeftBehind
    OutputIsComposition
    ReturnCodeOfLast
PROPERTY EveryLineEnds
CHECK_DEADLOCK FALSE
