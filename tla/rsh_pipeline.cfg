SPECIFICATION FairSpec
CONSTANTS
    Requests <- MCRequests
    CMD_MAX = 3
    CAP = 1
    NPipes = 2
    ForkFaults = TRUE
    OnTerminal = TRUE
    Leaves = TRUE
INVARIANTS
    TypeOK
    EofIsLast
    ReplyIsComposition
    CodeOfPipeline
PROPERTY ServerReturns
CHECK_DEADLOCK FALSE
