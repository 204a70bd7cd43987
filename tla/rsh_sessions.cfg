SPECIFICATION FairSpec
CONSTANTS
    Clients = {c1, c2}
    Cmds <- MCShortCmds
    Outputs <- MCOutputs
    MaxCmds = 2
    BUFF_SZ = 3
    BACKLOG = 1
    Kills = FALSE
    SysFaults = FALSE
INVARIANTS TypeOK InSync StopsOnlyOnRequest
PROPERTIES EveryoneLeaves
CHECK_DEADLOCK FALSE
