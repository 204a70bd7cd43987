SPECIFICATION Spec
CONSTANTS
    Clients = {c1}
    Cmds <- MCBlankCmds
    Outputs <- MCOutputs
    MaxCmds = 1
    BUFF_SZ = 3
    BACKLOG = 1
    Kills = TRUE
    SysFaults = FALSE
INVARIANTS StopsOnlyOnRequest
CHECK_DEADLOCK FALSE
