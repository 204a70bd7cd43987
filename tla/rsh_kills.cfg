SPECIFICATION FairSpec
CONSTANTS
    Clients = {c1, c2}
    Cmds <- MCKillCmds
    Outputs <- MCOutputs
    MaxCmds = 2
    BUFF_SZ = 4
    BACKLOG = 1
    Kills = TRUE
    SysFaults = TRUE
INVARIANTS NoLeakedSession
PROPERTIES Reaped
CHECK_DEADLOCK FALSE
