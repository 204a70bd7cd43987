SPECIFICATION FairSpec
CONSTANTS
    CMD_MAX = 2
    EXE_MAX = 4
    ARG_MAX = 14
    CMD_ARGV_MAX = 3
    ForkFaults = TRUE
    MaxLines = 2
    Lines <- MCLines
    ArgLists <- MCArgLists
INVARIANTS
    TypeOK
    ListIsLine
    ArgsApart
    RoundTrip
    ParsersAgree
    CodeOfProgram
PROPERTY PromptReturns
CHECK_DEADLOCK FALSE
