SPECIFICATION Spec
CONSTANTS
    BUFFER_SZ = 4
    Flags <- MCFlags
    Args <- MCArgs
    Heaps <- MCHeaps
INVARIANTS
    TypeOK
    BufferIsInput
    ReverseIsReversal
    WordsArePrinted
    ReplaceIsSplice
    ReversalsAgree
CHECK_DEADLOCK FALSE
