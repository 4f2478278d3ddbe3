SPECIFICATION Spec
CONSTANTS
    c1 = c1
    c2 = c2
    c3 = c3
    NoResult = NoResult
    Clients <- OneClient
    Patient <- None
    Values <- OneAndTwo
    MAX_INTS = 2
    SOCKBUF = 3
    READ_INTS = 2
    BACKLOG = 1
    INT_MAX = 7
    FD_LIMIT = 6
    WRAP_BIT = 8
    MAX_CLIENTS = 3
CHECK_DEADLOCK FALSE
INVARIANT
    EveryResultIsSum
