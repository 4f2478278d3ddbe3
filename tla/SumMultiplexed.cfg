SPECIFICATION Spec
CONSTANTS
    c1 = c1
    c2 = c2
    c3 = c3
    NoResult = NoResult
    Clients <- ThreeClients
    Patient <- None
    Values <- One
    MAX_INTS = 1
    SOCKBUF = 1
    READ_INTS = 1
    BACKLOG = 0
    INT_MAX = 1
    FD_LIMIT = 6
    WRAP_BIT = 6
    MAX_CLIENTS = 4
CHECK_DEADLOCK FALSE
SYMMETRY ClientSymmetry
INVARIANTS
    SlotsClean
    ReadSetCurrent
