SPECIFICATION FairSpec
CONSTANTS
    c1 = c1
    c2 = c2
    c3 = c3
    NoResult = NoResult
    Clients <- TwoClients
    Patient <- OneClient
    Values <- One
    MAX_INTS = 2
    SOCKBUF = 2
    READ_INTS = 2
    BACKLOG = 0
    INT_MAX = 1
    FD_LIMIT = 6
    WRAP_BIT = 5
    MAX_CLIENTS = 3
CHECK_DEADLOCK FALSE
INVARIANTS
    TypeOK
    DescriptorsLow
PROPERTIES
    SumServiceSpec
    PendingIsAccepted
    ResultArrives
    GoneIsReclaimed
