SPECIFICATION FairSpec
CONSTANTS
    c1 = c1
    c2 = c2
    c3 = c3
    NoResult = NoResult
    Nobody = Nobody
    Clients <- TwoClients
    Patient <- OneClient
    Values <- OneAndTwo
    MAX_INTS = 2
    SOCKBUF = 3
    READ_INTS = 2
    BACKLOG = 1
    INT_MAX = 3
CHECK_DEADLOCK FALSE
PROPERTIES
    OneAtATime
    SumServiceSpec
    ResultArrives
