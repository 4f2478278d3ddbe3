SPECIFICATION FairSpec
CONSTANTS
    s1 = s1
    s2 = s2
    c1 = c1
    c2 = c2
    short = short
    long = long
    other = other
    Nobody = Nobody
    Servers <- TwoServers
    Clients <- TwoClients
    Privileged <- OneServer
    Lines <- ThreeLines
    Integers <- TwoNumbers
    Size <- Sizes
    MSG_SIZE = 10
    DEFAULT_SIZE = 8192
    INT_LEN = 12
    MAX_MESSAGES = 1
    MAX_LINES = 3
CHECK_DEADLOCK FALSE
INVARIANTS
    ServerFirstNeverFails
    NameGoesWithServer
PROPERTIES
    SenderProceeds
    QueueIsDrained
