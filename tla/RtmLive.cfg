SPECIFICATION FairSpec
CONSTANTS
    c1 = c1
    c2 = c2
    c3 = c3
    d1 = d1
    d2 = d2
    m1 = m1
    g1 = g1
    g2 = g2
    uninit = uninit
    Uninit <- uninit
    Clients <- TwoClients
    Destinations <- TwoDestinations
    Masks <- OneMask
    Gateways <- OneGateway
    Oifs <- EmptyOif
    FD_LIMIT = 6
    SNDBUF = 1
    BACKLOG = 0
    MAX_CLIENTS = 4
PROPERTIES
    ServiceSpec
    ClientsFollowServer
    PendingIsAccepted
    WritesComplete
    Converges
CHECK_DEADLOCK FALSE
