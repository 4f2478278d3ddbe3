SPECIFICATION Spec
CONSTANTS
    c1 = c1
    c2 = c2
    c3 = c3
    d1 = d1
    d2 = d2
    m1 = m1
    g1 = g1
    g2 = g2
    uninit = uninit
    Uninit <- uninit
    Clients <- TwoClients
    Destinations <- OneDestination
    Masks <- OneMask
    Gateways <- OneGateway
    Oifs <- EmptyOif
    FD_LIMIT = 5
    SNDBUF = 1
    BACKLOG = 1
    MAX_CLIENTS = 4
INVARIANT
    RecoversFromDisconnect
CHECK_DEADLOCK FALSE
