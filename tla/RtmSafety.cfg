SPECIFICATION Spec
CONSTANTS
    c1 = c1
    c2 = c2
    c3 = c3
    d1 = d1
    d2 = d2
    m1 = m1
    g1 = g1
    g2 = g2
    uninit = uninit
    Uninit <- uninit
    Clients <- ThreeClients
    Destinations <- TwoDestinations
    Masks <- OneMask
    Gateways <- TwoGateways
    Oifs <- EmptyOif
    FD_LIMIT = 6
    SNDBUF = 1
    BACKLOG = 0
    MAX_CLIENTS = 3
INVARIANTS
    TypeOK
    Initialised
    UniqueKeys
    CheckedSubnetCurrent
    EveryMessageApplies
    MonitorSound
    InSync
PROPERTIES
    StaysMonitored
SYMMETRY DataSymmetry
CHECK_DEADLOCK FALSE
