SPECIFICATION Spec
CONSTANTS
    s1 = s1
    s2 = s2
    s3 = s3
    Nobody = Nobody
    Servers <- ThreeServers
    Strict <- OneServer
CHECK_DEADLOCK FALSE
INVARIANTS
    AloneIsReached
    RaceHasWinner
