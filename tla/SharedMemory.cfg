SPECIFICATION FairSpec
CONSTANTS
    w1 = w1
    w2 = w2
    r1 = r1
    r2 = r2
    s1 = s1
    h1 = h1
    h2 = h2
    m2 = m2
    t1 = t1
    t2 = t2
    Nobody = Nobody
    Zero = Zero
    Junk = Junk
    Writers <- TwoWriters
    Readers <- TwoReaders
    Numbers <- ThreeNumbers
    MAX_PROCESSES = 3
    MAX_LINES = 2
CHECK_DEADLOCK FALSE
INVARIANTS
    ShownWasTyped
    LostToWriter
    NameGoesWithReader
PROPERTIES
    ShowsLast
