SPECIFICATION Spec
CHECK_DEADLOCK FALSE
CONSTANTS
    g = g
    a1 = a1
    a2 = a2
    b1 = b1
    b2 = b2
    b3 = b3
    c1 = c1
    peer1 = peer1
    peer2 = peer2
    master = master
    NoValue = NoValue
    Absent = Absent
PROPERTIES
    SyncEnds
    FutureImported
    StopEnds
