SPECIFICATION Spec
CHECK_DEADLOCK FALSE
CONSTANTS
    peer1 = peer1
    peer2 = peer2
    master = master
    Absent = Absent
INVARIANTS
    QueueExact
    
    SessionSound
    HeadersExact
    AncestorFound

    
