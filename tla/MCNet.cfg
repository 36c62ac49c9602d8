SPECIFICATION Spec
CHECK_DEADLOCK FALSE
CONSTANTS
    peer1 = peer1
    peer2 = peer2
    NoValue = NoValue
    Absent = Absent
INVARIANTS
    PeersServed
    AnswerLinked
    
    PeersExact
    PeerQuiet
    DialsExact
    
    RequestsAnswered
