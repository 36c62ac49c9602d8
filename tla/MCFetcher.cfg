SPECIFICATION Spec
CHECK_DEADLOCK FALSE
CONSTANTS
    g = g
    b1 = b1
    b2 = b2
    b3 = b3
    c1 = c1
    p = p
    q = q
    None = None
    Genesis = g
    EmptyBody = "empty"
    Parent <- MCParent
    Number <- MCNumber
    Body <- MCBody
    Verdict <- MCVerdict
    Peer = {p, q}
    Block = {g, b1, b2, c1}
    Honest = {q}
    Claims = {0, 3}
    Synced = {b1}
    Future = {c1}
    BadHeader = {b2}
    BadBlock = {}
    HashLimit = 2
    BlockLimit = 1
    MaxUncleDist = 1
    MaxQueueDist = 2
    MayExpire = TRUE
    MayStop = TRUE
    MaxNotifies = 2
    MaxEnqueues = 1
    MaxSpurious = 1
INVARIANTS
    TypeOK
    QueueExact
    StagesExact
    HonestKept
