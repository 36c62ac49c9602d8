SPECIFICATION Spec
CHECK_DEADLOCK FALSE
CONSTANTS
    g = g
    b1 = b1
    b2 = b2
    b3 = b3
    c1 = c1
    p = p
    q = q
    None = None
    Genesis = g
    EmptyBody = "empty"
    Parent <- MCParent
    Number <- MCNumber
    Body <- MCBody
    Verdict <- MCVerdict
    Peer = {p}
    Block = {g, b1, b2, c1}
    Honest = {p}
    Claims = {}
    Synced = {}
    Future = {}
    BadHeader = {}
    BadBlock = {}
    HashLimit = 1
    BlockLimit = 2
    MaxUncleDist = 1
    MaxQueueDist = 2
    MayExpire = TRUE
    MayStop = FALSE
    MaxNotifies = 4
    MaxEnqueues = 0
    MaxSpurious = 0
INVARIANT
    AnnouncesBounded
