SPECIFICATION FairSpec
CHECK_DEADLOCK FALSE
CONSTANTS
    g = g
    b1 = b1
    b2 = b2
    b3 = b3
    c1 = c1
    p = p
    q = q
    None = None
    Genesis = g
    EmptyBody = "empty"
    Parent <- MCParent
    Number <- MCNumber
    Body <- MCBody
    Verdict <- MCVerdict
    Peer = {p, q}
    Block = {g, b1, b2}
    Honest = {p, q}
    Claims = {}
    Synced = {}
    Future = {}
    BadHeader = {}
    BadBlock = {}
    HashLimit = 2
    BlockLimit = 3
    MaxUncleDist = 2
    MaxQueueDist = 2
    MayExpire = FALSE
    MayStop = FALSE
    MaxNotifies = 2
    MaxEnqueues = 1
    MaxSpurious = 0
PROPERTIES
    FetcherProgresses
