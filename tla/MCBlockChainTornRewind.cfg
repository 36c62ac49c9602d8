SPECIFICATION MCSpec
CHECK_DEADLOCK FALSE
CONSTANTS
    g = g
    a1 = a1
    a2 = a2
    a3 = a3
    a4 = a4
    b1 = b1
    b2 = b2
    b3 = b3
    m2 = m2
    x1 = x1
    x2 = x2
    x3 = x3
    None = None
    Genesis = g
    Tx = {x1, x2, x3}
    Parent <- MCParent
    Difficulty <- MCDifficulty
    Txs <- MCTxs
    Segments <- MCSegments
    Heavy = 4
    Scenarios = {"torn"}
    Block = {g, a1, a2, b1, b2}
    Time <- NoDelay
    Malformed = {}
    Invalid = {}
    Preserved = {}
    Mined = {}
    Rewinds = {0, 1}
    CacheDisabled = FALSE
    TriesInMemory = 2
    MaxAhead = 1
    MaxTime = 0
    MaxRewinds = 1
    MaxStops = 0
    MaxCrashes = 0
    MaxCuts = 1
INVARIANT
    StartupSucceeds
