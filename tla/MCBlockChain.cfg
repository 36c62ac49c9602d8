SPECIFICATION MCSpec
CHECK_DEADLOCK FALSE
CONSTANTS
    g = g
    a1 = a1
    a2 = a2
    a3 = a3
    a4 = a4
    b1 = b1
    b2 = b2
    b3 = b3
    m2 = m2
    x1 = x1
    x2 = x2
    x3 = x3
    None = None
    Genesis = g
    Tx = {x1, x2, x3}
    Parent <- MCParent
    Difficulty <- MCDifficulty
    Txs <- MCTxs
    Segments <- MCSegments
    Heavy = 4
    Scenarios = {"import", "recovery", "rewind"}
    Block = {g, a1, a2, a3, a4, b1, b2, b3, m2}
    Time <- NoDelay
    Malformed = {}
    Invalid = {}
    Preserved = {m2}
    Mined = {m2}
    Rewinds = {0, 1}
    CacheDisabled = FALSE
    TriesInMemory = 2
    MaxAhead = 1
    MaxTime = 0
    MaxRewinds = 1
    MaxStops = 1
    MaxCrashes = 2
    MaxCuts = 1
INVARIANTS
    ChainExact
    HeadHasState
    StartupSucceeds
    HeaviestWins
PROPERTIES
    HeadNeverLighter
