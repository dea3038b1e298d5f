SPECIFICATION FairSpec
CONSTANTS
    bf = bf
    tk = tk
    cl = cl
    pb = pb
    btc = btc
    all = all
    i1 = i1
    i2 = i2
    p1 = p1
    p2 = p2
    c1 = c1
    NoTask = NoTask
    NoSlot = NoSlot
    Task = {bf, tk}
    Ticker = {tk}
    Backfill = {bf}
    Probe = {}
    Cleanup = {}
    Pair = {btc, all}
    PairOf <- MCPairOf
    MaxRetry <- MCMaxRetry
    Instance = {i1}
    Planner = {i1}
    Slot = {p1, c1}
    Consumer = {c1}
    Host <- MCOneHost
    Limit = 2
    BackfillLimit = 1
    MaxMessages = 1
    MaxFaults = 1
INVARIANTS PairMutualExclusion NoLockLeak
PROPERTY TickerRecovers
PROPERTY PendingServed
