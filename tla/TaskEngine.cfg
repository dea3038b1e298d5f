SPECIFICATION Spec
CONSTANTS
    bf = bf
    tk = tk
    cl = cl
    pb = pb
    btc = btc
    all = all
    i1 = i1
    i2 = i2
    p1 = p1
    p2 = p2
    c1 = c1
    NoTask = NoTask
    NoSlot = NoSlot
    Task = {tk, cl}
    Ticker = {tk}
    Backfill = {}
    Probe = {}
    Cleanup = {cl}
    Pair = {btc, all}
    PairOf <- MCPairOf
    MaxRetry <- MCMaxRetry
    Instance = {i1, i2}
    Planner = {i1, i2}
    Slot = {p1, c1}
    Consumer = {c1}
    Host <- MCTwoHosts
    Limit = 2
    BackfillLimit = 1
    MaxMessages = 1
    MaxFaults = 1
INVARIANTS TypeOK ExclusiveClaim
PROPERTIES ReleasedByHolder NoResurrection ImplementsQueue
