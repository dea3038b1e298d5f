SPECIFICATION MCSpec
CONSTANTS
    a = a
    b = b
    c = c
    NoHolder = NoHolder
    Planner = {a, b, c}
    HostName <- MCHostName
    TTL = 3
    Interval = 2
    MaxTick = 3
    LastDay = 3
    Hours = 2
    MaxDays = 2
    Worker = {w1, w2}
    Source = {s1, s2, s3}
    MinSources = 2
    CheckHour = {1, 2}
    Quote = {0, 10000, 10200, 10204}
INVARIANTS  TakeoverBounded CoveredSound ChecksCompareAllPairs
PROPERTIES StableLeadership VerifiedStays CompleteDaysCovered
CHECK_DEADLOCK FALSE
