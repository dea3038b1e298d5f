SPECIFICATION FairSpec
CONSTANTS
  p1 = p1
  p2 = p2
  k1 = k1
  k2 = k2
  Pair = {p1}
  Source = {k1, k2}
  Bucket = {1, 2}
  Price = {1, 2, 3}
  Quote <- OnePairQuote
  Stream = {s1}
  Reader = {}
  CacheSize = 1
  MaxEvents = 2
  MaxBatch = 2
  MaxFaults = 0
PROPERTY StreamCatchesUp
