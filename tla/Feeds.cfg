SPECIFICATION FeedsSpec
CONSTANTS
  p1 = p1
  p2 = p2
  k1 = k1
  k2 = k2
  Pair = {p1, p2}
  Source = {k1, k2}
  Bucket = {1, 2}
  Price = {1, 2, 3}
  Quote <- MCQuote
  Stream = {s1}
  Reader = {r1}
  CacheSize = 1
  MaxEvents = 2
  MaxBatch = 2
  MaxFaults = 1
  NewsSource = {n1, n2}
  Headline = {h1, h2}
  LastStamp = 2
  NewsLimit = 1
  NewsStream = {c1}
  NullNews = NullNews
  StatusPair = {x1}
  TaskStream = {d1}
  Viewer = {v1}
  MaxChanges = 2
  MaxReadErrors = 1
  Unread = Unread
INVARIANTS  NoLostWakeup OldNewsIsSignalled HiddenWasShown
PROPERTIES FeedDelivers TaskListsArrive
