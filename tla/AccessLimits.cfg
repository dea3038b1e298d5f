SPECIFICATION Spec
CONSTANTS
  Email = {e1, e2}
  Ip = {i1}
  Login = {q1, q2}
  MaxAttempts = 2
  Window = 1
  Threshold <- MCThreshold
  Duration <- MCDuration
  MaxFailures = 4
  User = {u1}
  NoUser = NoUser
  Address = {a1}
  Call = {c1, c2}
  NoCall = NoCall
  TokenId = {t1, t2, t3}
  UserLimit <- NarrowLimit
  IpLimit = 4
  MaxTokens = 1
  MaxRows = 6
INVARIANTS LoginBudget TokenQuota ApiBudget
SYMMETRY Symmetry
