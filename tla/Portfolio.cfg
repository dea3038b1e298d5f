SPECIFICATION Spec
CONSTANTS
  Asset = {btc, junk}
  Catalog = {btc}
  Credential = {cr}
  Wallet = {wa}
  NoLink = NoLink
  Origin <- MCOrigin
  Request = {r1, r2}
  MaxManual = 1
  MaxLedger = 2
  Quantity = {1, 2}
  UnitPrice = {1, 3}
  MaxTrades = 4
  ValuedAsset = {va, vb}
  Amount = {1, 3}
  Price = {1, 2}
  LastTime = 2
  MaxHeld = 3
  StreamAsset = {sa, sb}
  Capacity = 3
  MaxForeign = 2
INVARIANTS OrphansRaced  FifoMatchesUnits
INVARIANTS AllocationsSum HistoryCarriesForward 
SYMMETRY Symmetry
