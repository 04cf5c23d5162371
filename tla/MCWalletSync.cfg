SPECIFICATION Spec
CONSTANTS
  pay = pay
  sweep = sweep
  gift = gift
  x1 = x1
  x2 = x2
  x3 = x3
  a1 = a1
  a2 = a2
  NoTx = NoTx
  Syncer = {s1, s2}
  Tx = {pay, gift}
  Local = {pay}
  Sweeps = {}
  Coin = {x1, x2, x3}
  Genesis = {x1}
  Spends <- MCSpends
  Makes <- MCMakes
  Value <- MCValue
  Book <- MCBook
  FirstIssued = 1
  At <- MCAt
  Mode = {"full", "funding"}
  EventLimit = 3
SYMMETRY Symmetry
VIEW ButHistory
INVARIANTS
  TypeOK
  CachedCoinsUsed
  FullScanExact
  UnminedCoinsBlocked
  BlockedByPending
CHECK_DEADLOCK FALSE
