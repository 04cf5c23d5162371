SPECIFICATION Spec
CONSTANTS
  Client = {c1, c2}
  Scanner = {c1, c2}
  Draft = {d1, d2}
  Coin = {x1, x2}
  IndexLimit = 0
  ReceiveLimit = 2
  NoDraft = NoDraft
  NoClient = NoClient
  Manual = Manual
SYMMETRY Symmetry
INVARIANTS
  NoUnforcedConflict
  AcceptedCoinsBlocked
  
CHECK_DEADLOCK FALSE
