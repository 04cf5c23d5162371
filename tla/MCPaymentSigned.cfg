SPECIFICATION Spec
CONSTANTS
  Client = {c1, c2}
  Scanner = {}
  Draft = {d1}
  Coin = {x1}
  IndexLimit = 2
  ReceiveLimit = 1
  NoDraft = NoDraft
  NoClient = NoClient
  Manual = Manual
PROPERTY
  SignedStaysActive
CHECK_DEADLOCK FALSE
