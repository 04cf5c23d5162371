SPECIFICATION Spec
CONSTANTS
  Client = {c1, c2}
  Scanner = {}
  Draft = {d1, d2}
  Coin = {x1, x2}
  IndexLimit = 3
  ReceiveLimit = 2
  NoDraft = NoDraft
  NoClient = NoClient
  Manual = Manual
SYMMETRY Symmetry
INVARIANTS
  TypeOK
  OneActiveDraft
  ChangeExclusive
  ActiveDraftSignable
PROPERTY
  ChangeLifecycleHolds
CHECK_DEADLOCK FALSE
