SPECIFICATION Spec
CONSTANTS
  Client = {c1, c2}
  Name = {single, copy}
  Wallet = {first, again, other}
  first = first
  again = again
  other = other
  single = single
  copy = copy
  NameOf <- Names
  Op = {d1, d2}
  Coin = {x1}
  TipLimit = 1
  NoOp = NoOp
  NoWallet = NoWallet
SYMMETRY Symmetry
INVARIANTS
  TypeOK
  CancelledNeverPosted
  UnknownStaysBlocked
  ConflictOnlyReconciled
  RemovedWhenSettled
CHECK_DEADLOCK FALSE
