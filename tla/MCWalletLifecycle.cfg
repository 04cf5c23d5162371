SPECIFICATION Spec
CONSTANTS
  w1 = w1
  w2 = w2
  w3 = w3
  s1 = s1
  s2 = s2
  s3 = s3
  Client = {c1}
  Name = {n1, n2}
  Wallet = {w1, w3}
  Imported = {w3}
  SeedOf <- MCSeedOf
  Seed = {s1, s2, s3}
  IssueLimit = 2
  Kinds = {"import", "rename", "password", "remove", "platform", "cli"}
  NoWallet = NoWallet
  NoSeed = NoSeed
  Plain = Plain
SYMMETRY Symmetry
INVARIANTS
  TypeOK
  WalletsKept
  MnemonicReadable
  ReservationsSurvive
  CheckedReservations
CHECK_DEADLOCK FALSE
