SPECIFICATION SpecBytes
CONSTANTS
  Values = {300, 900, 2000}
  MaxCoins = 3
  MaxIncluded = 1
  Amounts = {294, 1100}
  Scripts = {"p2pkh", "p2sh", "p2wpkh", "p2wsh", "p2tr"}
  Rates = {10, 13, 25}
  Limits = {250}
  NoLimit = 100000
  Fill = 9
  LowBytes = {0, 1, 2}
  NewBytes = {0, 1}
INVARIANTS
  SelectionOptimal
  NoChangeBurnt
  SignedPaysRate
  EstimateSuffices
  EstimateIsSize
  WrittenIsRead
  OneForm
  CodecsAgree
CHECK_DEADLOCK FALSE
