SPECIFICATION Spec
CONSTANTS
  Client = {c1}
  IndexLimit = 3
  GapLimit = 2
  ScanLimit = 4
  DraftLimit = 3
  Earlier <- New
SYMMETRY Symmetry
INVARIANT
  ImportFindsChange
CHECK_DEADLOCK FALSE
