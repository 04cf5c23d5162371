SPECIFICATION Spec
CONSTANTS
  Client = {c1, c2}
  IndexLimit = 3
  GapLimit = 2
  ScanLimit = 4
  DraftLimit = 2
  Earlier <- NewOrUsed
SYMMETRY Symmetry
INVARIANTS
  TypeOK
  
  EnabledStartsFresh
PROPERTY
  IssuedStays
CHECK_DEADLOCK FALSE
