SPECIFICATION Spec
CONSTANTS
  Thread = {t1, t2}
  Addr = {a1, a2}
  None = None
  MinAmount = 1
  MaxErrors = 0
  MaxAborts = 1
  MaxCrashes = 0
  MaxTaps = 2
  MayRevert = FALSE
SYMMETRY Symmetry
CONSTRAINT OneUpdate
INVARIANT RowIsWhole
CHECK_DEADLOCK FALSE
