SPECIFICATION Spec
CONSTANTS
  Thread = {t1, t2}
  Addr = {a1, a2}
  None = None
  MinAmount = 2
  MaxErrors = 2
  MaxAborts = 0
  MaxCrashes = 1
  MaxTaps = 1
  MayRevert = TRUE
SYMMETRY Symmetry
INVARIANTS
  TypeOK
  OneActivity
  ReadyIsDeployed
  PaidBeforeRequested
  KeysKeptUntilDeployed
PROPERTY ImplementsSafeCreation
CHECK_DEADLOCK FALSE
