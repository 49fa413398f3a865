SPECIFICATION FairSpec
CONSTANTS
  Thread = {t1, t2}
  Addr = {a1, a2, a3}
  None = None
  MinAmount = 2
  MaxErrors = 0
  MaxAborts = 0
  MaxCrashes = 2
  MaxTaps = 1
  MayRevert = FALSE
INVARIANT NoTrap
PROPERTY DeploymentCompletes
CHECK_DEADLOCK FALSE
