SPECIFICATION FairSpec
CONSTANTS
  Ids = {i1, i2}
  NoId = NoId
  Exts = {e1, e2}
  NoExt = NoExt
  First = e1
  i1 = i1
  i2 = i2
  e1 = e1
  e2 = e2
  t1 = t1
  Tasks = {t1}
  Impatient = FALSE
  MaxFlows = 2
  MaxScans = 2
  MaxCrashes = 1
  MaxFailedReads = 1
  MaxChoices = 1
INVARIANTS  NamedWasOwner
 
CONSTRAINT OneDisturbance
CHECK_DEADLOCK FALSE
