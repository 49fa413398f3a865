SPECIFICATION FairSpec
CONSTANTS
  Thread = {t1, t2}
  MaxQueued = 2

INVARIANT TypeOK
INVARIANT OneLoop
 
PROPERTY ForegroundSyncs
PROPERTY BackgroundIsQuiet
