SPECIFICATION FairSpec
CONSTANTS
  Phrase = {p0, p1, p2}
  First = p0
  NoPhrase = none
  MaxFlows = 2
  MaxFees = 1
  MaxOthers = 1
  MaxFailures = 1
  MaxKills = 1

INVARIANTS KeyIsTemporary 
PROPERTY SubscriptionEnds
CHECK_DEADLOCK FALSE
