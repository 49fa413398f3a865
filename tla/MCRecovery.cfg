SPECIFICATION FairSpec
CONSTANTS
  Safe = {"s1", "s2"}
  Device = dev
  Extension = {e1}
  Deployed <- MCDeployed
  MaxEntries = 2
  MaxReviews = 3
  MaxFailures = 2
  MaxKills = 1
  Patient = TRUE
  
PROPERTIES  SubscribedEnds
CHECK_DEADLOCK FALSE
