SPECIFICATION FairSpec
CONSTANTS
  Token = {a}
  Gas = {a}
  Updater = {u1, u2}
  MaxListings = 0
  MaxMerges = 1
  MaxChoices = 2
  MaxBalance = 1
  MaxFailures = 1
  MaxKills = 1

PROPERTY BalanceFollows
CHECK_DEADLOCK FALSE
