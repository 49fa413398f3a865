SPECIFICATION Spec
CONSTANTS
  Token = {a, b}
  Gas = {}
  Updater = {u1}
  MaxListings = 1
  MaxMerges = 2
  MaxChoices = 3
  MaxBalance = 0
  MaxFailures = 0
  MaxKills = 0
SYMMETRY Tokens
CONSTRAINT Unhurried
INVARIANT ChoiceIsKept
INVARIANT OrderIsKept
CHECK_DEADLOCK FALSE
