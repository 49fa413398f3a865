SPECIFICATION OwnersSpec
CONSTANTS
  Devices = {d1, d2, d3}
  Extensions = {e1, e2}
  Phrase = {p1, p2}

INVARIANT WalletMatchesSafe
INVARIANT NewDeviceRecovers
INVARIANT SettingsAccepted
CHECK_DEADLOCK FALSE
