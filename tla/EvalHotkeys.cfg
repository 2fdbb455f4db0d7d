SPECIFICATION Spec
CONSTANTS
  h1 = h1
  h2 = h2
  NumSubs = 2
  Hotkeys = {h1, h2}
  HotkeyOf <- SharedHotkey
  BlockHashed = {1, 2}
  Reregistering = {h1}
  InitialKings = {0}
  MaxRetry = 1
  MaxRuns = 3
  MaxFaults = 1
  RetryBound = 2
VIEW Observable
INVARIANT CrownNeedsTwoWins
INVARIANT OneVerdictPerHotkey
PROPERTY KeepsThePromise
CHECK_DEADLOCK FALSE
