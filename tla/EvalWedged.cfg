SPECIFICATION LiveSpec
CONSTANTS
  h1 = h1
  h2 = h2
  NumSubs = 1
  Hotkeys = {h1, h2}
  HotkeyOf <- OneHotkey
  BlockHashed = {1}
  Reregistering = {}
  InitialKings = {2}
  MaxRetry = 1
  MaxRuns = 2
  MaxFaults = 1
  RetryBound = 3
PROPERTY QueueIsServed
CHECK_DEADLOCK FALSE
