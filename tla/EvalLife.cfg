SPECIFICATION LiveSpec
CONSTANTS
  h1 = h1
  h2 = h2
  NumSubs = 1
  Hotkeys = {h1, h2}
  HotkeyOf <- OneHotkey
  BlockHashed = {1}
  Reregistering = {}
  InitialKings = {2}
  MaxRetry = 2
  MaxRuns = 3
  MaxFaults = 1
  RetryBound = 3
INVARIANT OneEvalAtATime
PROPERTY FinalStaysFinal
PROPERTY EveryoneIsDecided
CHECK_DEADLOCK FALSE
