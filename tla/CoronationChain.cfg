SPECIFICATION LiveSpec
CONSTANTS
  g = g
  h1 = h1
  h2 = h2
  NumWinners = 3
  Hotkeys = {g, h1, h2}
  Uids = {0, 1}
  HotkeyOf <- ThreeModels
  UidOf <- ThreeUids
  BurnUid = 0
  FirstMetagraph <- H1Holds
  MaxSlots = 2
  Rate = 2
  MaxBlock = 3
  MaxEpochs = 4
  MaxFaults = 1
INVARIANT ReignsSucceed
INVARIANT OneShareEach
PROPERTY SettledForGood
PROPERTY OnlyARacedRefreshGoesBack
PROPERTY ChainCatchesUp
CHECK_DEADLOCK FALSE
