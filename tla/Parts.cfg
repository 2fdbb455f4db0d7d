SPECIFICATION MCSpec
CONSTANTS
  h1 = h1
  h2 = h2
  NumSubs = 2
  Hotkeys = {h1, h2}
  HotkeyOf <- TwoOfOne
  Reregistering = {h1}
  MaxAttempts = 2
  MaxStrikes = 1
  MaxRetry = 2
  MaxFaults = 2
  Base <- MCBase
  Written <- MCWritten
  Commands <- MCCommands
  MaxTurns = 3
  MaxRecorded = 1
  Formats = {TRUE, FALSE}
  Counts <- MCCounts
  MaxPicked = 6
  Pool <- MCPool
  RepoCap = 2
  Blocks <- MCBlocks
  Silences = {"touch"}
  MaxRun = 3
  MaxDoc = 4
  Models <- MCModels
  Miner <- MCMiner
  Weights <- MCWeights
  MaxTries = 2
  MaxUnlucky = 2
  Corpus <- MCCorpus
  TaskSpans = {"task"}
  Vectors <- MCVectors
  Ladders <- MCLadders
  BadTexts = {"leak"}
  Nouls = {0, 60, 100}
  LadderMin = 2
  RungsMax = 2
  QuestionFloor = 2
  Judges = {j1, j2}
  Questions = {q1, q2}
  Repeats = 2
  Points = {0, 1000000}
  Samples = 2
  MinValid = 50
INVARIANT TriesAreInStep
INVARIANT OverlayIsTheMachine
INVARIANT AnswersAreTheMachines
INVARIANT SampleIsTheMix
INVARIANT ReaskingIsNoLoop
INVARIANT AcceptedIsGuarded
INVARIANT NothingIsLost
INVARIANT WinIsEarned
PROPERTY VerdictStands
PROPERTY EveryoneIsScreened
CHECK_DEADLOCK FALSE
