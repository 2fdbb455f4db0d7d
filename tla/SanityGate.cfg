SPECIFICATION Spec
CONSTANTS
  s1 = s1
  s2 = s2
  m1 = m1
  m2 = m2
  Models = {m1, m2}
  Attempts <- Two
  Samples = {s1, s2}
  Answers = {"look", "submit", "prose"}
  MaxFaults = 1
  Turns = 3
  MaxBadTurns = 2
  MaxSilent = 1
  MaxRejections = 1
  LoopRun = 2
  NudgeWindow = 2
  NudgeEvery = 2
  Consensus = FALSE
  MinFailedSamples = 2
INVARIANT ServedByItsModel
INVARIANT JudgedWhole
PROPERTY GenerationsAreLeftAlone
SYMMETRY Symmetry
CHECK_DEADLOCK FALSE
