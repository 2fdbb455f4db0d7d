SPECIFICATION HostsSpec
CONSTANTS
  r1 = r1  f1 = f1  f2 = f2  t1 = t1  t2 = t2  m1 = m1  m2 = m2
  NoRef = NoRef  NoModel = NoModel
  Refs <- MCRefs  Files <- MCFiles  Threads <- MCThreads  Models <- MCModels
  StallRetries = 2
  MaxFaults = 2
  MaxTorn = 1
  MaxKings = 2
  MaxHubFaults = 1
  UnhealthyAfter = 2
  MaxEngineFaults = 2
INVARIANT ModelsAreWhole
PROPERTY EveryKingIsMirrored
PROPERTY EngineComesBack
CHECK_DEADLOCK FALSE
