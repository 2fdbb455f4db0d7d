SPECIFICATION Spec
CONSTANTS
  r1 = r1
  r2 = r2
  p1 = p1
  p2 = p2
  writer = writer
  NoProducer = NoProducer
  Runs <- MCRuns
  Askers <- MCRuns
  Producers <- MCProducers
  Slots <- MCSlots
  Writer = writer
  Commands = {"cmd"}
  Providers = 1
  Turns = 2
  MaxRequests = 1
  EngyMaxErrors = 1
  EngyGate = 1
  EngyRoom = 1
  ModelRoom = 1
  ParseRetries = 1
  RetryCount = 1
INVARIANT OneSimulationAtATime
INVARIANT PreparedIsUsed
PROPERTY BestIsServed
SYMMETRY Interchangeable
