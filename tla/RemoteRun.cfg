SPECIFICATION LiveSpec
CONSTANTS
  s = s
  t = t
  Samples = {s, t}
  Horizon <- LongAndShort
  Patched = {s}
  Texts <- Models
  BatchSize = 2
  MinPct = 50
  Calls <- RunCalls
  MaxConns = 2
INVARIANT NothingWaitsOnAReplacedSocket
INVARIANT VerdictIsOfEveryPair
INVARIANT WalksMergeAsTheyEnded
PROPERTY RunEnds
CHECK_DEADLOCK FALSE
