SPECIFICATION LiveSpec
CONSTANTS
  a = a
  b = b
  c = c
  u = u
  v = v
  Hotkeys = {a, b, c}
  Private = {a, b}
  Ownerless = {c}
  Uids = {u, v}
  FirstHolder <- PublicFirst
  Repos = {"r"}
  Keys = {"k1"}
  Models = {"m1"}
  Stuck = {a}
  MaxBlock = 4
  MaxMoves = 1
  MaxFaults = 1
  MaxAttempts = 2
INVARIANT FrozenUploads
INVARIANT VerifiedBytesStay
PROPERTY SwappedNeverEnters
PROPERTY ActivationAnswered
CHECK_DEADLOCK FALSE
