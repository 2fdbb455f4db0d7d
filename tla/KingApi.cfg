SPECIFICATION Spec
CONSTANTS
  a1 = a1
  n1 = n1
  n2 = n2
  n3 = n3
  b1 = b1
  b2 = b2
  c1 = c1
  c2 = c2
  Accounts <- MCAccounts
  Keys <- MCKeys
  Names <- MCNames
  Browsers <- MCBrowsers
  Clients <- MCClients
  NoAccount = NoAccount
  MaxLosses = 1
  MaxKeys = 1
  CreationsPerDay = 3
  Quota = 1
  Rpm = 1
  Parallel = 1
  GlobalMax = 1
  MaxBusy = 2
INVARIANT KeyCapHolds
INVARIANT QuotaHolds
CONSTRAINT FewAtOnce
SYMMETRY Interchangeable
CHECK_DEADLOCK FALSE
