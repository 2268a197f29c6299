SPECIFICATION MCSpec
CONSTANTS
  UserKeys = {u1, u2}
  ScopedKeys = {s1, s2, s3}
  Replicas = {r1, r2}
  Busy = r1
  Requests = {v1, v2}
  CacheSize = 1
  TTL = 2
  MaxTime = 3
  MaxLives = 2
  MaxFaults = 1
  None = None
  Clients = {c1, c2}
  Batches = {0, 2, 3}
  Second = 2
  AddrBurst = 2
  UserBurst = 2
  LimiterTTL = 2
  LastTick = 3
  MaxDebt = 0
  Nothing = Nothing
SYMMETRY Symmetry
INVARIANTS KeysFollowSandbox AcceptedKeysAreFresh  RetryIsServed
CHECK_DEADLOCK FALSE
