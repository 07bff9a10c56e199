SPECIFICATION FairSpec
CONSTANTS
  a = a
  b = b
  t1 = t1
  w1 = w1
  w2 = w2
  Ops = {a}
  HostOps = {}
  Targets = {t1}
  TargetOf <- OneTarget
  Workers = {w1}
  MaxAttempts = 2
  Lease = 1
  Lifetime = 2
  Orphan = 1
  Backoff = 0
  Capacity = 1
  LastIssue = 0
  MaxNow = 4
  MaxDelay = 1
  MaxCrashes = 1
PROPERTY EveryOperationEnds
CHECK_DEADLOCK FALSE
