SPECIFICATION FairSpec
CONSTANTS
  a = a
  b = b
  c = c
  t1 = t1
  t2 = t2
  d1 = d1
  d2 = d2
  NoServer = NoServer
  Ops = {a, b}
  Targets = {t1, t2}
  TargetOf <- OwnTargets
  Dispatchers = {d1}
  Batch = 2
  MaxAttempts = 1
  Lease = 1
  Backoff = 1
  Retention = 0
  MaxRows = 2
  MaxPurges = 0
  MaxFaults = 1
INVARIANT DeliveredWasTyped
PROPERTY SettledWhenReady
