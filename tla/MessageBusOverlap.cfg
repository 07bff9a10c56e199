SPECIFICATION Spec
CONSTANTS
  a = a
  b = b
  c = c
  t1 = t1
  t2 = t2
  d1 = d1
  d2 = d2
  NoServer = NoServer
  Ops = {a}
  Targets = {t1}
  TargetOf <- OneTarget
  Dispatchers = {d1, d2}
  Batch = 1
  MaxAttempts = 2
  Lease = 1
  Backoff = 1
  Retention = 1
  MaxRows = 2
  MaxPurges = 1
  MaxFaults = 2
INVARIANTS TypeOK PoisonedHasFailed
PROPERTIES RetypedOnlyWhenLost TerminalUnlessLost
