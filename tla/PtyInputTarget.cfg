SPECIFICATION Spec
CONSTANTS
  a = a
  b = b
  t1 = t1
  w1 = w1
  w2 = w2
  Ops = {a, b}
  HostOps = {a}
  Targets = {t1}
  TargetOf <- OneTarget
  Workers = {w1, w2}
  MaxAttempts = 1
  Lease = 1
  Lifetime = 2
  Orphan = 0
  Backoff = 0
  Capacity = 2
  LastIssue = 0
  MaxNow = 3
  MaxDelay = 1
  MaxCrashes = 0
SYMMETRY Symmetry
INVARIANT OneWriterPerTarget
CHECK_DEADLOCK FALSE
