SPECIFICATION Spec
CONSTANTS
  a = a
  b = b
  t1 = t1
  w1 = w1
  w2 = w2
  Ops = {a}
  HostOps = {a}
  Targets = {t1}
  TargetOf <- OneTarget
  Workers = {w1, w2}
  MaxAttempts = 2
  Lease = 2
  Lifetime = 3
  Orphan = 1
  Backoff = 0
  Capacity = 1
  LastIssue = 0
  MaxNow = 5
  MaxDelay = 1
  MaxCrashes = 1
SYMMETRY Symmetry
INVARIANTS TypeOK AtMostOnce OutcomeIsTrue RetryHasAttempts
PROPERTY ImplementsContract
CHECK_DEADLOCK FALSE
