SPECIFICATION FairSpec
CONSTANTS
  a = a
  b = b
  c1 = c1
  c2 = c2
  w1 = w1
  NoTarget = NoTarget
  Targets = {a, b}
  Prompts = {b}
  Steps = 1
  Calls = {c1}
  Waiters = {w1}
  MaxFaults = 1
INVARIANTS TypeOK FinishedIsSettled
PROPERTIES StartsAreAllowed GateOpens CallsReturn
CHECK_DEADLOCK FALSE
