SPECIFICATION FairSpec
CONSTANTS
  g1 = g1
  g2 = g2
  Gates = {g1}
  Timeout = 1
  MaxEpoch = 2
  MaxPause = 1
  MaxLate = 1
PROPERTY WaiterReturns
