SPECIFICATION FairSpec
CONSTANTS
  g1 = g1
  g2 = g2
  Gates = {g1, g2}
  Timeout = 3
  MaxEpoch = 1
  MaxPause = 2
  MaxLate = 1
INVARIANTS TypeOK BudgetIsExact NoLostWakeup NoUnconsentedExit ExitAtMostOnce
PROPERTIES TimeoutAfterFullBudget ImplementsVote
PROPERTIES RoundsDoNotHang ExitingIsActedOn
