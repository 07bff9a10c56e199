SPECIFICATION Spec
CONSTANTS
  MaxTime = 3
  DueTimes <- TwoDue
  MaxRuns = 3
  MaxEdits = 1
  MaxFails = 0
  MaxCrashes = 0
  Policy = "wait"
INVARIANT DeliversOnce
