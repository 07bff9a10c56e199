SPECIFICATION Spec
CONSTANTS
  MaxTime = 3
  DueTimes <- TwoDue
  MaxRuns = 2
  MaxEdits = 2
  MaxFails = 1
  MaxCrashes = 0
  Policy = "wait"
INVARIANT TypeOK
INVARIANT SentOnce
INVARIANT RowHasItsState
PROPERTY CheckedNeverGoesBack
