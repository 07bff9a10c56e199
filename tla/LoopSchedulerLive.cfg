SPECIFICATION FairSpec
CONSTANTS
  MaxTime = 2
  DueTimes <- OneDue
  MaxRuns = 2
  MaxEdits = 1
  MaxFails = 2
  MaxCrashes = 1
  Policy = "wait"
INVARIANT MissedNotSent
PROPERTY SentIsSettled
PROPERTY PendingSettles
