SPECIFICATION FairSpec
CONSTANTS
  k1 = k1
  k2 = k2
  r1 = r1
  NoKey = NoKey
  Keys = {k1, k2}
  Returns = {r1}
  Reasons = {"hold"}
  MaxSeconds = 2
  MaxFaults = 1
INVARIANTS TypeOK ClosingExcludesWork
PROPERTIES ClosesUndisturbed ClosesOnlyAnswered DeliveryResumes AnsweredIsClosed
CHECK_DEADLOCK FALSE
