CONSTANTS
  k1 = k1
  k2 = k2
  l1 = l1
  Keys = {k1, k2}
  Requests <- MCRequests
  Loads = {l1}
  KeyOf <- MCKeyOf
  MaxJobs = 1
  Repeats = 2

SPECIFICATION FairSpec
INVARIANT StagingSettled
INVARIANT CancelIsFinal
PROPERTY SealedIsSettled
CHECK_DEADLOCK FALSE
