CONSTANTS
  q1 = q1
  q2 = q2
  q3 = q3
  k1 = k1
  k2 = k2
  Transfers = {q1, q2, q3}
  Keys = {k1, k2}
  PagesOf <- MCPages
  Batches <- MCBatches
  Scenarios <- MCScenarios
  Stored = {k2}
  Capacity = 2
  MaxFaults = 3
  Workers = 1
  MaxWindows = 2
  MaxBytes = 1
  Threshold = 1

SPECIFICATION Spec
INVARIANT PushOwnsPages
INVARIANT AdmittedIsComplete
INVARIANT QueueExact
CHECK_DEADLOCK FALSE
PROPERTY FillSettles
