CONSTANTS
  f = f
  u = u
  l = l
  p = p
  q = q
  Reqs = {f, u, l, p, q}
  Groups = {0, 1}
  Prompt <- MCPrompt
  Full <- MCFull
  Prior <- MCPrior
  Bases <- MCBases
  Mode <- MCMode
  Submission = "per_chunk"
  Limit = 1
  MaxJobs = 4
  MaxStores = 2
  MaxFaults = 2
  Scenarios <- MCScenarios
SPECIFICATION Spec
INVARIANTS FreedUnread SavedIsStored OffersWhole
PROPERTY EngineSettles
CHECK_DEADLOCK FALSE
