CONSTANTS
  r1 = r1
  r2 = r2
  r3 = r3
  Reqs = {r1, r2, r3}
  Prompt <- MCPrompt
  NLayers = 3
  Banks = 2
  MaxBatches = 2
  MaxPuts = 8
  MaxFaults = 2
  Batches <- MCBatches
  Filling = {r1, r3}
  Scenarios <- MCScenarios
  BlockSize = 2
  ChunkTokens = 4
  BundleTokens = 6
  Offsets = {0, 1}
  Capacity = 24
  Requests <- MCRequests
  MapPairs <- MCMapPairs
  MaxSteps = 4
SPECIFICATION ConnectorSpec
INVARIANTS BanksIntact PagesHeld FinishedIsDurable PlansExact
PROPERTY PrefillEnds
CHECK_DEADLOCK FALSE
