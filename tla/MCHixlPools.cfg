CONSTANTS
  None = None
  Lookups <- MCLookups
  Chunks = 2
  Found <- MCFound
  Setups <- MCHixlDelay
  MaxTries = 2
  MaxFaults = 0
  BufferPages = 3

SPECIFICATION Spec
INVARIANT PoolsIntact
CHECK_DEADLOCK FALSE
