CONSTANTS
  None = None
  Lookups <- MCLookups
  Chunks = 2
  Found <- MCFound
  Setups <- MCSetups
  MaxTries = 2
  MaxFaults = 2
  BufferPages = 3

SPECIFICATION FairSpec
INVARIANT PagesExact
INVARIANT ReadsHeld
INVARIANT PoolsIntact
PROPERTY PeerSettles
CHECK_DEADLOCK FALSE
