CONSTANTS
  r1 = r1
  r2 = r2
  a0 = a0
  a1 = a1
  b1 = b1
  i1 = i1
  i2 = i2
  Rets = {r1, r2}
  Ids = {i1}
  IdOf <- MCSameId
  Requests <- MCOneRequest
  Pages = {a0, a1, b1}
  Heap = {1, 2, 3, 4}
  Units <- MCUnits
  W = 1
  Source <- MCSource
  Prefix <- MCPrefix
  Aligned = {a0, a1}
  Limit = 3
  Attempts = {1}
  Engine = {"evict"}
  None = None
  Scratch = Scratch

SPECIFICATION Spec
INVARIANT TypeOK
INVARIANT OwnersReachable
INVARIANT LedgerExact
INVARIANT BudgetRespected
INVARIANT ReleasedOnlyWhenDurable
INVARIANT ShutdownSafe
INVARIANT OwnershipExact
PROPERTY ImplementsLifecycle
CHECK_DEADLOCK FALSE
