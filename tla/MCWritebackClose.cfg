CONSTANTS
  r1 = r1
  r2 = r2
  a0 = a0
  a1 = a1
  b1 = b1
  i1 = i1
  i2 = i2
  Rets = {r1}
  Ids = {i1}
  IdOf <- MCIdOne
  Requests <- MCOneRequest
  Pages = {a0, a1}
  Heap = {1, 2, 3, 4}
  Units <- MCUnitsOne
  W = 1
  Source <- MCSourceOne
  Prefix <- MCPrefixOne
  Aligned = {a0}
  Limit = 3
  Attempts = {1}
  Engine = {"alias", "freeze"}
  None = None
  Scratch = Scratch

SPECIFICATION FairSpec
PROPERTY CloseTerminates
PROPERTY OwnersSettle
CHECK_DEADLOCK FALSE
