CONSTANTS
  r1 = r1
  a1 = a1
  a2 = a2
  b1 = b1
  b2 = b2
  i1 = i1
  Rets = {r1}
  Ids = {i1}
  IdOf <- MCIdOf
  Requests <- MCRequests
  Pages = {a1, a2, b1, b2}
  Heap = {1, 2, 3, 4}
  Units <- MCUnits
  W = 2
  Source <- MCSource
  Prefix <- MCPrefix
  Aligned = {a1, b1}
  Limit = 4
  Attempts = {}
  Engine = {"evict"}
  None = None
  Scratch = Scratch

SPECIFICATION ReadSpec
INVARIANT NoFalseMiss
INVARIANT ReaderRefsExact
CHECK_DEADLOCK FALSE
