CONSTANTS
  s1 = s1
  s2 = s2
  t1 = t1
  t2 = t2
  t3 = t3
  k1 = k1
  k2 = k2
  None = None
  Senders = {s1, s2}
  Tasks = {t1, t2, t3}
  Keys = {k1, k2}
  SenderOf <- MCThreeOfTwo
  KeysOf <- MCThreeKeys
  Modes = {"push", "eager", "delay"}
  Total = 4
  Reserve = 50
  Faults <- MCAllFaults

SPECIFICATION FairSpec
INVARIANT SenderExact
INVARIANT ReceiverExact
INVARIANT ReadsPinned
PROPERTY PagesReturned
CHECK_DEADLOCK FALSE
