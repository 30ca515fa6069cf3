CONSTANTS
  r1 = r1  r2 = r2  w1 = w1  w2 = w2
  m1 = m1  m2 = m2  m3 = m3  c1 = c1  c2 = c2  c3 = c3  p1 = p1
  Replica = {r1, r2}
  Worker = {w1, w2}
  Home <- MCHome
  Msg = {m1, m2, m3}
  CorrId = {c1, c2, c3}
  Corr <- MCCorr
  Balanced = {m1, m3}
  Key = {c1, c2, c3}
  Request <- MCRequest
  OrderId = {o1, o2}
  None = None
  MaxCopies = 1
  Partition = {p1}
  PartitionOf <- MCPartitionOf
  Junk = Junk
  NoOffset = NoOffset
  MaxLog = 2
  MaxFaults = 2
SPECIFICATION KFairSpec
INVARIANTS KTypeOK OffsetsFollowOrders OrdersFollowTheLog
PROPERTIES EveryCheckoutOrdered
CHECK_DEADLOCK FALSE
