CONSTANTS
  r1 = r1  r2 = r2  w1 = w1  w2 = w2
  m1 = m1  m2 = m2  c1 = c1  c2 = c2  k1 = k1  k2 = k2
  b1 = b1  b2 = b2  b3 = b3
  Replica = {r1, r2}
  Worker = {w1, w2}
  Home <- MCHome
  Msg = {m1, m2}
  CorrId = {c1, c2}
  Corr <- MCCorr
  Balanced = {m1}
  Key = {k1, k2, c2}
  Request <- MCRequest
  OrderId = {o1}
  None = None
  MaxCopies = 1
  BusMessage = {b1, b2, b3}
  Carries <- MCCarries
  BatchSize = 2
  MaxDelivery = 2
  MaxFaults = 1
SPECIFICATION BFairSpec
INVARIANTS BTypeOK CompletedMeansOrdered NoCheckoutLostUnfailed DeadLetterHasCause
PROPERTIES EveryMessageSettles EveryCallEnds
CHECK_DEADLOCK FALSE
