CONSTANTS
  r1 = r1  r2 = r2
  w1 = w1  w2 = w2  w3 = w3
  m1 = m1  m2 = m2  m3 = m3  m4 = m4
  c1 = c1  c2 = c2  k1 = k1
  o1 = o1  o2 = o2
  Replica = {r1, r2}
  Worker = {w1, w2, w3}
  Home <- MCHome
  Msg = {m1, m2, m3, m4}
  CorrId = {c1, c2}
  Corr <- MCCorr
  Balanced = {m1, m2, m3}
  Key = {c1, c2, k1}
  Request <- MCRequest
  OrderId = {o1, o2}
  None = None
  MaxCopies = 2
SYMMETRY MCSymmetry
SPECIFICATION Spec
INVARIANTS TypeOK OneOrderPerCorrelation KeysAndOrdersAgree SaveNeverOverwrites OnePublisherPerOrder AnswersAreCommitted
PROPERTIES RowsAreFinal ImplementsOrderBook
