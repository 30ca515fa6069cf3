CONSTANTS
  t1 = t1  t2 = t2  p1 = p1  a1 = a1  a2 = a2
  Pod = {t1, t2}
  Partition = {p1}
  Order = {a1, a2}
  PartitionOf <- MCPartitionOf
  Junk = Junk
  None = None
  NoOffset = NoOffset
  MaxLog = 3
  MaxFaults = 2
SPECIFICATION CSpec
INVARIANTS PartitionWillRetry
CHECK_DEADLOCK FALSE
