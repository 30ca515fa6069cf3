CONSTANTS
  t1 = t1  d1 = d1  d2 = d2  d3 = d3
  Id = {t1}
  Call = {d1, d2, d3}
  MaxWrites = 4
SYMMETRY MCSymmetry
SPECIFICATION Spec
INVARIANTS TypeOK NoLostUpdate StaleHasACause
