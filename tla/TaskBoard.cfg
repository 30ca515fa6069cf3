CONSTANTS
  i1 = i1  i2 = i2  q1 = q1  q2 = q2  none = none
  Id = {i1, i2}
  Query = {q1, q2}
  None = none
SYMMETRY MCSymmetry
SPECIFICATION Spec
INVARIANTS TypeOK SavesItsOwnTask ListIsCurrent
CHECK_DEADLOCK FALSE
