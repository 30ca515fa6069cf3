CONSTANTS
  alice = alice  bob = bob  d1 = d1  d2 = d2  p1 = p1  p2 = p2  x1 = x1  x2 = x2
  User = {alice, bob}
  Product = {p1, p2}
  Call = {d1, d2}
  Pod = {pod1}
  CartId = {x1, x2}
  CorrId = {k1}
  Transport = "auto"
  HasBrokers = TRUE
  HasBus = FALSE
  MaxQty = 1
  MaxAdds = 3
SYMMETRY MCSymmetry
SPECIFICATION Spec
INVARIANTS AutoFollowsEnvironment
CHECK_DEADLOCK FALSE
