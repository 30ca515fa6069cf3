CONSTANTS
  alice = alice  d1 = d1  d2 = d2  p1 = p1  p2 = p2  x1 = x1  x2 = x2  k1 = k1  k2 = k2  k3 = k3
  User = {alice}
  Product = {p1, p2}
  Call = {d1, d2}
  Pod = {pod1}
  CartId = {x1, x2}
  CorrId = {k1, k2, k3}
  Transport = "auto"
  HasBrokers = TRUE
  HasBus = FALSE
  MaxQty = 1
  MaxAdds = 2
  NoCall = NoCall
  NoProduct = NoProduct
SYMMETRY MCSymmetry
SPECIFICATION SSpec
INVARIANTS NothingFromNowhere ItemsConserved OrderedOnce OrderedWasShown
CHECK_DEADLOCK FALSE
