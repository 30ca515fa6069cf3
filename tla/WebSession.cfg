CONSTANTS
  t1 = t1  t2 = t2  e1 = e1  e2 = e2  p1 = p1  p2 = p2  none = none
  Email = {e1, e2}
  Password = {p1, p2}
  Account <- MCAccount
  Tab = {t1, t2}
  None = none
  Lifetime = 1
  MaxTimeout = 1
  MaxTime = 2
  MaxForms = 2
  InFlight = 2
SPECIFICATION Spec
INVARIANTS TypeOK TokensNameAccounts
PROPERTIES ValidSessionEndsForAReason MixedByAnotherSignIn SignedOutEverywhere
