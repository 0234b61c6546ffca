SPECIFICATION Spec
CONSTANTS
  u1 = u1
  u2 = u2
  c1 = c1
  c2 = c2
  c3 = c3
  c4 = c4
  p1 = p1
  p2 = p2
  p3 = p3
  p4 = p4
  None = None
  h1 = h1
  Handlers = {h1}
  Users = {u1, u2}
  Checkouts = {c1, c2, c3, c4}
  Payments = {p1, p2, p3, p4}
  Owner <- MCOwner
  Kind <- MCKind
  Credit <- MCCredit
  LinkOf <- MCLinkOf
  MaxSpend = 1
  MaxEvents = 6
INVARIANTS
  WalletMatchesLedger
  MoneyFollowsState
  Settled
  SolePlanInForce
PROPERTIES
  KeepsPromise
CHECK_DEADLOCK FALSE
