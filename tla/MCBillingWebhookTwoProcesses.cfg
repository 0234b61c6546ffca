SPECIFICATION Spec
CONSTANTS
  h1 = h1
  h2 = h2
  u1 = u1
  c1 = c1
  c2 = c2
  p1 = p1
  p2 = p2
  None = None
  Handlers = {h1, h2}
  Users = {u1}
  Checkouts = {c1, c2}
  Payments = {p1, p2}
  Owner <- MCOwner
  Kind <- MCKind
  Credit <- MCCredit
  LinkOf <- MCLinkOf
  MaxSpend = 1
  MaxEvents = 5
PROPERTIES
  ReversalDominates
CHECK_DEADLOCK FALSE
