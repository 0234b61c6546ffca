CONSTANTS
  Accounts = {a1, a2}
  Grants = {g1, g2}
  Requests = {r1, r2}
  Tokens = {t1, t2}
  Sessions = {s1, s2}
  MaxPasswords = 2
  None = None
SYMMETRY Symmetry
SPECIFICATION Spec
INVARIANTS
  LoadedIsOpen
  SessionsEndWithReset
  GrantAdmitsOne
CHECK_DEADLOCK FALSE
