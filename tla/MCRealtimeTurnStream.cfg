SPECIFICATION Spec
CONSTANTS
  r1 = r1
  r2 = r2
  r3 = r3
  r4 = r4
  r5 = r5
  t1 = t1
  t2 = t2
  s1 = s1
  s2 = s2
  m1 = m1
  m2 = m2
  None = None
  Requests = {r1, r2}
  Turns = {t1}
  Processes = {s1}
  Members = {m1, m2}
  TurnOf <- MCTurnOf
  Endpoint <- MCEndpoint
  ProcessOf <- MCProcessOf
  MaxLosses = 0
INVARIANTS
  FailedHasNoAnswer
CHECK_DEADLOCK FALSE
