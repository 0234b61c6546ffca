SPECIFICATION MCSpec
CONSTANTS
  r1 = r1
  r2 = r2
  r3 = r3
  r4 = r4
  r5 = r5
  r6 = r6
  r7 = r7
  t1 = t1
  t2 = t2
  t3 = t3
  s1 = s1
  s2 = s2
  m1 = m1
  m2 = m2
  o1 = o1
  o2 = o2
  None = None
  Requests = {r1, r2, r3, r4, r5, r6, r7}
  Turns = {t1, t2, t3}
  Processes = {s1, s2}
  Members = {m1, m2}
  TurnOf <- MCTurnOf
  Endpoint <- MCEndpoint
  ProcessOf <- MCProcessOf
  MaxLosses = 1
  Sessions = {o1, o2}
  SessionOf <- MCSessionOf
  UserLimit = 1
  MaxSegments = 2
INVARIANTS
  OneExecution
  ReceiptNamesAnswer
  NoSilentEnd
  SegmentBound
PROPERTIES
  OutcomeFinal
  TurnEnds
CHECK_DEADLOCK FALSE
