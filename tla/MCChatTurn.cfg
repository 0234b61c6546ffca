CONSTANTS
  j1 = j1
  j2 = j2
  s1 = s1
  s2 = s2
  t1 = t1
  p1 = p1
  p2 = p2
  Requests = {j1, j2, s1, s2, t1}
  JsonTurns = {j1, j2}
  StreamTurns = {s1, s2}
  TeamTurns = {t1}
  Audits = {j1, j2, s1}
  Members = {m1, m2}
  Owner = Owner
  Procs = {p1, p2}
  Server <- MCServer
  UserLimit = 1
  MaxFaults = 1
SPECIFICATION MCSpec
INVARIANTS
  EvidenceStands
  RateBound
  DoneIsTrue
PROPERTIES
  TurnEnds
CHECK_DEADLOCK FALSE
