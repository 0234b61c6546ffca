SPECIFICATION MCSpec
CONSTANTS
  p1 = p1
  p2 = p2
  p3 = p3
  u1 = u1
  u2 = u2
  u3 = u3
  a1 = a1
  k1 = k1
  k2 = k2
  k3 = k3
  k4 = k4
  y1 = y1
  y2 = y2
  y3 = y3
  x1 = x1
  d1 = d1
  d2 = d2
  d3 = d3
  b1 = b1
  b2 = b2
  v1 = v1
  v2 = v2
  c1 = c1
  c2 = c2
  Keyless = Keyless
  Silence = Silence
  Env = Env
  Pastes = {p1, p2, p3}
  Uploads = {u1, u2, u3}
  Renders = {a1}
  Keys = {k1, k2, k3, k4}
  KeyOf <- MCKeyOf
  MaxFaults = 2
  Chars <- MCChars
  Extracted <- MCExtracted
  MaxFiles = 2
  MaxChars = 4
  PerFile = 3
  Plays = {y1, y2, y3}
  PlayKey <- MCPlayKey
  Speaker = b1
  CacheEnabled = TRUE
  MaxMishaps = 2
  Drafts = {d1, d2, d3}
  AgentOf <- MCAgentOf
  VoiceOf <- MCVoiceOf
  Clerks = {c1, c2}
  MaxJobs = 5
INVARIANTS
  RowsHaveContent
  ReadyStaysWhole
  ContextIsTruthful
  ReadyIsSupplied
  OneAssignment
  PlayedAsResolved
  KeyedOnce
PROPERTIES
  PlaysEnd
CHECK_DEADLOCK FALSE
